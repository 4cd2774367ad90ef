------------------------ MODULE QueryPipelineProofs -------------------------
(***************************************************************************)
(* Theorems about QueryPipeline, for any queries and any tables.            *)
(***************************************************************************)
EXTENDS QueryPipeline, PlacesProofs

-----------------------------------------------------------------------------
(* The shape of streams and blocks.                                         *)

IsSeq(s) == s \in Seq(Range(s))

IsColumn(c) == c = Column(c.name, c.alias, c.qualifier, c.tmp, c.data)

IsBlock(b) == IsSeq(b) /\ \A j \in DOMAIN b : IsColumn(b[j]) /\ IsSeq(b[j].data)

\* All columns have the same length.
Level(b) == \A j \in DOMAIN b : Len(b[j].data) = Rows(b)

\* What a stream may hold: blocks, level ones if the files are as long as each other.
Uniform(files) == \A c, d \in DOMAIN files : Len(files[c]) = Len(files[d])

GoodBlock(b, files) == IsBlock(b) /\ (Uniform(files) => Level(b))

GoodStream(s, files) ==
    /\ s = [blocks |-> s.blocks, closed |-> s.closed]
    /\ IsSeq(s.blocks)
    /\ \A i \in DOMAIN s.blocks : GoodBlock(s.blocks[i], files)

Wide(s) == \A i \in DOMAIN s.blocks : s.blocks[i] # <<>>

\* The groups met so far.
IsGroup(g) == g = [key |-> g.key, row |-> g.row, count |-> g.count] /\ g.count \in Nat

IsGroups(r) == IsSeq(r) /\ \A g \in DOMAIN r : IsGroup(r[g])

Working == {"filter", "group", "drop", "order", "limit", "print"}

\* Before the block of a step is gone it has columns, if the step is one of the first two;
\* so GroupByStep has seen one.
PipeInv ==
    /\ query \in Queries /\ table \in Tables
    /\ step \in Steps
    /\ step = "undefined" => ~(Rectangular /\ SoundQuery)
    /\ step \in {"interpret"} \union Working =>
          /\ GoodStream(in, table) /\ GoodStream(out, table)
          /\ IsGroups(results) /\ IsBlock(template)
    /\ step = "interpret" => out = EmptyStream
    /\ step \in Working => Planned(step) /\ in.closed /\ ~WrongFilter(query.where)
    /\ step \in {"filter", "group"} => Wide(in) /\ Wide(out)
    /\ step = "filter" => in.blocks # <<>> \/ out.blocks # <<>>
    /\ step = "group" => in.blocks # <<>> \/ template # NoBlock

\* A block whose last column counts, to the total.
CountsIn(c) == [i \in DOMAIN c.data |-> c.data[i][2]]

Counts(b) == CountsIn(b[Len(b)])

Counting(b, total) ==
    /\ b # <<>> /\ Level(b)
    /\ ~b[Len(b)].tmp
    /\ Counts(b) \in Seq(Nat) /\ SumOf(Counts(b)) = total

Counted(r) == SumOf([g \in DOMAIN r |-> r[g].count])

One(s) == Len(s.blocks) = 1

\* One block comes from the files and goes through all steps, from one on with the counts
\* of the matching rows.
OneCount == Len(Functions) = 1 /\ query.limit = None

AddsUp == \A j \in CountColumns : Total(j) = MatchingRows

ToFilter ==
    \/ One(in) /\ in.blocks[1] = ReadColumns(table, AllColumns) /\ out.blocks = <<>>
    \/ in.blocks = <<>> /\ One(out) /\ Rows(out.blocks[1]) = MatchingRows

ToGroup ==
    /\ out.blocks = <<>>
    /\ \/ One(in) /\ Rows(in.blocks[1]) = MatchingRows /\ results = <<>>
       \/ in.blocks = <<>> /\ Counted(results) = MatchingRows

ToPass ==
    \/ One(in) /\ Counting(in.blocks[1], MatchingRows) /\ out.blocks = <<>>
    \/ in.blocks = <<>> /\ One(out) /\ Counting(out.blocks[1], MatchingRows)

ToPrint ==
    \/ One(in) /\ Counting(in.blocks[1], MatchingRows) /\ reply = <<>>
    \/ in.blocks = <<>> /\ AddsUp

CountInv ==
    OneCount =>
        /\ step # "limit"
        /\ step \in {"interpret", "filter"} => results = <<>>
        /\ step \in {"interpret", "filter", "group", "drop", "order"} => reply = <<>>
        /\ step = "filter" => ToFilter
        /\ step = "group" => ToGroup
        /\ step \in {"drop", "order"} => ToPass
        /\ step = "print" => ToPrint
        /\ step = "ok" => AddsUp

-----------------------------------------------------------------------------
(* Sequences of whatever they hold.                                         *)

LEMMA SeqIf ==
  ASSUME NEW n \in Nat, NEW s, s = [i \in 1..n |-> s[i]]
  PROVE  IsSeq(s) /\ Len(s) = n /\ DOMAIN s = 1..n
<1>1. DOMAIN s = 1..n
  OBVIOUS
<1>2. \A i \in 1..n : s[i] \in Range(s)
  BY <1>1 DEF Range
<1> DEFINE R == Range(s)
<1> HIDE DEF R
<1>3. s \in [1..n -> R]
  BY <1>2 DEF R
<1>4. s \in Seq(R) /\ Len(s) = n
  BY <1>3
<1> QED
  BY <1>1, <1>4 DEF R, IsSeq

LEMMA SeqOfAnything ==
  ASSUME NEW E, NEW s \in Seq(E)
  PROVE  IsSeq(s)
<1>1. Len(s) \in Nat /\ s \in [1..Len(s) -> E]
  BY LenProperties
<1>2. s = [i \in 1..Len(s) |-> s[i]]
  BY <1>1
<1> QED
  BY <1>1, <1>2, SeqIf

LEMMA SeqFacts ==
  ASSUME NEW s, IsSeq(s)
  PROVE  /\ Len(s) \in Nat /\ DOMAIN s = 1..Len(s)
         /\ s = [i \in 1..Len(s) |-> s[i]]
         /\ s # <<>> <=> Len(s) > 0
         /\ s # <<>> => 1 \in DOMAIN s /\ Head(s) = s[1]
<1> DEFINE R == Range(s)
<1> HIDE DEF R
<1>1. s \in Seq(R)
  BY DEF IsSeq, R
<1>2. Len(s) \in Nat /\ DOMAIN s = 1..Len(s) /\ s \in [1..Len(s) -> R]
  BY <1>1, LenProperties
<1>3. s # <<>> <=> Len(s) > 0
  BY <1>1, <1>2
<1> QED
  BY <1>1, <1>2, <1>3

LEMMA NoneIsSeq == IsSeq(<<>>) /\ DOMAIN <<>> = {} /\ Len(<<>>) = 0
<1>1. <<>> \in Seq({})
  OBVIOUS
<1>2. IsSeq(<<>>)
  BY <1>1, SeqOfAnything
<1> QED
  BY <1>2, SeqFacts

LEMMA AppendToSeq ==
  ASSUME NEW s, IsSeq(s), NEW x
  PROVE  /\ IsSeq(Append(s, x)) /\ Append(s, x) # <<>>
         /\ Len(Append(s, x)) = Len(s) + 1
         /\ DOMAIN Append(s, x) = 1..(Len(s) + 1)
         /\ \A i \in DOMAIN s : Append(s, x)[i] = s[i]
         /\ Append(s, x)[Len(s) + 1] = x
<1> DEFINE E == Range(s) \union {x}
           t == Append(s, x)
<1>1. s \in Seq(E)
  <2>1. \A i \in 1..Len(s) : s[i] \in E
    BY SeqFacts DEF Range
  <2> HIDE DEF E
  <2> QED
    BY <2>1, SeqFacts, SeqIf DEF IsSeq
<1>2. x \in E
  OBVIOUS
<1> HIDE DEF E
<1>3. /\ t \in Seq(E) /\ t # <<>> /\ Len(t) = Len(s) + 1
      /\ \A i \in 1..Len(s) : t[i] = s[i]
      /\ t[Len(s) + 1] = x
  BY <1>1, <1>2, AppendProperties
<1> HIDE DEF t
<1>4. IsSeq(t)
  BY <1>3, SeqOfAnything
<1>5. DOMAIN t = 1..(Len(s) + 1) /\ DOMAIN s = 1..Len(s)
  BY <1>3, <1>4, SeqFacts
<1> QED
  BY <1>3, <1>4, <1>5 DEF t

LEMMA TailOfSeq ==
  ASSUME NEW s, IsSeq(s), s # <<>>
  PROVE  /\ IsSeq(Tail(s))
         /\ \A i \in DOMAIN Tail(s) : i + 1 \in DOMAIN s /\ Tail(s)[i] = s[i + 1]
<1> DEFINE R == Range(s)
<1>1. s \in Seq(R)
  BY DEF IsSeq
<1> HIDE DEF R
<1>2. /\ Tail(s) \in Seq(R) /\ Len(Tail(s)) = Len(s) - 1 /\ Len(s) \in Nat
      /\ \A i \in 1..Len(Tail(s)) : Tail(s)[i] = s[i + 1]
  BY <1>1, HeadTailProperties, LenProperties
<1>3. IsSeq(Tail(s))
  BY <1>2, SeqOfAnything
<1>4. DOMAIN Tail(s) = 1..(Len(s) - 1) /\ DOMAIN s = 1..Len(s)
  BY <1>2, <1>3, SeqFacts
<1> QED
  BY <1>2, <1>3, <1>4

LEMMA SeqsJoined ==
  ASSUME NEW s, IsSeq(s), NEW t, IsSeq(t)
  PROVE  /\ IsSeq(s \o t) /\ Len(s \o t) = Len(s) + Len(t)
         /\ \A i \in DOMAIN s : i \in DOMAIN (s \o t) /\ (s \o t)[i] = s[i]
         /\ \A i \in DOMAIN t : Len(s) + i \in DOMAIN (s \o t) /\ (s \o t)[Len(s) + i] = t[i]
         /\ \A i \in DOMAIN (s \o t) :
               \/ i \in DOMAIN s
               \/ i - Len(s) \in DOMAIN t
<1> DEFINE E == Range(s) \union Range(t)
           u == s \o t
<1>1. /\ Len(s) \in Nat /\ DOMAIN s = 1..Len(s) /\ s = [i \in 1..Len(s) |-> s[i]]
      /\ Len(t) \in Nat /\ DOMAIN t = 1..Len(t) /\ t = [i \in 1..Len(t) |-> t[i]]
  BY SeqFacts
<1>2. (\A i \in 1..Len(s) : s[i] \in E) /\ (\A i \in 1..Len(t) : t[i] \in E)
  BY <1>1 DEF Range
<1> HIDE DEF E
<1>3. s \in Seq(E) /\ t \in Seq(E)
  BY <1>1, <1>2
<1>4. /\ u \in Seq(E) /\ Len(u) = Len(s) + Len(t)
      /\ \A i \in 1..(Len(s) + Len(t)) : u[i] = IF i <= Len(s) THEN s[i] ELSE t[i - Len(s)]
  BY <1>3, ConcatProperties
<1> HIDE DEF u
<1>5. IsSeq(u)
  BY <1>4, SeqOfAnything
<1>6. DOMAIN u = 1..(Len(s) + Len(t))
  BY <1>4, <1>5, SeqFacts
<1>7. ASSUME NEW i \in DOMAIN t PROVE Len(s) + i \in DOMAIN u /\ u[Len(s) + i] = t[i]
  <2>1. i \in Int /\ 1 <= i /\ i <= Len(t)
    BY <1>1
  <2>2. Len(s) + i \in 1..(Len(s) + Len(t)) /\ ~(Len(s) + i <= Len(s)) /\ (Len(s) + i) - Len(s) = i
    BY <1>1, <2>1
  <2> QED
    BY <1>4, <1>6, <2>2
<1>8. \A i \in DOMAIN u : i \in DOMAIN s \/ i - Len(s) \in DOMAIN t
  BY <1>1, <1>6
<1>9. \A i \in DOMAIN s : i \in DOMAIN u /\ u[i] = s[i]
  BY <1>1, <1>4, <1>6
<1> QED
  BY <1>4, <1>5, <1>7, <1>8, <1>9 DEF u

LEMMA SeqKept ==
  ASSUME NEW s, IsSeq(s), NEW S \in SUBSET DOMAIN s
  PROVE  /\ IsSeq(AtPlaces(s, S))
         /\ \A k \in DOMAIN AtPlaces(s, S) : \E i \in S : AtPlaces(s, S)[k] = s[i]
<1> DEFINE R == Range(s)
           t == AtPlaces(s, S)
<1>1. s \in Seq(R)
  BY DEF IsSeq
<1> HIDE DEF R
<1>2. S \in SUBSET (1..Len(s))
  BY SeqFacts
<1>3. /\ t \in Seq(R)
      /\ \A k \in 1..Len(t) : \E i \in S : t[k] = s[i]
  BY <1>1, <1>2, AtPlacesFacts
<1> HIDE DEF t
<1>4. IsSeq(t)
  BY <1>3, SeqOfAnything
<1> QED
  BY <1>3, <1>4, SeqFacts DEF t

-----------------------------------------------------------------------------
(* Blocks.                                                                  *)

LEMMA LevelIf ==
  ASSUME NEW c, IsSeq(c), NEW n, \A j \in DOMAIN c : Len(c[j].data) = n
  PROVE  Level(c) /\ (c # <<>> => Rows(c) = n)
<1>1. CASE c = <<>>
  BY <1>1, NoneIsSeq DEF Level
<1>2. CASE c # <<>>
  <2>1. 1 \in DOMAIN c
    BY <1>2, SeqFacts
  <2>2. Rows(c) = n
    BY <1>2, <2>1 DEF Rows
  <2> QED
    BY <2>2 DEF Level
<1> QED
  BY <1>1, <1>2

\* A block whose columns get other values.
Refilled(b, D) == [j \in DOMAIN b |-> [b[j] EXCEPT !.data = D[j]]]

LEMMA OtherData ==
  ASSUME NEW b, IsBlock(b), NEW D, \A j \in DOMAIN b : IsSeq(D[j])
  PROVE  /\ IsBlock(Refilled(b, D)) /\ DOMAIN Refilled(b, D) = DOMAIN b
         /\ Refilled(b, D) = <<>> <=> b = <<>>
         /\ \A j \in DOMAIN b :
               /\ Refilled(b, D)[j].data = D[j] /\ Refilled(b, D)[j].tmp = b[j].tmp
               /\ Refilled(b, D)[j].name = b[j].name /\ Refilled(b, D)[j].alias = b[j].alias
<1> DEFINE c == Refilled(b, D)
<1>0. /\ c = [j \in DOMAIN b |-> c[j]]
      /\ \A j \in DOMAIN b : c[j] = [b[j] EXCEPT !.data = D[j]]
  BY DEF Refilled
<1> HIDE DEF c
<1>1. Len(b) \in Nat /\ DOMAIN b = 1..Len(b)
  BY SeqFacts DEF IsBlock
<1>2. c = [j \in 1..Len(b) |-> c[j]] /\ DOMAIN c = DOMAIN b
  BY <1>0, <1>1
<1>3. IsSeq(c) /\ Len(c) = Len(b)
  BY <1>1, <1>2, SeqIf
<1>4. c = <<>> <=> b = <<>>
  BY <1>3, SeqFacts DEF IsBlock
<1>5. ASSUME NEW j \in DOMAIN b
      PROVE  /\ IsColumn(c[j])
             /\ c[j].data = D[j] /\ c[j].tmp = b[j].tmp
             /\ c[j].name = b[j].name /\ c[j].alias = b[j].alias
  <2> DEFINE nm == b[j].name
             al == b[j].alias
             qu == b[j].qualifier
             tm == b[j].tmp
             da == b[j].data
             d  == D[j]
  <2>1. b[j] = [name |-> nm, alias |-> al, qualifier |-> qu, tmp |-> tm, data |-> da]
    BY DEF IsBlock, IsColumn, Column
  <2>2. c[j] = [b[j] EXCEPT !.data = d]
    BY <1>0
  <2> HIDE DEF nm, al, qu, tm, da, d
  <2>3. c[j] = [name |-> nm, alias |-> al, qualifier |-> qu, tmp |-> tm, data |-> d]
    BY ONLY <2>1, <2>2
  <2>4. IsColumn(c[j])
    BY ONLY <2>3 DEF IsColumn, Column
  <2>5. c[j].data = d /\ c[j].tmp = tm /\ c[j].name = nm /\ c[j].alias = al
    BY ONLY <2>3
  <2> QED
    BY <2>4, <2>5 DEF nm, al, tm, d
<1> QED
  BY <1>2, <1>3, <1>4, <1>5 DEF IsBlock, c

LEMMA PickedRows ==
  ASSUME NEW b, IsBlock(b), NEW n \in Nat, NEW is, DOMAIN is = 1..n
  PROVE  /\ IsBlock(PickRows(b, is)) /\ Level(PickRows(b, is))
         /\ DOMAIN PickRows(b, is) = DOMAIN b
         /\ PickRows(b, is) = <<>> <=> b = <<>>
         /\ b # <<>> => Rows(PickRows(b, is)) = n
         /\ \A j \in DOMAIN b :
               /\ PickRows(b, is)[j].data = [k \in 1..n |-> b[j].data[is[k]]]
               /\ PickRows(b, is)[j].tmp = b[j].tmp
               /\ PickRows(b, is)[j].name = b[j].name /\ PickRows(b, is)[j].alias = b[j].alias
<1> DEFINE D == [j \in DOMAIN b |-> [k \in 1..n |-> b[j].data[is[k]]]]
           c == PickRows(b, is)
<1>1. c = Refilled(b, D)
  BY DEF PickRows, Map, Refilled
<1> HIDE DEF c
<1>3. \A j \in DOMAIN b : IsSeq(D[j]) /\ Len(D[j]) = n
  BY SeqIf
<1>4. \A j \in DOMAIN b : D[j] = [k \in 1..n |-> b[j].data[is[k]]]
  OBVIOUS
<1> HIDE DEF D
<1>5. /\ IsBlock(c) /\ (c = <<>> <=> b = <<>>) /\ DOMAIN c = DOMAIN b
      /\ \A j \in DOMAIN b : /\ c[j].data = D[j] /\ c[j].tmp = b[j].tmp
                             /\ c[j].name = b[j].name /\ c[j].alias = b[j].alias
  BY <1>1, <1>3, OtherData
<1>6. Level(c) /\ (c # <<>> => Rows(c) = n)
  BY <1>3, <1>5, LevelIf DEF IsBlock
<1> QED
  BY <1>4, <1>5, <1>6 DEF c

LEMMA KeptColumns ==
  ASSUME NEW b, IsBlock(b), NEW S \in SUBSET DOMAIN b
  PROVE  /\ IsBlock(AtPlaces(b, S))
         /\ Level(b) => Level(AtPlaces(b, S))
<1> DEFINE c == AtPlaces(b, S)
<1>1. /\ IsSeq(c)
      /\ \A k \in DOMAIN c : \E i \in DOMAIN b : c[k] = b[i]
  BY SeqKept DEF IsBlock
<1> HIDE DEF c
<1>2. IsBlock(c)
  BY <1>1 DEF IsBlock
<1>3. Level(b) => Level(c)
  BY <1>1, LevelIf DEF Level
<1> QED
  BY <1>2, <1>3 DEF c

LEMMA DroppedColumns ==
  ASSUME NEW b, IsBlock(b)
  PROVE  /\ IsBlock(DropTmpColumns(b))
         /\ Level(b) => Level(DropTmpColumns(b))
BY KeptColumns DEF DropTmpColumns, Keep

LEMMA ClonedBlock ==
  ASSUME NEW b, IsBlock(b)
  PROVE  /\ IsBlock(CloneWithoutData(b))
         /\ CloneWithoutData(b) = <<>> <=> b = <<>>
<1> DEFINE D == [j \in DOMAIN b |-> <<>>]
           c == CloneWithoutData(b)
<1>1. c = Refilled(b, D)
  BY DEF CloneWithoutData, Map, Refilled
<1>2. \A j \in DOMAIN b : IsSeq(D[j])
  BY NoneIsSeq
<1> HIDE DEF c, D
<1> QED
  BY <1>1, <1>2, OtherData DEF c

LEMMA ReadableLevel ==
  ASSUME NEW b, IsBlock(b), Level(b)
  PROVE  Rows(b) \in Nat /\ RowsReadable(b)
<1>1. CASE b = <<>>
  BY <1>1, NoneIsSeq DEF Rows, RowsReadable, Readable
<1>2. CASE b # <<>>
  <2>1. 1 \in DOMAIN b
    BY <1>2, SeqFacts DEF IsBlock
  <2>2. Rows(b) \in Nat
    BY <2>1, SeqFacts DEF Level, IsBlock
  <2> QED
    BY <2>2 DEF Level, RowsReadable, Readable
<1> QED
  BY <1>1, <1>2

LEMMA IntRead ==
  ASSUME NEW v \in Int
  PROVE  GetInt(v) \in Int
<1>1. IntSize \in Nat \ {0}
  BY LettersAssumption
<1>2. v % IntSize \in Int /\ IntSize \div 2 \in Int
  BY <1>1
<1> QED
  BY <1>1, <1>2 DEF GetInt

LEMMA CutColumns ==
  ASSUME NEW b, IsBlock(b), NEW limit \in Int
  PROVE  /\ IsBlock(CutBlock(b, limit))
         /\ Level(b) => Level(CutBlock(b, limit))
<1>1. CASE b = <<>> \/ limit < 0 \/ Rows(b) < limit
  BY <1>1 DEF CutBlock
<1>2. CASE ~(b = <<>> \/ limit < 0 \/ Rows(b) < limit)
  <2> DEFINE D == [j \in DOMAIN b |-> [i \in 1..limit |->
                      IF i <= Len(b[j].data) THEN b[j].data[i] ELSE IntCell(0)]]
             c == CutBlock(b, limit)
  <2>1. c = Refilled(b, D)
    BY <1>2 DEF CutBlock, Map, Refilled
  <2>2. limit \in Nat
    BY <1>2
  <2>3. \A j \in DOMAIN b : IsSeq(D[j]) /\ Len(D[j]) = limit
    BY <2>2, SeqIf
  <2> HIDE DEF c, D
  <2>4. /\ IsBlock(c) /\ DOMAIN c = DOMAIN b
        /\ \A j \in DOMAIN b : c[j].data = D[j]
    BY <2>1, <2>3, OtherData
  <2>5. Level(c)
    BY <2>3, <2>4, LevelIf DEF IsBlock
  <2> QED
    BY <2>4, <2>5 DEF c
<1> QED
  BY <1>1, <1>2

\* The filter's column is one of the block, where it does not fail.
LEMMA FilteredBlock ==
  ASSUME NEW b, IsBlock(b), NEW filter, FilterColumn(b, filter.args[1]) \in DOMAIN b
  PROVE  /\ IsFiniteSet(Hits(b, filter)) /\ Cardinality(Hits(b, filter)) \in Nat
         /\ IsBlock(FilterBlock(b, filter)) /\ Level(FilterBlock(b, filter))
         /\ FilterBlock(b, filter) = <<>> <=> b = <<>>
         /\ b # <<>> => Rows(FilterBlock(b, filter)) = Cardinality(Hits(b, filter))
<1> DEFINE S == Hits(b, filter)
           n == Len(b[FilterColumn(b, filter.args[1])].data)
<1>1. n \in Nat /\ S \in SUBSET (1..n)
  BY SeqFacts DEF Hits, IsBlock
<1>2. IsFiniteSet(S) /\ S \in SUBSET Int
  <2>1. IsFiniteSet(1..n)
    BY <1>1, FS_Interval
  <2> QED
    BY <1>1, <2>1, FS_Subset
<1> HIDE DEF S
<1>3. Cardinality(S) \in Nat /\ DOMAIN Increasing(S) = 1..Cardinality(S)
  BY <1>2, IncreasingFacts
<1> QED
  BY <1>2, <1>3, PickedRows DEF FilterBlock, S

LEMMA MinOf ==
  ASSUME NEW S \in SUBSET Nat, S # {}
  PROVE  Min(S) \in S /\ \A x \in S : Min(S) <= x
<1>1. \E x \in S : \A y \in S : x <= y
  BY LeastOf
<1> QED
  BY <1>1 DEF Min

LEMMA FilterColumnFound ==
  ASSUME NEW b, IsBlock(b), NEW filter, FilterDefined(b, filter), ~FilterFails(b, filter)
  PROVE  FilterColumn(b, filter.args[1]) \in DOMAIN b
<1> DEFINE S == FilterColumns(b, filter.args[1])
<1>1. S # {}
  BY DEF FilterDefined, FilterFails
<1>2. S \in SUBSET DOMAIN b /\ S \in SUBSET Nat
  BY SeqFacts DEF FilterColumns, IsBlock
<1> HIDE DEF S
<1>3. Min(S) \in S
  BY <1>1, <1>2, MinOf
<1> QED
  BY <1>2, <1>3 DEF FilterColumn, S

LEMMA FilterReads ==
  ASSUME NEW b, IsBlock(b), Level(b), NEW filter,
         IsIdentifier(filter.args[1]), filter.args[2].kind \notin {"integer", "number"}
  PROVE  FilterDefined(b, filter)
<1> SUFFICES ASSUME ~FilterFails(b, filter) PROVE Readable(b, Hits(b, filter))
  BY DEF FilterDefined
<1> DEFINE S == FilterColumns(b, filter.args[1])
           f == FilterColumn(b, filter.args[1])
<1>1. S # {}
  BY DEF FilterFails
<1>2. S \in SUBSET DOMAIN b /\ S \in SUBSET Nat
  BY SeqFacts DEF FilterColumns, IsBlock
<1> HIDE DEF S
<1>3. f \in DOMAIN b
  BY <1>1, <1>2, MinOf DEF FilterColumn, S
<1>4. DOMAIN b[f].data = 1..Rows(b) /\ Rows(b) \in Nat
  BY <1>3, SeqFacts DEF IsBlock, Level
<1>5. \A i \in Hits(b, filter) : i \in 1..Rows(b)
  BY <1>4 DEF Hits
<1> QED
  BY <1>4, <1>5 DEF Readable, Level

LEMMA SelectedColumns ==
  ASSUME NEW select, IsSeq(select)
  PROVE  /\ IsBlock(GetColumns(select))
         /\ IsSeq(GetAgrFunctions(select))
<1>1. IsSeq(Keep(select, IsIdentifier)) /\ IsSeq(Keep(select, IsFunction))
  BY SeqKept DEF Keep
<1> DEFINE ids == Keep(select, IsIdentifier)
           cols == GetColumns(select)
<1>2. cols = [i \in DOMAIN ids |-> ColumnOf(ids[i])]
  BY DEF GetColumns, Map
<1> HIDE DEF ids, cols
<1>3. DOMAIN ids = 1..Len(ids) /\ Len(ids) \in Nat
  BY <1>1, SeqFacts DEF ids
<1>4. IsSeq(cols) /\ DOMAIN cols = DOMAIN ids
  BY <1>2, <1>3, SeqIf
<1>5. \A i \in DOMAIN cols : IsColumn(cols[i]) /\ IsSeq(cols[i].data)
  BY <1>2, NoneIsSeq DEF ColumnOf, Column, IsColumn
<1> QED
  BY <1>1, <1>4, <1>5 DEF IsBlock, GetAgrFunctions, cols

LEMMA FilterColumnsRead ==
  ASSUME NEW where
  PROVE  IsBlock(GetFilterColumns(where))
<1>1. CASE IsFunction(where) /\ IsIdentifier(where.args[1])
  <2> DEFINE c == ColumnOf(where.args[1])
  <2>1. IsColumn(c) /\ IsSeq(c.data)
    BY NoneIsSeq DEF ColumnOf, Column, IsColumn
  <2> HIDE DEF c
  <2>2. <<c>> \in Seq({c}) /\ DOMAIN <<c>> = {1} /\ <<c>>[1] = c
    OBVIOUS
  <2>3. IsBlock(<<c>>)
    BY <2>1, <2>2, SeqOfAnything DEF IsBlock
  <2> QED
    BY <1>1, <2>3 DEF GetFilterColumns, c
<1>2. CASE ~(IsFunction(where) /\ IsIdentifier(where.args[1]))
  <2>1. IsBlock(<<>>)
    BY NoneIsSeq DEF IsBlock
  <2> QED
    BY <1>2, <2>1 DEF GetFilterColumns
<1> QED
  BY <1>1, <1>2

LEMMA BlocksJoined ==
  ASSUME NEW b, IsBlock(b), NEW c, IsBlock(c)
  PROVE  IsBlock(b \o c)
<1> DEFINE d == b \o c
<1>1. /\ IsSeq(d) /\ Len(b) \in Nat
      /\ \A i \in DOMAIN b : d[i] = b[i]
      /\ \A i \in DOMAIN c : d[Len(b) + i] = c[i]
      /\ \A i \in DOMAIN d : i \in DOMAIN b \/ i - Len(b) \in DOMAIN c
  <2>1. IsSeq(b) /\ IsSeq(c)
    BY DEF IsBlock
  <2>2. IsSeq(d)
    BY <2>1, SeqsJoined
  <2>3. \A i \in DOMAIN b : i \in DOMAIN d /\ d[i] = b[i]
    BY <2>1, SeqsJoined
  <2>4. \A i \in DOMAIN c : Len(b) + i \in DOMAIN d /\ d[Len(b) + i] = c[i]
    BY <2>1, SeqsJoined
  <2>5. \A i \in DOMAIN d : i \in DOMAIN b \/ i - Len(b) \in DOMAIN c
    BY <2>1, SeqsJoined
  <2> QED
    BY <2>1, <2>2, <2>3, <2>4, <2>5, SeqFacts
<1> HIDE DEF d
<1>2. DOMAIN d = 1..Len(d) /\ Len(d) \in Nat
  BY <1>1, SeqFacts
<1>3. ASSUME NEW i \in DOMAIN d PROVE IsColumn(d[i]) /\ IsSeq(d[i].data)
  <2>1. CASE i \in DOMAIN b
    BY <1>1, <2>1 DEF IsBlock
  <2>2. CASE i - Len(b) \in DOMAIN c
    <3>1. Len(b) + (i - Len(b)) = i
      BY <1>1, <1>2
    <3>2. d[i] = c[i - Len(b)]
      BY <1>1, <2>2, <3>1
    <3> QED
      BY <2>2, <3>2 DEF IsBlock
  <2> QED
    BY <1>1, <2>1, <2>2
<1> QED
  BY <1>1, <1>3 DEF IsBlock, d

LEMMA CombinedColumns ==
  ASSUME NEW b, IsBlock(b), NEW c, IsBlock(c)
  PROVE  IsBlock(CombineColumns(b, c))
<1> DEFINE S == {i \in DOMAIN c : ~\E k \in DOMAIN b :
                     \/ b[k].name = c[i].name
                     \/ b[k].alias # <<>> /\ b[k].alias = c[i].name}
           kept == AtPlaces(c, S)
           tmps == [i \in DOMAIN kept |-> [kept[i] EXCEPT !.tmp = TRUE]]
<1>1. CombineColumns(b, c) = b \o tmps
  BY DEF CombineColumns, Keep, Map
<1>2. IsBlock(kept)
  BY KeptColumns
<1> HIDE DEF kept
<1>3. IsSeq(tmps) /\ DOMAIN tmps = DOMAIN kept
  <2>1. DOMAIN kept = 1..Len(kept) /\ Len(kept) \in Nat
    BY <1>2, SeqFacts DEF IsBlock
  <2> QED
    BY <2>1, SeqIf
<1>4. ASSUME NEW i \in DOMAIN kept PROVE IsColumn(tmps[i]) /\ IsSeq(tmps[i].data)
  <2> DEFINE t == tmps[i]
             nm == kept[i].name
             al == kept[i].alias
             qu == kept[i].qualifier
             tm == kept[i].tmp
             da == kept[i].data
             yes == TRUE
  <2>1. kept[i] = [name |-> nm, alias |-> al, qualifier |-> qu, tmp |-> tm, data |-> da]
    BY <1>2 DEF IsBlock, IsColumn, Column
  <2>2. t = [kept[i] EXCEPT !.tmp = yes] /\ IsSeq(da)
    BY <1>2 DEF IsBlock
  <2> HIDE DEF t, nm, al, qu, tm, da, yes
  <2>3. t = [name |-> nm, alias |-> al, qualifier |-> qu, tmp |-> yes, data |-> da]
    BY ONLY <2>1, <2>2
  <2>4. IsColumn(t) /\ t.data = da
    BY ONLY <2>3 DEF IsColumn, Column
  <2> QED
    BY <2>2, <2>4 DEF t
<1>5. IsBlock(tmps)
  BY <1>3, <1>4 DEF IsBlock
<1> QED
  BY <1>1, <1>5, BlocksJoined

\* The block that SelectStep begins with, where it does not throw.
LEMMA ColumnsRead ==
  ASSUME NEW files, NEW cols, IsBlock(cols), cols # <<>>,
         \A k \in DOMAIN cols : IsSeq(files[cols[k].name])
  PROVE  /\ IsBlock(ReadColumns(files, cols)) /\ ReadColumns(files, cols) # <<>>
         /\ (\A j, k \in DOMAIN cols : Len(files[cols[j].name]) = Len(files[cols[k].name]))
               => Level(ReadColumns(files, cols))
<1> DEFINE lens == {Len(files[cols[k].name]) : k \in DOMAIN cols}
           all == Min(lens)
           S == {k \in DOMAIN cols : Len(files[cols[k].name]) > all}
           longer == Increasing(S)
           Rest(k) == IF k \in DOMAIN longer
                      THEN <<files[cols[longer[k]].name][all + 1]>> ELSE <<>>
           D == [k \in DOMAIN cols |-> SubSeq(files[cols[k].name], 1, all) \o Rest(k)]
           b == ReadColumns(files, cols)
<1>1. b = Refilled(cols, D)
  BY DEF ReadColumns, Refilled
<1>2. all \in lens /\ lens \in SUBSET Nat /\ \A n \in lens : all <= n
  <2>1. 1 \in DOMAIN cols
    BY SeqFacts DEF IsBlock
  <2>2. \A k \in DOMAIN cols : Len(files[cols[k].name]) \in Nat
    BY SeqFacts
  <2>3. lens # {} /\ lens \in SUBSET Nat
    BY <2>1, <2>2
  <2> HIDE DEF lens
  <2> QED
    BY <2>3, MinOf
<1>3. ASSUME NEW k \in DOMAIN cols
      PROVE  LET part == SubSeq(files[cols[k].name], 1, all)
             IN  IsSeq(part) /\ Len(part) = all
  <2> DEFINE f == files[cols[k].name]
             R == Range(f)
  <2>1. f \in Seq(R) /\ Len(f) \in lens
    BY DEF IsSeq
  <2> HIDE DEF f, R, lens, all
  <2>2. all \in Nat /\ all <= Len(f) /\ Len(f) \in Nat
    BY <1>2, <2>1
  <2>3. \A i \in 1..all : f[i] \in R
    BY <2>1, <2>2, ElementOfSeq
  <2>4. SubSeq(f, 1, all) \in Seq(R) /\ Len(SubSeq(f, 1, all)) = all
    BY <2>2, <2>3, SubSeqProperties
  <2> QED
    BY <2>4, SeqOfAnything DEF f
<1>4. \A x : IsSeq(<<x>>)
  <2> SUFFICES ASSUME NEW x PROVE IsSeq(<<x>>)
    OBVIOUS
  <2>1. <<x>> \in Seq({x})
    OBVIOUS
  <2> QED
    BY <2>1, SeqOfAnything
<1>5. \A k \in DOMAIN cols : IsSeq(Rest(k))
  BY <1>4, NoneIsSeq
<1> HIDE DEF Rest, all, lens, longer
<1>6. \A k \in DOMAIN cols : /\ IsSeq(D[k])
                             /\ Len(D[k]) = all + Len(Rest(k))
  BY <1>3, <1>5, SeqsJoined
<1> HIDE DEF D
<1>7. /\ IsBlock(b) /\ DOMAIN b = DOMAIN cols /\ b # <<>>
      /\ \A k \in DOMAIN cols : b[k].data = D[k]
  BY <1>1, <1>6, OtherData
<1>8. ASSUME \A j, k \in DOMAIN cols : Len(files[cols[j].name]) = Len(files[cols[k].name])
      PROVE  Level(b)
  <2>1. \A k \in DOMAIN cols : Len(files[cols[k].name]) = all
    BY <1>2, <1>8 DEF lens
  <2>2. \A k \in DOMAIN cols : ~(Len(files[cols[k].name]) > all)
    BY <1>2, <2>1
  <2>3. S = {}
    BY <2>2
  <2>4. DOMAIN longer = {}
    BY <2>3, NothingIncreasing DEF longer
  <2>5. \A k \in DOMAIN cols : Rest(k) = <<>>
    BY <2>4 DEF Rest
  <2>6. \A k \in DOMAIN b : Len(b[k].data) = all
    BY <1>2, <1>6, <1>7, <2>5, NoneIsSeq
  <2> QED
    BY <1>7, <2>6, LevelIf DEF IsBlock
<1> QED
  BY <1>7, <1>8 DEF b

\* The block of the results: behind n columns, one for each function.
HasCounts(c, n, functions, rs) ==
    /\ Len(c) = n + Len(functions)
    /\ \A f \in DOMAIN functions :
          /\ n + f \in DOMAIN c
          /\ DOMAIN c[n + f].data = DOMAIN rs
          /\ \A g \in DOMAIN rs : c[n + f].data[g] = IntCell(rs[g].count)
          /\ c[n + f].tmp = FALSE
          /\ c[n + f].name = functions[f].name /\ c[n + f].alias = functions[f].alias

\* In front of them those of b, with the values of the groups.
HasValues(c, b, rs) ==
    \A j \in DOMAIN b :
        /\ j \in DOMAIN c
        /\ c[j].name = b[j].name /\ c[j].alias = b[j].alias /\ c[j].tmp = b[j].tmp
        /\ c[j].data = [g \in DOMAIN rs |-> rs[g].row[j]]

LEMMA GroupedColumns ==
  ASSUME NEW b, IsBlock(b), NEW m \in Nat, NEW rs, DOMAIN rs = 1..m,
         NEW functions, IsSeq(functions)
  PROVE  /\ IsBlock(GroupColumns(b, rs, functions)) /\ Level(GroupColumns(b, rs, functions))
         /\ HasCounts(GroupColumns(b, rs, functions), Len(b), functions, rs)
         /\ HasValues(GroupColumns(b, rs, functions), b, rs)
<1> DEFINE D == [j \in DOMAIN b |-> [g \in 1..m |-> rs[g].row[j]]]
           e == [g \in 1..m |-> IntCell(rs[g].count)]
           Call(f) == Column(functions[f].name, functions[f].alias, <<>>, FALSE, e)
           u == Refilled(b, D)
           v == [f \in DOMAIN functions |-> Call(f)]
           c == GroupColumns(b, rs, functions)
<1>1. c = u \o v
  BY DEF GroupColumns, Refilled
<1>2. (\A j \in DOMAIN b : IsSeq(D[j]) /\ Len(D[j]) = m) /\ IsSeq(e) /\ Len(e) = m
  BY SeqIf
<1>0. DOMAIN e = 1..m /\ \A g \in 1..m : e[g] = IntCell(rs[g].count)
  OBVIOUS
<1>17. \A j \in DOMAIN b : D[j] = [g \in DOMAIN rs |-> rs[g].row[j]]
  OBVIOUS
<1> HIDE DEF D
<1>3. /\ IsBlock(u) /\ DOMAIN u = DOMAIN b
      /\ \A j \in DOMAIN b : /\ u[j].data = D[j] /\ u[j].tmp = b[j].tmp
                             /\ u[j].name = b[j].name /\ u[j].alias = b[j].alias
  BY <1>2, OtherData
<1>4. \A f \in DOMAIN functions : /\ IsColumn(Call(f)) /\ Call(f).data = e
                                  /\ Call(f).tmp = FALSE
                                  /\ Call(f).name = functions[f].name
                                  /\ Call(f).alias = functions[f].alias
  BY DEF Column, IsColumn
<1> HIDE DEF e, Call, c, u
<1>5. IsSeq(v) /\ Len(v) = Len(functions) /\ DOMAIN v = DOMAIN functions
  BY SeqFacts, SeqIf
<1>6. \A f \in DOMAIN functions : v[f] = Call(f)
  OBVIOUS
<1> HIDE DEF v
<1>7. IsBlock(v)
  BY <1>2, <1>4, <1>5, <1>6 DEF IsBlock
<1>8. IsBlock(c)
  BY <1>1, <1>3, <1>7, BlocksJoined
<1>9. IsSeq(u) /\ IsSeq(v) /\ Len(u) = Len(b) /\ Len(b) \in Nat
  BY <1>3, <1>5, SeqFacts DEF IsBlock
<1>10. Len(c) = Len(b) + Len(functions)
  BY <1>1, <1>5, <1>9, SeqsJoined
<1>11. \A j \in DOMAIN u : j \in DOMAIN c /\ c[j] = u[j]
  BY <1>1, <1>9, SeqsJoined
<1>12. \A f \in DOMAIN v : Len(b) + f \in DOMAIN c /\ c[Len(b) + f] = v[f]
  BY <1>1, <1>9, SeqsJoined
<1>13. \A j \in DOMAIN c : j \in DOMAIN u \/ j - Len(b) \in DOMAIN v
  BY <1>1, <1>9, SeqsJoined
<1>14. DOMAIN c \in SUBSET Int
  BY <1>8, SeqFacts DEF IsBlock
<1>15. ASSUME NEW j \in DOMAIN c PROVE Len(c[j].data) = m
  <2>1. CASE j \in DOMAIN u
    BY <1>2, <1>3, <1>11, <2>1
  <2>2. CASE j - Len(b) \in DOMAIN v
    <3>1. Len(b) + (j - Len(b)) = j
      BY <1>9, <1>14
    <3> QED
      BY <1>2, <1>4, <1>5, <1>6, <1>12, <2>2, <3>1
  <2> QED
    BY <1>13, <2>1, <2>2
<1>16. Level(c) /\ (c # <<>> => Rows(c) = m)
  BY <1>8, <1>15, LevelIf DEF IsBlock
<1>18. HasValues(c, b, rs)
  BY <1>3, <1>11, <1>17 DEF HasValues
<1> QED
  BY <1>0, <1>4, <1>5, <1>6, <1>8, <1>10, <1>12, <1>16, <1>18 DEF c, HasCounts

-----------------------------------------------------------------------------
(* A sum is the number of the units that are added up.                      *)

UnitsUpTo(s, k) == {u \in (1..k) \X Nat : u[2] < s[u[1]]}

Units(s) == UnitsUpTo(s, Len(s))

LEMMA UnitsGrow ==
  ASSUME NEW s, NEW k \in Nat, s[k + 1] \in Nat, IsFiniteSet(UnitsUpTo(s, k))
  PROVE  /\ IsFiniteSet(UnitsUpTo(s, k + 1))
         /\ Cardinality(UnitsUpTo(s, k + 1)) = Cardinality(UnitsUpTo(s, k)) + s[k + 1]
<1> DEFINE n == s[k + 1]
           U == UnitsUpTo(s, k)
           V == {k + 1} \X (0..(n - 1))
           f == [i \in 0..(n - 1) |-> <<k + 1, i>>]
<1>1. IsFiniteSet(0..(n - 1)) /\ Cardinality(0..(n - 1)) = n
  <2>1. n \in Nat /\ 0 \in Int /\ n - 1 \in Int
    OBVIOUS
  <2> HIDE DEF n
  <2>2. /\ IsFiniteSet(0..(n - 1))
        /\ Cardinality(0..(n - 1)) = IF 0 > n - 1 THEN 0 ELSE (n - 1) - 0 + 1
    BY <2>1, FS_Interval
  <2> QED
    BY <2>1, <2>2
<1>2. f \in Bijection(0..(n - 1), V)
  BY DEF Bijection, Injection, IsInjective, Surjection
<1>3. IsFiniteSet(V) /\ Cardinality(V) = n
  BY <1>1, <1>2, FS_Bijection DEF ExistsBijection
<1>4. UnitsUpTo(s, k + 1) = U \union V
  <2>1. ASSUME NEW i \in 1..(k + 1), NEW m \in Nat
        PROVE  <<i, m>> \in UnitsUpTo(s, k + 1) <=> <<i, m>> \in U \union V
    BY DEF UnitsUpTo
  <2>2. UnitsUpTo(s, k + 1) \in SUBSET ((1..(k + 1)) \X Nat)
    BY DEF UnitsUpTo
  <2>3. U \union V \in SUBSET ((1..(k + 1)) \X Nat)
    BY DEF UnitsUpTo
  <2> HIDE DEF U, V
  <2> QED
    BY <2>1, <2>2, <2>3
<1>5. U \intersect V = {}
  BY DEF UnitsUpTo
<1>6. Cardinality(U) \in Nat
  BY FS_CardinalityType
<1> HIDE DEF U, V
<1>7. Cardinality(U \intersect V) = 0
  BY <1>5, FS_EmptySet
<1>8. IsFiniteSet(U)
  BY DEF U
<1>9. /\ IsFiniteSet(U \union V)
      /\ Cardinality(U \union V) = Cardinality(U) + Cardinality(V) - Cardinality(U \intersect V)
  BY <1>3, <1>8, FS_Union
<1> QED
  BY <1>3, <1>4, <1>6, <1>7, <1>9 DEF U

LEMMA FiniteUnits ==
  ASSUME NEW s \in Seq(Nat), NEW k \in 0..Len(s)
  PROVE  IsFiniteSet(UnitsUpTo(s, k)) /\ (k = 0 => Cardinality(UnitsUpTo(s, k)) = 0)
<1> DEFINE T == {l \in 0..Len(s) : ~IsFiniteSet(UnitsUpTo(s, l))}
<1>0. Len(s) \in Nat /\ \A i \in 1..Len(s) : s[i] \in Nat
  BY LenProperties, ElementOfSeq
<1>1. UnitsUpTo(s, 0) = {}
  BY DEF UnitsUpTo
<1>2. IsFiniteSet(UnitsUpTo(s, 0)) /\ Cardinality(UnitsUpTo(s, 0)) = 0
  BY <1>1, FS_EmptySet
<1>3. T = {}
  <2> SUFFICES ASSUME T # {} PROVE FALSE
    OBVIOUS
  <2>1. T \in SUBSET Nat
    BY <1>0
  <2>2. PICK l \in T : \A m \in T : l <= m
    <3> HIDE DEF T
    <3> QED
      BY <2>1, LeastOf
  <2>3. l \in 0..Len(s) /\ l # 0 /\ ~IsFiniteSet(UnitsUpTo(s, l))
    BY <1>2
  <2>4. l - 1 \in 0..Len(s) /\ ~(l <= l - 1)
    BY <1>0, <2>3
  <2>5. IsFiniteSet(UnitsUpTo(s, l - 1))
    BY <2>2, <2>4
  <2>6. (l - 1) + 1 = l /\ s[l] \in Nat /\ l - 1 \in Nat
    BY <1>0, <2>3
  <2> HIDE DEF T
  <2>7. IsFiniteSet(UnitsUpTo(s, l))
    BY <2>5, <2>6, UnitsGrow
  <2> QED
    BY <2>3, <2>7
<1> QED
  BY <1>2, <1>3

LEMMA SumIsUnits ==
  ASSUME NEW s \in Seq(Nat)
  PROVE  IsFiniteSet(Units(s)) /\ SumOf(s) = Cardinality(Units(s)) /\ SumOf(s) \in Nat
<1> DEFINE L == Len(s)
           c(k) == Cardinality(UnitsUpTo(s, k))
           IsSum(f) == f = [k \in 0..L |-> IF k = 0 THEN 0 ELSE f[k - 1] + s[k]]
           units == [k \in 0..L |-> c(k)]
           upTo == CHOOSE f : IsSum(f)
<1>0. L \in Nat /\ \A i \in 1..L : s[i] \in Nat
  BY LenProperties, ElementOfSeq
<1>1. \A k \in 0..L : IsFiniteSet(UnitsUpTo(s, k)) /\ c(k) \in Nat
  BY FiniteUnits, FS_CardinalityType
<1>2. c(0) = 0
  BY <1>0, FiniteUnits
<1>3. \A k \in 0..L : k # 0 => k - 1 \in 0..L /\ c(k) = c(k - 1) + s[k]
  <2> TAKE k \in 0..L
  <2> HAVE k # 0
  <2>1. k - 1 \in 0..L /\ k - 1 \in Nat /\ (k - 1) + 1 = k /\ s[k] \in Nat
    BY <1>0
  <2> QED
    BY <1>1, <2>1, UnitsGrow
<1> HIDE DEF c, L
<1>4. IsSum(units)
  <2>1. \A k \in 0..L : units[k] = IF k = 0 THEN 0 ELSE units[k - 1] + s[k]
    BY <1>2, <1>3
  <2>2. units = [k \in 0..L |-> units[k]]
    OBVIOUS
  <2> HIDE DEF units
  <2> QED
    BY <2>1, <2>2
<1>5. IsSum(upTo)
  <2> HIDE DEF IsSum, units
  <2> QED
    BY <1>4
<1>6. SumOf(s) = upTo[L]
  BY DEF SumOf, L
<1> HIDE DEF upTo
<1>7. \A k \in 0..L : upTo[k] = IF k = 0 THEN 0 ELSE upTo[k - 1] + s[k]
  <2> DEFINE f == [k \in 0..L |-> IF k = 0 THEN 0 ELSE upTo[k - 1] + s[k]]
  <2>1. upTo = f
    BY <1>5
  <2>2. \A k \in 0..L : f[k] = IF k = 0 THEN 0 ELSE upTo[k - 1] + s[k]
    OBVIOUS
  <2> HIDE DEF f
  <2> QED
    BY <2>1, <2>2
<1> DEFINE T == {k \in 0..L : upTo[k] # c(k)}
<1>8. T = {}
  <2> SUFFICES ASSUME T # {} PROVE FALSE
    OBVIOUS
  <2>1. T \in SUBSET Nat
    BY <1>0
  <2>2. PICK k \in T : \A m \in T : k <= m
    <3> HIDE DEF T
    <3> QED
      BY <2>1, LeastOf
  <2>3. k \in 0..L /\ k # 0 /\ upTo[k] # c(k)
    BY <1>0, <1>2, <1>7
  <2>4. k - 1 \in 0..L /\ ~(k <= k - 1)
    BY <1>0, <2>3
  <2>5. upTo[k - 1] = c(k - 1)
    BY <2>2, <2>4
  <2> QED
    BY <1>3, <1>7, <2>3, <2>5
<1>9. L \in 0..L
  BY <1>0
<1>10. upTo[L] = c(L)
  BY <1>8, <1>9
<1> QED
  BY <1>1, <1>6, <1>9, <1>10 DEF c, L, Units

LEMMA SumOfNothing == SumOf(<<>>) = 0
<1> DEFINE e == <<>>
<1>1. e \in Seq(Nat) /\ Len(e) = 0
  OBVIOUS
<1> HIDE DEF e
<1>2. 0 \in 0..Len(e)
  BY <1>1
<1>3. Cardinality(UnitsUpTo(e, 0)) = 0
  BY <1>1, <1>2, FiniteUnits
<1>4. SumOf(e) = Cardinality(UnitsUpTo(e, 0))
  BY <1>1, SumIsUnits DEF Units
<1> QED
  BY <1>3, <1>4 DEF e

LEMMA SumOfAppend ==
  ASSUME NEW s \in Seq(Nat), NEW n \in Nat
  PROVE  SumOf(Append(s, n)) = SumOf(s) + n
<1> DEFINE t == Append(s, n)
           L == Len(s)
<1>1. /\ L \in Nat /\ t \in Seq(Nat) /\ Len(t) = L + 1 /\ t[L + 1] = n
      /\ \A i \in 1..L : t[i] = s[i]
  BY LenProperties, AppendProperties
<1> HIDE DEF t, L
<1>2. UnitsUpTo(t, L) = UnitsUpTo(s, L)
  BY <1>1 DEF UnitsUpTo
<1>3. IsFiniteSet(UnitsUpTo(s, L)) /\ SumOf(s) = Cardinality(UnitsUpTo(s, L))
  BY SumIsUnits DEF Units, L
<1>4. Cardinality(UnitsUpTo(t, L + 1)) = Cardinality(UnitsUpTo(t, L)) + n
  BY <1>1, <1>2, <1>3, UnitsGrow
<1>5. SumOf(t) = Cardinality(UnitsUpTo(t, L + 1))
  BY <1>1, SumIsUnits DEF Units
<1> QED
  BY <1>2, <1>3, <1>4, <1>5 DEF t

LEMMA SumOfOneMore ==
  ASSUME NEW s \in Seq(Nat), NEW t \in Seq(Nat), Len(t) = Len(s), NEW g \in 1..Len(s),
         \A h \in 1..Len(s) : t[h] = IF h = g THEN s[h] + 1 ELSE s[h]
  PROVE  SumOf(t) = SumOf(s) + 1
<1>1. Len(s) \in Nat /\ \A i \in 1..Len(s) : s[i] \in Nat
  BY LenProperties, ElementOfSeq
<1> DEFINE u == <<g, s[g]>>
<1>2. u \notin Units(s)
  BY <1>1 DEF Units, UnitsUpTo
<1>3. Units(t) = Units(s) \union {u}
  <2>1. ASSUME NEW h \in 1..Len(s), NEW m \in Nat
        PROVE  <<h, m>> \in Units(t) <=> <<h, m>> \in Units(s) \union {u}
    <3>1. <<h, m>> \in Units(t) <=> m < t[h]
      BY DEF Units, UnitsUpTo
    <3>2. <<h, m>> \in Units(s) <=> m < s[h]
      BY DEF Units, UnitsUpTo
    <3>3. <<h, m>> = u <=> h = g /\ m = s[g]
      OBVIOUS
    <3>4. s[h] \in Nat /\ t[h] = IF h = g THEN s[h] + 1 ELSE s[h]
      BY <1>1
    <3> HIDE DEF u
    <3>5. m < t[h] <=> m < s[h] \/ (h = g /\ m = s[g])
      BY <3>4
    <3> QED
      BY <3>1, <3>2, <3>3, <3>5
  <2>2. /\ Units(t) \in SUBSET ((1..Len(s)) \X Nat)
        /\ Units(s) \union {u} \in SUBSET ((1..Len(s)) \X Nat)
    BY <1>1 DEF Units, UnitsUpTo
  <2>3. \A x \in (1..Len(s)) \X Nat : \E h \in 1..Len(s), m \in Nat : x = <<h, m>>
    OBVIOUS
  <2> HIDE DEF u
  <2>4. \A x \in (1..Len(s)) \X Nat : x \in Units(t) <=> x \in Units(s) \union {u}
    <3> TAKE x \in (1..Len(s)) \X Nat
    <3>1. PICK h \in 1..Len(s), m \in Nat : x = <<h, m>>
      BY <2>3
    <3>2. <<h, m>> \in Units(t) <=> <<h, m>> \in Units(s) \union {u}
      BY <2>1
    <3> QED
      BY ONLY <3>1, <3>2
  <2> DEFINE A == Units(t)
             B == Units(s) \union {u}
             P == (1..Len(s)) \X Nat
  <2> HIDE DEF A, B, P
  <2>5. A \in SUBSET P /\ B \in SUBSET P /\ \A x \in P : x \in A <=> x \in B
    BY <2>2, <2>4 DEF A, B, P
  <2>6. A = B
    BY ONLY <2>5
  <2> QED
    BY <2>6 DEF A, B
<1> HIDE DEF u
<1>4. /\ IsFiniteSet(Units(s)) /\ SumOf(s) = Cardinality(Units(s))
      /\ SumOf(t) = Cardinality(Units(t))
  BY SumIsUnits
<1> QED
  BY <1>2, <1>3, <1>4, FS_AddElement

LEMMA SumInAnyOrder ==
  ASSUME NEW s \in Seq(Nat), NEW t \in Seq(Nat), Len(t) = Len(s),
         NEW p \in Bijection(1..Len(s), 1..Len(s)), \A i \in 1..Len(s) : t[i] = s[p[i]]
  PROVE  SumOf(t) = SumOf(s)
<1> DEFINE L == Len(s)
           f == [u \in Units(t) |-> <<p[u[1]], u[2]>>]
<1>1. /\ L \in Nat /\ \A i \in 1..L : s[i] \in Nat
      /\ p \in [1..L -> 1..L]
      /\ \A i, j \in 1..L : p[i] = p[j] => i = j
      /\ \A j \in 1..L : \E i \in 1..L : p[i] = j
  BY LenProperties, ElementOfSeq DEF Bijection, Injection, IsInjective, Surjection
<1>2. \A i \in 1..L, m \in Nat : /\ <<i, m>> \in Units(t) <=> m < t[i]
                                 /\ <<i, m>> \in Units(s) <=> m < s[i]
  BY DEF Units, UnitsUpTo
<1>3. Units(t) \in SUBSET ((1..L) \X Nat) /\ Units(s) \in SUBSET ((1..L) \X Nat)
  BY DEF Units, UnitsUpTo
<1>4. \A i \in 1..L : t[i] = s[p[i]] /\ p[i] \in 1..L
  BY <1>1
<1> HIDE DEF L
<1>5. \A u \in Units(t) : u[1] \in 1..L /\ u[2] \in Nat /\ u = <<u[1], u[2]>>
  BY <1>3
<1>6. f \in [Units(t) -> Units(s)]
  BY <1>2, <1>4, <1>5
<1>7. ASSUME NEW u \in Units(t), NEW v \in Units(t), f[u] = f[v] PROVE u = v
  <2>1. p[u[1]] = p[v[1]] /\ u[2] = v[2]
    BY <1>7
  <2>2. u[1] = v[1]
    BY <1>1, <1>5, <2>1
  <2>3. u = <<u[1], u[2]>> /\ v = <<v[1], v[2]>>
    BY <1>5
  <2> DEFINE a == u[1]
             m == u[2]
  <2> HIDE DEF a, m
  <2>4. u = <<a, m>> /\ v = <<a, m>>
    BY <2>1, <2>2, <2>3 DEF a, m
  <2> QED
    BY ONLY <2>4
<1>8. ASSUME NEW v \in Units(s) PROVE \E u \in Units(t) : f[u] = v
  <2>1. v[1] \in 1..L /\ v[2] \in Nat /\ v = <<v[1], v[2]>>
    BY <1>3
  <2>2. PICK i \in 1..L : p[i] = v[1]
    BY <1>1, <2>1
  <2>3. <<i, v[2]>> \in Units(t)
    BY <1>2, <1>4, <2>1, <2>2
  <2>4. f[<<i, v[2]>>] = v
    BY <2>1, <2>2, <2>3
  <2> QED
    BY <2>3, <2>4
<1> HIDE DEF f
<1>9. f \in Bijection(Units(t), Units(s))
  BY <1>6, <1>7, <1>8 DEF Bijection, Injection, IsInjective, Surjection
<1>10. Cardinality(Units(s)) = Cardinality(Units(t))
  BY <1>9, SumIsUnits, FS_Bijection DEF ExistsBijection
<1> QED
  BY <1>10, SumIsUnits

-----------------------------------------------------------------------------
(* The groups.                                                              *)

NewGroup(v, r, n) == \E x : x.count = n /\ v = Append(r, x)

OneMore(v, r) ==
    /\ Len(v) = Len(r)
    /\ \E g \in DOMAIN r : \A h \in DOMAIN r :
          v[h].count = IF h = g THEN r[h].count + 1 ELSE r[h].count

LEMMA GroupVisited ==
  ASSUME NEW r, IsGroups(r), NEW b, NEW i, NEW functions, IsSeq(functions)
  PROVE  /\ IsGroups(Visit(r, b, i, functions))
         /\ \/ NewGroup(Visit(r, b, i, functions), r, Len(functions))
            \/ OneMore(Visit(r, b, i, functions), r)
<1> DEFINE same == {g \in DOMAIN r : r[g].key = Key(b, i)}
           x == [key |-> Key(b, i), row |-> [j \in DOMAIN b |-> b[j].data[i]],
                 count |-> Len(functions)]
           v == Visit(r, b, i, functions)
<1>1. v = IF same = {} THEN Append(r, x) ELSE [r EXCEPT ![Min(same)].count = @ + 1]
  BY DEF Visit
<1>2. IsSeq(r) /\ DOMAIN r = 1..Len(r) /\ Len(r) \in Nat /\ r = [g \in 1..Len(r) |-> r[g]]
  BY SeqFacts DEF IsGroups
<1>3. x.count = Len(functions) /\ IsGroup(x)
  BY SeqFacts DEF IsGroup
<1> HIDE DEF v
<1>4. CASE same = {}
  <2> HIDE DEF x
  <2>1. v = Append(r, x)
    BY <1>1, <1>4
  <2>2. /\ IsSeq(v) /\ DOMAIN v = 1..(Len(r) + 1)
        /\ (\A g \in DOMAIN r : v[g] = r[g]) /\ v[Len(r) + 1] = x
    BY <1>2, <2>1, AppendToSeq
  <2>3. \A g \in DOMAIN v : g \in DOMAIN r \/ g = Len(r) + 1
    BY <1>2, <2>2
  <2>4. IsGroups(v)
    BY <1>3, <2>2, <2>3 DEF IsGroups
  <2> QED
    BY <1>3, <2>1, <2>4 DEF v, NewGroup
<1>5. CASE same # {}
  <2> DEFINE g == Min(same)
             old == r[g]
             ky == old.key
             rw == old.row
             n == old.count
             n1 == n + 1
             new == v[g]
  <2>1. g \in DOMAIN r
    <3>1. same \in SUBSET Nat
      BY <1>2
    <3> QED
      BY <1>5, <3>1, MinOf
  <2>2. v = [r EXCEPT ![g].count = n1]
    BY <1>1, <1>5
  <2> HIDE DEF same, x, g
  <2>3. DOMAIN v = DOMAIN r /\ v = [h \in 1..Len(r) |-> v[h]]
    BY <1>2, <2>2
  <2>4. \A h \in DOMAIN r : h # g => v[h] = r[h]
    BY <2>1, <2>2
  <2>5. old = [key |-> ky, row |-> rw, count |-> n] /\ n \in Nat
    BY <2>1 DEF IsGroups, IsGroup
  <2>6. new = [old EXCEPT !.count = n1] /\ n1 \in Nat
    BY <2>1, <2>2, <2>5
  <2> HIDE DEF old, ky, rw, n, n1, new
  <2>7. new = [key |-> ky, row |-> rw, count |-> n1]
    BY ONLY <2>5, <2>6
  <2>8. IsGroup(new) /\ new.count = n1
    BY <2>6, <2>7 DEF IsGroup
  <2>9. IsSeq(v) /\ Len(v) = Len(r)
    BY <1>2, <2>3, SeqIf
  <2>10. IsGroups(v)
    BY <2>3, <2>4, <2>8, <2>9 DEF IsGroups, new
  <2>11. \A h \in DOMAIN r : v[h].count = IF h = g THEN r[h].count + 1 ELSE r[h].count
    BY <2>4, <2>8 DEF new, n1, n, old
  <2> QED
    BY <2>1, <2>9, <2>10, <2>11 DEF v, OneMore
<1> QED
  BY <1>4, <1>5

\* The groups after k visits are a function.
Visits(r, b, functions, N, met) ==
    met = [k \in 0..N |->
              IF k = 0 THEN r ELSE Visit(met[k - 1], b, ((k - 1) \div Len(functions)) + 1, functions)]

LEMMA VisitsGoOn ==
  ASSUME NEW r, NEW b, NEW functions, NEW N \in Nat
  PROVE  \E met : Visits(r, b, functions, N, met)
<1> DEFINE T == {n \in Nat : ~\E met : Visits(r, b, functions, n, met)}
           VisitOnce(x, k) == Visit(x, b, ((k - 1) \div Len(functions)) + 1, functions)
<1> SUFFICES T = {}
  OBVIOUS
<1> SUFFICES ASSUME T # {} PROVE FALSE
  OBVIOUS
<1>1. PICK n \in T : \A k \in T : n <= k
  <2>1. T \in SUBSET Nat
    OBVIOUS
  <2> HIDE DEF T
  <2> QED
    BY <2>1, LeastOf
<1>2. n \in Nat /\ ~\E met : Visits(r, b, functions, n, met)
  OBVIOUS
<1>3. CASE n = 0
  <2> DEFINE met == [k \in 0..n |-> r]
  <2>1. met = [k \in 0..n |-> IF k = 0 THEN r ELSE VisitOnce(met[k - 1], k)]
    BY <1>3
  <2>2. Visits(r, b, functions, n, met)
    BY <2>1 DEF Visits
  <2> QED
    BY <1>2, <2>2
<1>4. CASE n # 0
  <2>1. n - 1 \in Nat /\ n - 1 \notin T
    BY <1>1, <1>2, <1>4
  <2>2. PICK old : Visits(r, b, functions, n - 1, old)
    BY <2>1
  <2> HIDE DEF T
  <2>3. old = [k \in 0..(n - 1) |-> IF k = 0 THEN r ELSE VisitOnce(old[k - 1], k)]
    BY <2>2 DEF Visits
  <2> HIDE DEF VisitOnce
  <2> DEFINE met == [k \in 0..n |-> IF k = 0 THEN r ELSE VisitOnce(old[k - 1], k)]
  <2>4. \A k \in 0..(n - 1) : met[k] = old[k]
    BY <1>2, <2>3
  <2>5. \A k \in 0..n : k # 0 => k - 1 \in 0..(n - 1)
    BY <1>2
  <2>6. \A k \in 0..n : met[k] = IF k = 0 THEN r ELSE VisitOnce(met[k - 1], k)
    BY <2>4, <2>5
  <2>7. met = [k \in 0..n |-> met[k]]
    OBVIOUS
  <2> HIDE DEF met
  <2>8. met = [k \in 0..n |-> IF k = 0 THEN r ELSE VisitOnce(met[k - 1], k)]
    BY <2>6, <2>7
  <2>9. Visits(r, b, functions, n, met)
    BY <2>8 DEF Visits, VisitOnce
  <2> QED
    BY <1>2, <2>9
<1> QED
  BY <1>3, <1>4

LEMMA GroupsByVisits ==
  ASSUME NEW r, NEW b, NEW functions, IsSeq(functions), Rows(b) \in Nat
  PROVE  LET N == Rows(b) * Len(functions)
         IN  /\ N \in Nat
             /\ \E met : Visits(r, b, functions, N, met) /\ GroupBlock(r, b, functions) = met[N]
<1> DEFINE N == Rows(b) * Len(functions)
           all == CHOOSE met : Visits(r, b, functions, N, met)
<1>1. N \in Nat
  <2>1. Len(functions) \in Nat
    BY SeqFacts
  <2> QED
    BY <2>1
<1>2. GroupBlock(r, b, functions) = all[N]
  BY DEF GroupBlock, Visits
<1> HIDE DEF N
<1>3. Visits(r, b, functions, N, all)
  BY <1>1, VisitsGoOn
<1> QED
  BY <1>1, <1>2, <1>3 DEF N

\* All that the visits need of the groups they keep.
LEMMA GroupsStay ==
  ASSUME NEW r, IsGroups(r), NEW b, NEW functions, IsSeq(functions), Rows(b) \in Nat
  PROVE  IsGroups(GroupBlock(r, b, functions))
<1> DEFINE N == Rows(b) * Len(functions)
<1>1. N \in Nat
  BY GroupsByVisits
<1>2. PICK met : Visits(r, b, functions, N, met) /\ GroupBlock(r, b, functions) = met[N]
  BY GroupsByVisits
<1> HIDE DEF N
<1> DEFINE T == {k \in 0..N : ~IsGroups(met[k])}
           i(k) == ((k - 1) \div Len(functions)) + 1
<1>3. \A k \in 0..N : met[k] = IF k = 0 THEN r ELSE Visit(met[k - 1], b, i(k), functions)
  <2> DEFINE f == [k \in 0..N |-> IF k = 0 THEN r ELSE Visit(met[k - 1], b, i(k), functions)]
  <2>1. met = f
    BY <1>2 DEF Visits
  <2>2. \A k \in 0..N : f[k] = IF k = 0 THEN r ELSE Visit(met[k - 1], b, i(k), functions)
    OBVIOUS
  <2> HIDE DEF f
  <2> QED
    BY <2>1, <2>2
<1> HIDE DEF i
<1>4. T = {}
  <2> SUFFICES ASSUME T # {} PROVE FALSE
    OBVIOUS
  <2>1. T \in SUBSET Nat
    BY <1>1
  <2>2. PICK k \in T : \A l \in T : k <= l
    <3> HIDE DEF T
    <3> QED
      BY <2>1, LeastOf
  <2>3. k \in 0..N /\ ~IsGroups(met[k])
    OBVIOUS
  <2>4. k # 0
    BY <1>1, <1>3, <2>3
  <2>5. k - 1 \in 0..N /\ ~(k <= k - 1)
    BY <1>1, <2>3, <2>4
  <2>6. IsGroups(met[k - 1])
    BY <2>2, <2>5
  <2>7. IsGroups(Visit(met[k - 1], b, i(k), functions))
    BY <2>6, GroupVisited
  <2> QED
    BY <1>3, <2>3, <2>4, <2>7
<1>5. N \in 0..N
  BY <1>1
<1> QED
  BY <1>2, <1>4, <1>5

-----------------------------------------------------------------------------
(* The steps of the thread.                                                 *)

LEMMA StepsInTurn ==
  /\ DOMAIN InTurn = 1..7
  /\ InTurn[1] = "interpret" /\ InTurn[2] = "filter" /\ InTurn[3] = "group"
  /\ InTurn[4] = "drop" /\ InTurn[5] = "order" /\ InTurn[6] = "limit" /\ InTurn[7] = "print"
BY DEF InTurn

LEMMA EachOnce == \A i, k \in 1..7 : InTurn[i] = InTurn[k] => i = k
BY StepsInTurn

LEMMA AfterStep ==
  ASSUME NEW n \in 1..6
  PROVE  \E i \in (n + 1)..7 : /\ After(InTurn[n]) = InTurn[i] /\ Planned(InTurn[i])
                               /\ \A k \in (n + 1)..(i - 1) : ~Planned(InTurn[k])
<1> DEFINE S == {i \in DOMAIN InTurn : /\ \E k \in 1..(i - 1) : InTurn[k] = InTurn[n]
                                       /\ Planned(InTurn[i])}
           U == {i \in (n + 1)..7 : Planned(InTurn[i])}
<1>1. \A i \in 1..7 : (\E k \in 1..(i - 1) : InTurn[k] = InTurn[n]) <=> i \in (n + 1)..7
  BY EachOnce
<1>2. S = U
  BY <1>1, StepsInTurn
<1>3. After(InTurn[n]) = InTurn[Min(S)]
  BY DEF After
<1>4. 7 \in U
  BY StepsInTurn DEF Planned
<1>5. U \in SUBSET Nat
  OBVIOUS
<1> HIDE DEF S
<1>6. Min(U) \in U /\ \A i \in U : Min(U) <= i
  <2> HIDE DEF U
  <2> QED
    BY <1>4, <1>5, MinOf
<1> DEFINE m == Min(U)
<1>7. m \in (n + 1)..7 /\ Planned(InTurn[m])
  BY <1>6
<1>8. \A k \in (n + 1)..(m - 1) : k \notin U /\ k \in (n + 1)..7
  BY <1>6, <1>7
<1>9. \A k \in (n + 1)..(m - 1) : ~Planned(InTurn[k])
  BY <1>8
<1> QED
  BY <1>2, <1>3, <1>7, <1>9

\* What follows on each step, and that the first two come first.
LEMMA NextStep ==
  ASSUME NEW s \in {"interpret", "filter", "group", "drop", "order", "limit"}
  PROVE  /\ After(s) \in Working /\ Planned(After(s))
         /\ After(s) = "filter" => s = "interpret"
         /\ After(s) = "group" => s \in {"interpret", "filter"}
         /\ s = "interpret" /\ Filtering => After(s) = "filter"
         /\ s \in {"interpret", "filter"} /\ After(s) # "filter" /\ Grouping => After(s) = "group"
<1>1. PICK n \in 1..6 : s = InTurn[n]
  BY StepsInTurn
<1>2. PICK i \in (n + 1)..7 : /\ After(s) = InTurn[i] /\ Planned(InTurn[i])
                              /\ \A k \in (n + 1)..(i - 1) : ~Planned(InTurn[k])
  BY <1>1, AfterStep
<1>3. i \in 2..7 /\ i \in 1..7 /\ n \in 1..7 /\ 1 \in 1..7 /\ 2 \in 1..7 /\ 3 \in 1..7
  BY <1>2
<1>4. After(s) \in Working
  BY <1>2, <1>3, StepsInTurn DEF Working
<1>5. After(s) = InTurn[2] => i = 2
  BY <1>2, <1>3, EachOnce, Zenon
<1>6. After(s) = InTurn[3] => i = 3
  BY <1>2, <1>3, EachOnce, Zenon
<1>7. (n = 1 => s = "interpret") /\ (n = 2 => s = "filter")
  BY <1>1, StepsInTurn
<1>8. s = InTurn[1] => n = 1
  BY <1>1, <1>3, EachOnce, Zenon
<1>9. s = InTurn[2] => n = 2
  BY <1>1, <1>3, EachOnce, Zenon
<1>10. ASSUME s = "interpret", Filtering PROVE After(s) = "filter"
  <2>1. Planned(InTurn[2]) /\ n = 1
    BY <1>8, <1>10, StepsInTurn DEF Planned
  <2>2. 2 \notin (n + 1)..(i - 1)
    BY <1>2, <2>1
  <2>3. i = 2
    BY <1>2, <2>1, <2>2
  <2> QED
    BY <1>2, <2>3, StepsInTurn
<1>11. ASSUME s \in {"interpret", "filter"}, After(s) # "filter", Grouping
       PROVE  After(s) = "group"
  <2>1. Planned(InTurn[3]) /\ n \in {1, 2}
    BY <1>8, <1>9, <1>11, StepsInTurn DEF Planned
  <2>2. 3 \notin (n + 1)..(i - 1)
    BY <1>2, <2>1
  <2>3. i # 2
    BY <1>2, <1>11, StepsInTurn
  <2>4. i = 3
    BY <1>2, <2>1, <2>2, <2>3
  <2> QED
    BY <1>2, <2>4, StepsInTurn
<1>12. After(s) = "filter" => s = "interpret"
  BY <1>2, <1>5, <1>7, StepsInTurn
<1>13. After(s) = "group" => s \in {"interpret", "filter"}
  BY <1>2, <1>6, <1>7, StepsInTurn
<1> QED
  BY <1>2, <1>4, <1>10, <1>11, <1>12, <1>13

-----------------------------------------------------------------------------
(* Streams.                                                                 *)

LEMMA EmptyIsGood ==
  ASSUME NEW files
  PROVE  GoodStream(EmptyStream, files) /\ Wide(EmptyStream) /\ EmptyStream.blocks = <<>>
BY NoneIsSeq DEF GoodStream, Wide, EmptyStream

LEMMA Pushed ==
  ASSUME NEW files, NEW s, GoodStream(s, files), NEW b, GoodBlock(b, files)
  PROVE  /\ GoodStream(Push(s, b), files)
         /\ Push(s, b).blocks = Append(s.blocks, b) /\ Push(s, b).blocks # <<>>
         /\ Wide(s) /\ b # <<>> => Wide(Push(s, b))
<1> DEFINE q == Append(s.blocks, b)
           bs == s.blocks
           cl == s.closed
           t == Push(s, b)
<1>1. s = [blocks |-> bs, closed |-> cl]
  BY DEF GoodStream
<1>2. t = [s EXCEPT !.blocks = q]
  <2> HIDE DEF cl
  <2>1. [s EXCEPT !.blocks = Append(@, b)] = [s EXCEPT !.blocks = q]
    BY <1>1
  <2> QED
    BY <2>1 DEF Push
<1>3. /\ IsSeq(q) /\ q # <<>> /\ DOMAIN q = 1..(Len(bs) + 1)
      /\ (\A i \in DOMAIN bs : q[i] = bs[i]) /\ q[Len(bs) + 1] = b
      /\ DOMAIN bs = 1..Len(bs) /\ Len(bs) \in Nat
  BY AppendToSeq, SeqFacts DEF GoodStream
<1>4. \A i \in DOMAIN q : i \in DOMAIN bs \/ q[i] = b
  BY <1>3
<1>5. \A i \in DOMAIN q : q[i] = b \/ \E k \in DOMAIN bs : q[i] = bs[k]
  BY <1>3, <1>4
<1> HIDE DEF q, bs, cl, t
<1>6. t = [blocks |-> q, closed |-> cl]
  BY ONLY <1>1, <1>2
<1>7. t.blocks = q /\ t.closed = cl
  BY ONLY <1>6
<1>8. \A k \in DOMAIN bs : GoodBlock(bs[k], files)
  BY DEF GoodStream, bs
<1>9. \A i \in DOMAIN q : GoodBlock(q[i], files)
  BY <1>5, <1>8
<1>10. GoodStream(t, files)
  BY <1>3, <1>6, <1>7, <1>9 DEF GoodStream
<1>11. Wide(s) /\ b # <<>> => Wide(t)
  BY <1>5, <1>7 DEF Wide, bs
<1> QED
  BY <1>3, <1>7, <1>10, <1>11 DEF t, q

LEMMA Closed ==
  ASSUME NEW files, NEW s, GoodStream(s, files)
  PROVE  /\ GoodStream(Close(s), files) /\ Close(s).closed /\ Close(s).blocks = s.blocks
         /\ Wide(s) => Wide(Close(s))
<1> DEFINE bs == s.blocks
           cl == s.closed
           yes == TRUE
           t == Close(s)
<1>1. s = [blocks |-> bs, closed |-> cl]
  BY DEF GoodStream
<1>2. t = [s EXCEPT !.closed = yes]
  BY DEF Close
<1> HIDE DEF bs, cl, t, yes
<1>3. t = [blocks |-> bs, closed |-> yes]
  BY ONLY <1>1, <1>2
<1>4. t.blocks = bs /\ t.closed = yes
  BY ONLY <1>3
<1>5. GoodStream(t, files)
  BY <1>3, <1>4 DEF GoodStream, bs
<1>6. Wide(s) => Wide(t)
  BY <1>4 DEF Wide, bs
<1> QED
  BY <1>4, <1>5, <1>6 DEF t, bs, yes

LEMMA Taken ==
  ASSUME NEW files, NEW s, GoodStream(s, files), s.blocks # <<>>
  PROVE  LET t == [s EXCEPT !.blocks = Tail(@)]
         IN  /\ GoodStream(t, files) /\ t.closed = s.closed
             /\ Wide(s) => Wide(t) /\ Head(s.blocks) # <<>>
             /\ GoodBlock(Head(s.blocks), files)
<1> DEFINE q == Tail(s.blocks)
           bs == s.blocks
           cl == s.closed
           t == [s EXCEPT !.blocks = Tail(@)]
<1>1. s = [blocks |-> bs, closed |-> cl]
  BY DEF GoodStream
<1>2. t = [s EXCEPT !.blocks = q]
  <2> HIDE DEF cl
  <2> QED
    BY <1>1
<1>3. /\ IsSeq(q) /\ \A i \in DOMAIN q : i + 1 \in DOMAIN bs /\ q[i] = bs[i + 1]
      /\ 1 \in DOMAIN bs /\ Head(bs) = bs[1]
  BY TailOfSeq, SeqFacts DEF GoodStream
<1>4. \A i \in DOMAIN q : \E k \in DOMAIN bs : q[i] = bs[k]
  BY <1>3
<1> HIDE DEF q, bs, cl, t
<1>5. t = [blocks |-> q, closed |-> cl]
  BY ONLY <1>1, <1>2
<1>6. t.blocks = q /\ t.closed = cl
  BY ONLY <1>5
<1>7. \A k \in DOMAIN bs : GoodBlock(bs[k], files)
  BY DEF GoodStream, bs
<1>8. GoodStream(t, files)
  BY <1>3, <1>4, <1>5, <1>6, <1>7 DEF GoodStream
<1>9. Wide(s) => Wide(t)
  BY <1>4, <1>6 DEF Wide, bs
<1>10. Wide(s) => Head(bs) # <<>>
  BY <1>3 DEF Wide, bs
<1> QED
  BY <1>3, <1>6, <1>7, <1>8, <1>9, <1>10 DEF t, bs, cl

-----------------------------------------------------------------------------
(* PipeInv is inductive.                                                    *)

LEMMA FirstBlock ==
  ASSUME query \in Queries, table \in Tables, ~SelectFails
  PROVE  LET b == ReadColumns(table, AllColumns)
         IN  GoodBlock(b, table) /\ b # <<>> /\ IsBlock(AllColumns)
<1> DEFINE cols == AllColumns
<1>1. IsSeq(query.select)
  BY QueriesAssumption DEF IsSeq
<1>2. IsBlock(cols)
  BY <1>1, SelectedColumns, FilterColumnsRead, CombinedColumns DEF AllColumns, Selected
<1>3. cols # <<>> /\ \A k \in DOMAIN cols : cols[k].name \in DOMAIN table
  BY DEF SelectFails
<1>4. \A k \in DOMAIN cols : IsSeq(table[cols[k].name])
  BY <1>3, TablesAssumption, SeqOfAnything
<1>5. Uniform(table) => \A j, k \in DOMAIN cols :
                           Len(table[cols[j].name]) = Len(table[cols[k].name])
  BY <1>3 DEF Uniform
<1> HIDE DEF cols
<1> QED
  BY <1>2, <1>3, <1>4, <1>5, ColumnsRead DEF GoodBlock, cols

LEMMA InterpretKeeps ==
  ASSUME PipeInv, Interpret
  PROVE  PipeInv'
<1>1. query \in Queries /\ table \in Tables /\ step = "interpret"
  BY DEF PipeInv, Interpret
<1>2. out = EmptyStream /\ IsGroups(results) /\ IsBlock(template)
  BY <1>1 DEF PipeInv, Working
<1>3. ASSUME Stop("error") PROVE PipeInv'
  <2>1. /\ step' = "error" /\ query' = query /\ table' = table
    BY <1>3 DEF Stop
  <2> QED
    BY <1>1, <2>1 DEF PipeInv, Steps, Final, Working
<1>4. ASSUME Stop("undefined"), query.table.kind \in {"none", "other"} PROVE PipeInv'
  <2>1. /\ step' = "undefined" /\ query' = query /\ table' = table
    BY <1>4 DEF Stop
  <2>2. ~SoundQuery'
    BY <1>4, <2>1 DEF SoundQuery
  <2> QED
    BY <1>1, <2>1, <2>2 DEF PipeInv, Steps, Final, Working
<1>5. ASSUME ~WrongFilter(query.where), ~SelectFails,
             in' = Close(Push(EmptyStream, ReadColumns(table, AllColumns))),
             step' = After("interpret"),
             UNCHANGED <<query, table, out, results, template, reply>>
      PROVE  PipeInv'
  <2> DEFINE b == ReadColumns(table, AllColumns)
             s == Push(EmptyStream, b)
  <2>1. GoodBlock(b, table) /\ b # <<>>
    BY <1>1, <1>5, FirstBlock
  <2> HIDE DEF b
  <2>2. GoodStream(s, table) /\ s.blocks # <<>> /\ Wide(s)
    BY <2>1, EmptyIsGood, Pushed
  <2> HIDE DEF s
  <2>3. /\ GoodStream(Close(s), table) /\ Close(s).closed /\ Close(s).blocks # <<>>
        /\ Wide(Close(s))
    BY <2>2, Closed
  <2>4. in' = Close(s)
    BY <1>5 DEF s, b
  <2>5. GoodStream(in', table') /\ in'.closed /\ in'.blocks # <<>> /\ Wide(in')
    BY <1>5, <2>3, <2>4
  <2>6. GoodStream(out', table') /\ Wide(out')
    BY <1>2, <1>5, EmptyIsGood
  <2>7. /\ step' \in Working /\ Planned(step')
    BY <1>5, NextStep
  <2>8. Planned(step)'
    BY <1>5, <2>7 DEF Planned, Filtering, Grouping, Filter, Functions
  <2>9. step' \in Steps /\ step' # "undefined" /\ step' # "interpret"
    BY <2>7 DEF Working, Steps, Final
  <2> QED
    BY <1>1, <1>2, <1>5, <2>5, <2>6, <2>7, <2>8, <2>9 DEF PipeInv
<1> QED
  BY <1>1, <1>3, <1>4, <1>5 DEF Interpret

\* A step that goes on with its input, and what it pushes.
LEMMA StepGoesOn ==
  ASSUME PipeInv, step \in Working, in.blocks # <<>>, Take(step),
         NEW b, GoodBlock(b, table), b # <<>> \/ step \notin {"filter", "group"},
         out' = Push(out, b), step # "group",
         UNCHANGED <<query, table, step, results, template>>
  PROVE  PipeInv'
<1>1. /\ query \in Queries /\ table \in Tables /\ step \in Steps /\ step # "undefined"
      /\ step # "interpret"
      /\ GoodStream(in, table) /\ GoodStream(out, table) /\ IsGroups(results)
      /\ IsBlock(template) /\ Planned(step) /\ in.closed /\ ~WrongFilter(query.where)
      /\ step \in {"filter", "group"} => Wide(in) /\ Wide(out)
  BY DEF PipeInv, Working
<1>2. in' = [in EXCEPT !.blocks = Tail(@)]
  BY DEF Take
<1> DEFINE t == [in EXCEPT !.blocks = Tail(@)]
<1>3. GoodStream(t, table) /\ t.closed = in.closed /\ (Wide(in) => Wide(t))
  BY <1>1, Taken
<1> HIDE DEF t
<1>4. GoodStream(in', table') /\ in'.closed /\ (Wide(in) => Wide(in'))
  BY <1>1, <1>2, <1>3 DEF t
<1>5. /\ GoodStream(Push(out, b), table) /\ Push(out, b).blocks # <<>>
      /\ Wide(out) /\ b # <<>> => Wide(Push(out, b))
  BY <1>1, Pushed
<1>6. GoodStream(out', table') /\ out'.blocks # <<>> /\ (Wide(out) /\ b # <<>> => Wide(out'))
  BY <1>5
<1>7. Planned(step)'
  BY <1>1 DEF Planned, Filtering, Grouping, Filter, Functions
<1> QED
  BY <1>1, <1>4, <1>6, <1>7 DEF PipeInv

LEMMA BlockAtHand ==
  ASSUME PipeInv, step \in Working, in.blocks # <<>>
  PROVE  GoodBlock(Block, table) /\ (step \in {"filter", "group"} => Block # <<>>)
<1>1. GoodStream(in, table) /\ (step \in {"filter", "group"} => Wide(in))
  BY DEF PipeInv
<1> QED
  BY <1>1, Taken DEF Block

LEMMA SkipKeeps ==
  ASSUME PipeInv, SkipEmptyBlock
  PROVE  PipeInv'
<1>1. PICK s \in {"filter", "group", "drop", "order", "limit"} : Take(s)
  BY DEF SkipEmptyBlock
<1>2. step \in Working /\ in.blocks # <<>>
  BY <1>1 DEF Take, Working
<1>3. step \notin {"filter", "group"}
  BY <1>2, BlockAtHand DEF SkipEmptyBlock
<1>4. /\ query \in Queries /\ table \in Tables /\ step \in Steps /\ step # "undefined"
      /\ step # "interpret"
      /\ GoodStream(in, table) /\ GoodStream(out, table) /\ IsGroups(results)
      /\ IsBlock(template) /\ Planned(step) /\ in.closed /\ ~WrongFilter(query.where)
  BY <1>2 DEF PipeInv, Working
<1> DEFINE t == [in EXCEPT !.blocks = Tail(@)]
<1>5. GoodStream(t, table) /\ t.closed = in.closed
  BY <1>2, <1>4, Taken
<1> HIDE DEF t
<1>6. in' = t
  BY <1>1 DEF Take, t
<1>7. UNCHANGED <<query, table, step, out, results, template>>
  BY DEF SkipEmptyBlock
<1>8. Planned(step)'
  BY <1>4, <1>7 DEF Planned, Filtering, Grouping, Filter, Functions
<1> QED
  BY <1>3, <1>4, <1>5, <1>6, <1>7, <1>8 DEF PipeInv

LEMMA FilterKeeps ==
  ASSUME PipeInv, FilterNext
  PROVE  PipeInv'
<1>1. /\ step = "filter" /\ in.blocks # <<>> /\ Take(step)
      /\ FilterDefined(Block, Filter) /\ ~FilterFails(Block, Filter)
      /\ out' = Push(out, FilterBlock(Block, Filter))
      /\ UNCHANGED <<query, table, step, results, template>>
  BY DEF FilterNext, HasWork, Take
<1>2. GoodBlock(Block, table) /\ Block # <<>> /\ step \in Working
  BY <1>1, BlockAtHand DEF Working
<1>3. FilterColumn(Block, Filter.args[1]) \in DOMAIN Block
  BY <1>1, <1>2, FilterColumnFound DEF GoodBlock
<1>4. GoodBlock(FilterBlock(Block, Filter), table) /\ FilterBlock(Block, Filter) # <<>>
  BY <1>2, <1>3, FilteredBlock DEF GoodBlock
<1> QED
  BY <1>1, <1>2, <1>4, StepGoesOn

LEMMA GroupKeeps ==
  ASSUME PipeInv, GroupNext
  PROVE  PipeInv'
<1>1. /\ step = "group" /\ in.blocks # <<>>
      /\ in' = [in EXCEPT !.blocks = Tail(@)]
      /\ template' = CloneWithoutData(Block)
      /\ results' = GroupBlock(results, Block, Functions)
      /\ UNCHANGED <<query, table, step, out>>
  BY DEF GroupNext, HasWork, Take
<1>2. /\ query \in Queries /\ table \in Tables /\ step \in Steps
      /\ GoodStream(in, table) /\ GoodStream(out, table) /\ IsGroups(results)
      /\ Planned(step) /\ in.closed /\ ~WrongFilter(query.where) /\ Wide(in) /\ Wide(out)
  BY <1>1 DEF PipeInv, Working
<1> DEFINE t == [in EXCEPT !.blocks = Tail(@)]
<1>3. GoodStream(t, table) /\ t.closed = in.closed /\ Wide(t)
  BY <1>1, <1>2, Taken
<1> HIDE DEF t
<1>4. in' = t
  BY <1>1 DEF t
<1>5. IsBlock(Block) /\ Block # <<>>
  BY <1>1, BlockAtHand DEF Working, GoodBlock
<1>6. IsBlock(template') /\ template' # NoBlock
  BY <1>1, <1>5, ClonedBlock DEF NoBlock
<1>7. IsSeq(Functions)
  BY <1>2, SelectedColumns, QueriesAssumption DEF Functions, IsSeq
<1>8. Rows(Block) \in Nat
  <2>1. 1 \in DOMAIN Block
    BY <1>5, SeqFacts DEF IsBlock
  <2> QED
    BY <1>5, <2>1, SeqFacts DEF IsBlock, Rows
<1>9. IsGroups(results')
  BY <1>1, <1>2, <1>7, <1>8, GroupsStay
<1>10. Planned(step)'
  BY <1>1, <1>2 DEF Planned, Filtering, Grouping, Filter, Functions
<1> QED
  BY <1>1, <1>2, <1>3, <1>4, <1>6, <1>9, <1>10 DEF PipeInv

LEMMA DropKeeps ==
  ASSUME PipeInv, DropNext
  PROVE  PipeInv'
<1>1. /\ step = "drop" /\ in.blocks # <<>> /\ Take(step)
      /\ out' = Push(out, DropTmpColumns(Block))
      /\ UNCHANGED <<query, table, step, results, template>>
  BY DEF DropNext, HasWork
<1>2. step \in Working /\ step \notin {"filter", "group"}
  BY <1>1 DEF Working
<1>3. GoodBlock(DropTmpColumns(Block), table)
  BY <1>1, <1>2, BlockAtHand, DroppedColumns DEF GoodBlock
<1> QED
  BY <1>1, <1>2, <1>3, StepGoesOn

LEMMA OrderKeeps ==
  ASSUME PipeInv, OrderNext
  PROVE  PipeInv'
<1>1. /\ step = "order" /\ in.blocks # <<>> /\ Block # <<>> /\ Take(step)
      /\ UNCHANGED <<query, table, step, results, template>>
  BY DEF OrderNext, HasWork
<1>2. PICK p \in Sortings(Block, OrderByColumns(Block, query.orderBy)) :
          out' = Push(out, PickRows(Block, p))
  BY DEF OrderNext
<1>3. step \in Working /\ step \notin {"filter", "group"}
  BY <1>1 DEF Working
<1>4. IsBlock(Block)
  BY <1>1, <1>3, BlockAtHand DEF GoodBlock
<1>5. Rows(Block) \in Nat
  <2>1. 1 \in DOMAIN Block
    BY <1>1, <1>4, SeqFacts DEF IsBlock
  <2> QED
    BY <1>1, <1>4, <2>1, SeqFacts DEF IsBlock, Rows
<1>6. DOMAIN p = 1..Rows(Block)
  BY <1>2 DEF Sortings, Bijection, Injection
<1>7. GoodBlock(PickRows(Block, p), table)
  BY <1>4, <1>5, <1>6, PickedRows DEF GoodBlock
<1> QED
  BY <1>1, <1>2, <1>3, <1>7, StepGoesOn

LEMMA LimitKeeps ==
  ASSUME PipeInv, LimitNext
  PROVE  PipeInv'
<1>1. /\ step = "limit" /\ in.blocks # <<>> /\ Take(step)
      /\ out' = Push(out, CutBlock(Block, GetInt(query.limit.value)))
      /\ UNCHANGED <<query, table, step, results, template>>
  BY DEF LimitNext, HasWork
<1>2. step \in Working /\ step \notin {"filter", "group"}
  BY <1>1 DEF Working
<1>3. query.limit.value \in Int
  BY <1>1, <1>2, QueriesAssumption DEF PipeInv, Planned
<1>4. GetInt(query.limit.value) \in Int
  BY <1>3, IntRead
<1>5. GoodBlock(CutBlock(Block, GetInt(query.limit.value)), table)
  BY <1>1, <1>2, <1>4, BlockAtHand, CutColumns DEF GoodBlock
<1> QED
  BY <1>1, <1>2, <1>5, StepGoesOn

LEMMA FailKeeps ==
  ASSUME PipeInv, Fail
  PROVE  PipeInv'
<1>1. step' = "error" /\ UNCHANGED <<query, table>>
  BY DEF Fail, Stop
<1> QED
  BY <1>1 DEF PipeInv, Steps, Final, Working

LEMMA UndefinedKeeps ==
  ASSUME PipeInv, GoUndefined
  PROVE  PipeInv'
<1>1. step' = "undefined" /\ UNCHANGED <<query, table>>
  BY DEF GoUndefined, Stop
<1>2. ASSUME Rectangular, SoundQuery PROVE FALSE
  <2>1. step \in Working /\ in.blocks # <<>>
    BY DEF GoUndefined, HasWork, Working
  <2>2. IsBlock(Block) /\ Level(Block)
    BY <1>2, <2>1, BlockAtHand DEF GoodBlock, Uniform, Rectangular
  <2>3. RowsReadable(Block)
    BY <2>2, ReadableLevel
  <2>4. step = "filter" /\ ~FilterDefined(Block, Filter)
    BY <2>3 DEF GoUndefined, HasWork
  <2>5. Filtering /\ ~WrongFilter(query.where)
    BY <2>1, <2>4 DEF PipeInv, Planned
  <2>6. Filter = query.where /\ IsFunction(query.where)
    BY <2>5 DEF Filtering, Filter, GetFilter
  <2>7. Len(query.where.args) = 2
    BY <2>5, <2>6 DEF WrongFilter
  <2>8. /\ IsIdentifier(Filter.args[1])
        /\ Filter.args[2].kind \notin {"integer", "number"}
    BY <1>2, <2>6, <2>7 DEF SoundQuery
  <2> QED
    BY <2>2, <2>4, <2>8, FilterReads
<1>3. ~(Rectangular /\ SoundQuery)'
  BY <1>1, <1>2 DEF Rectangular, SoundQuery
<1> QED
  BY <1>1, <1>3 DEF PipeInv, Steps, Final, Working

\* A step hands over what it has pushed.
LEMMA NextStepBegins ==
  ASSUME PipeInv, step \in Working, step # "print",
         NEW s, GoodStream(s, table), in' = Close(s), out' = EmptyStream,
         step' = After(step), After(step) = "group" => Wide(s) /\ s.blocks # <<>>,
         UNCHANGED <<query, table, results, template>>
  PROVE  PipeInv'
<1>1. /\ query \in Queries /\ table \in Tables /\ IsGroups(results) /\ IsBlock(template)
      /\ ~WrongFilter(query.where)
  BY DEF PipeInv
<1>2. step \in {"filter", "group", "drop", "order", "limit"}
  BY DEF Working
<1>3. After(step) \in Working /\ Planned(After(step)) /\ After(step) # "filter"
  BY <1>2, NextStep
<1>4. GoodStream(in', table') /\ in'.closed /\ in'.blocks = s.blocks /\ (Wide(s) => Wide(in'))
  BY Closed
<1>5. GoodStream(out', table') /\ Wide(out')
  BY EmptyIsGood
<1>6. Planned(step)'
  BY <1>3 DEF Planned, Filtering, Grouping, Filter, Functions
<1>7. step' \in Steps /\ step' # "undefined" /\ step' # "interpret" /\ step' # "filter"
  BY <1>3 DEF Working, Steps, Final
<1> QED
  BY <1>1, <1>3, <1>4, <1>5, <1>6, <1>7 DEF PipeInv

LEMMA EndStepKeeps ==
  ASSUME PipeInv, EndStep
  PROVE  PipeInv'
<1>1. PICK s \in {"filter", "drop", "order", "limit"} : Handover(s, out)
  BY DEF EndStep
<1>2. /\ step = s /\ in' = Close(out) /\ out' = EmptyStream /\ step' = After(step)
      /\ UNCHANGED <<query, table, results, template>>
  BY <1>1 DEF Handover, EndStep
<1>3. step \in Working /\ step # "print"
  BY <1>2 DEF Working
<1>4. GoodStream(out, table)
  BY <1>3 DEF PipeInv
<1>5. ASSUME After(step) = "group" PROVE Wide(out) /\ out.blocks # <<>>
  <2>1. step = "filter"
    BY <1>2, <1>5, NextStep
  <2>2. in.blocks = <<>>
    BY DEF EndStep, More
  <2> QED
    BY <2>1, <2>2 DEF PipeInv
<1> QED
  BY <1>2, <1>3, <1>4, <1>5, NextStepBegins

LEMMA EndGroupKeeps ==
  ASSUME PipeInv, EndGroup
  PROVE  PipeInv'
<1>1. PICK p \in Bijection(DOMAIN results, DOMAIN results) :
          Handover("group", Push(out, GroupColumns(template,
                       [g \in DOMAIN results |-> results[p[g]]], Functions)))
  BY DEF EndGroup
<1> DEFINE rs == [g \in DOMAIN results |-> results[p[g]]]
           c == GroupColumns(template, rs, Functions)
<1>2. /\ step = "group" /\ in' = Close(Push(out, c)) /\ out' = EmptyStream
      /\ step' = After(step) /\ UNCHANGED <<query, table, results, template>>
  BY <1>1 DEF Handover, EndGroup
<1>3. /\ query \in Queries /\ GoodStream(out, table) /\ IsGroups(results) /\ IsBlock(template)
  BY <1>2 DEF PipeInv, Working
<1>4. DOMAIN rs = 1..Len(results) /\ Len(results) \in Nat
  BY <1>3, SeqFacts DEF IsGroups
<1>5. IsSeq(Functions)
  BY <1>3, SelectedColumns, QueriesAssumption DEF Functions, IsSeq
<1> HIDE DEF rs
<1>6. GoodBlock(c, table)
  BY <1>3, <1>4, <1>5, GroupedColumns DEF GoodBlock
<1> HIDE DEF c
<1>7. GoodStream(Push(out, c), table)
  BY <1>3, <1>6, Pushed
<1>8. After(step) # "group" /\ step \in Working /\ step # "print"
  BY <1>2, NextStep DEF Working
<1> QED
  BY <1>2, <1>7, <1>8, NextStepBegins

LEMMA PrintKeeps ==
  ASSUME PipeInv, PrintBlock
  PROVE  PipeInv'
<1>1. /\ step = "print" /\ in.blocks # <<>>
      /\ in' = [in EXCEPT !.blocks = Tail(@)]
      /\ UNCHANGED <<query, table, step, out, results, template>>
  BY DEF PrintBlock, HasWork, Take
<1>2. /\ query \in Queries /\ table \in Tables /\ step \in Steps
      /\ GoodStream(in, table) /\ GoodStream(out, table) /\ IsGroups(results)
      /\ IsBlock(template) /\ Planned(step) /\ in.closed /\ ~WrongFilter(query.where)
  BY <1>1 DEF PipeInv, Working
<1> DEFINE t == [in EXCEPT !.blocks = Tail(@)]
<1>3. GoodStream(t, table) /\ t.closed = in.closed
  BY <1>1, <1>2, Taken
<1> HIDE DEF t
<1>4. in' = t
  BY <1>1 DEF t
<1>5. Planned(step)'
  BY <1>1, <1>2 DEF Planned, Filtering, Grouping, Filter, Functions
<1> QED
  BY <1>1, <1>2, <1>3, <1>4, <1>5 DEF PipeInv

LEMMA EndPrintKeeps ==
  ASSUME PipeInv, EndPrint
  PROVE  PipeInv'
<1>1. step' = "ok" /\ UNCHANGED <<query, table>>
  BY DEF EndPrint, Stop
<1> QED
  BY <1>1 DEF PipeInv, Steps, Final, Working

\* The invariant that StaysDefined needs, of every reachable state.
THEOREM PipelineInvariant == Spec => []PipeInv
<1>1. Init => PipeInv
  <2> SUFFICES ASSUME Init PROVE PipeInv
    OBVIOUS
  <2>1. GoodStream(in, table) /\ GoodStream(out, table)
    BY EmptyIsGood DEF Init
  <2>2. IsGroups(results) /\ IsBlock(template)
    BY NoneIsSeq DEF Init, IsGroups, IsBlock, NoBlock
  <2> QED
    BY <2>1, <2>2 DEF Init, PipeInv, Steps, Working
<1>2. PipeInv /\ [Next]_vars => PipeInv'
  <2> SUFFICES ASSUME PipeInv, [Next]_vars PROVE PipeInv'
    OBVIOUS
  <2>1. CASE UNCHANGED vars
    <3>1. UNCHANGED <<query, table, step, in, out, results, template>>
      BY <2>1 DEF vars
    <3>2. /\ Planned(step)' <=> Planned(step)
          /\ Rectangular' <=> Rectangular
          /\ SoundQuery' <=> SoundQuery
      BY <3>1 DEF Planned, Filtering, Grouping, Filter, Functions, Rectangular, SoundQuery
    <3> QED
      BY <3>1, <3>2 DEF PipeInv
  <2>2. CASE Next
    BY <2>2, InterpretKeeps, SkipKeeps, FilterKeeps, GroupKeeps, DropKeeps, OrderKeeps,
       LimitKeeps, FailKeeps, UndefinedKeeps, EndStepKeeps, EndGroupKeeps, PrintKeeps,
       EndPrintKeeps DEF Next
  <2> QED
    BY <2>1, <2>2
<1> QED
  BY <1>1, <1>2, PTL DEF Spec

\* For every query that names a table and compares a column with a string, and every table
\* with columns of one length, no step reads past a column or uses a null pointer
\* (FilterStep.h, GroupByStep.h, OrderByStep.h, Server.cpp); and whatever the table, the
\* statement behind the loop of GroupByStep finds the last block.
THEOREM PipelineStaysDefined == Spec => []StaysDefined
<1>1. PipeInv => StaysDefined
  <2> SUFFICES ASSUME PipeInv PROVE StaysDefined
    OBVIOUS
  <2>1. Rectangular /\ SoundQuery => step # "undefined"
    BY DEF PipeInv
  <2>2. step = "group" /\ ~More(in) => template # NoBlock
    BY DEF PipeInv, More
  <2> QED
    BY <2>1, <2>2 DEF StaysDefined
<1> QED
  BY <1>1, PipelineInvariant, PTL

-----------------------------------------------------------------------------
(* CountInv is inductive.                                                   *)

\* A group is a number of rows.
LEMMA GroupCounts ==
  ASSUME NEW r, IsGroups(r)
  PROVE  /\ [g \in DOMAIN r |-> r[g].count] \in Seq(Nat)
         /\ Len([g \in DOMAIN r |-> r[g].count]) = Len(r)
         /\ Counted(r) \in Nat
<1> DEFINE s == [g \in DOMAIN r |-> r[g].count]
<1>1. Len(r) \in Nat /\ DOMAIN r = 1..Len(r)
  BY SeqFacts DEF IsGroups
<1>2. s \in [1..Len(r) -> Nat]
  BY <1>1 DEF IsGroups, IsGroup
<1> HIDE DEF s
<1>3. s \in Seq(Nat) /\ Len(s) = Len(r)
  BY <1>1, <1>2
<1> QED
  BY <1>3, SumIsUnits DEF s, Counted

LEMMA VisitCounts ==
  ASSUME NEW r, IsGroups(r), NEW b, NEW i, NEW functions, IsSeq(functions), Len(functions) = 1
  PROVE  Counted(Visit(r, b, i, functions)) = Counted(r) + 1
<1> DEFINE v == Visit(r, b, i, functions)
           s == [g \in DOMAIN r |-> r[g].count]
           t == [g \in DOMAIN v |-> v[g].count]
<1>1. IsGroups(v)
  BY GroupVisited
<1>2. NewGroup(v, r, 1) \/ OneMore(v, r)
  BY GroupVisited
<1> HIDE DEF v
<1>3. /\ IsSeq(r) /\ Len(r) \in Nat /\ DOMAIN r = 1..Len(r)
      /\ Len(v) \in Nat /\ DOMAIN v = 1..Len(v)
  BY <1>1, SeqFacts DEF IsGroups
<1>4. /\ s \in Seq(Nat) /\ Len(s) = Len(r) /\ \A g \in DOMAIN r : s[g] = r[g].count
      /\ t \in Seq(Nat) /\ Len(t) = Len(v) /\ \A g \in DOMAIN v : t[g] = v[g].count
  BY <1>1, GroupCounts
<1> HIDE DEF s, t
<1>5. CASE NewGroup(v, r, 1)
  <2>1. PICK x : x.count = 1 /\ v = Append(r, x)
    BY <1>5 DEF NewGroup
  <2>2. /\ Len(v) = Len(r) + 1 /\ DOMAIN v = 1..(Len(r) + 1)
        /\ (\A g \in DOMAIN r : v[g] = r[g]) /\ v[Len(r) + 1] = x
    BY <1>3, <2>1, AppendToSeq
  <2>3. 1 \in Nat /\ Append(s, 1) \in Seq(Nat) /\ Len(Append(s, 1)) = Len(s) + 1
        /\ (\A g \in 1..Len(s) : Append(s, 1)[g] = s[g]) /\ Append(s, 1)[Len(s) + 1] = 1
    BY <1>4, AppendProperties
  <2>4. \A g \in 1..(Len(s) + 1) : t[g] = Append(s, 1)[g]
    <3>1. \A g \in 1..(Len(s) + 1) : g \in DOMAIN r \/ g = Len(s) + 1
      BY <1>3, <1>4
    <3>2. ASSUME NEW g \in DOMAIN r PROVE t[g] = Append(s, 1)[g]
      <4>1. g \in DOMAIN v /\ g \in 1..Len(s)
        BY <1>3, <1>4, <2>2
      <4>2. t[g] = r[g].count /\ Append(s, 1)[g] = r[g].count
        BY <1>4, <2>2, <2>3, <4>1
      <4> QED
        BY <4>2
    <3>3. t[Len(s) + 1] = 1
      BY <1>3, <1>4, <2>1, <2>2
    <3> QED
      BY <2>3, <3>1, <3>2, <3>3
  <2>5. t = Append(s, 1)
    BY <1>3, <1>4, <2>2, <2>3, <2>4, SeqEqual
  <2> QED
    BY <1>4, <2>3, <2>5, SumOfAppend DEF Counted, s, t, v
<1>6. CASE OneMore(v, r)
  <2>1. PICK g \in DOMAIN r : \A h \in DOMAIN r :
                 v[h].count = IF h = g THEN r[h].count + 1 ELSE r[h].count
    BY <1>6 DEF OneMore
  <2>2. g \in 1..Len(s) /\ Len(t) = Len(s) /\ DOMAIN v = DOMAIN r
    BY <1>3, <1>4, <1>6 DEF OneMore
  <2>3. \A h \in 1..Len(s) : t[h] = IF h = g THEN s[h] + 1 ELSE s[h]
    BY <1>3, <1>4, <2>1, <2>2
  <2> QED
    BY <1>4, <2>2, <2>3, SumOfOneMore DEF Counted, s, t, v
<1> QED
  BY <1>2, <1>5, <1>6

\* With one function each row is counted once.
LEMMA RowsCounted ==
  ASSUME NEW r, IsGroups(r), NEW b, NEW functions, IsSeq(functions), Len(functions) = 1,
         Rows(b) \in Nat
  PROVE  Counted(GroupBlock(r, b, functions)) = Counted(r) + Rows(b)
<1> DEFINE N == Rows(b) * Len(functions)
           i(k) == ((k - 1) \div Len(functions)) + 1
<1>1. N = Rows(b) /\ N \in Nat
  OBVIOUS
<1>2. PICK met : Visits(r, b, functions, N, met) /\ GroupBlock(r, b, functions) = met[N]
  BY GroupsByVisits
<1> HIDE DEF N
<1>3. \A k \in 0..N : met[k] = IF k = 0 THEN r ELSE Visit(met[k - 1], b, i(k), functions)
  <2> DEFINE f == [k \in 0..N |-> IF k = 0 THEN r ELSE Visit(met[k - 1], b, i(k), functions)]
  <2>1. met = f
    BY <1>2 DEF Visits
  <2>2. \A k \in 0..N : f[k] = IF k = 0 THEN r ELSE Visit(met[k - 1], b, i(k), functions)
    OBVIOUS
  <2> HIDE DEF f
  <2> QED
    BY <2>1, <2>2
<1> HIDE DEF i
<1> DEFINE T == {k \in 0..N : ~(IsGroups(met[k]) /\ Counted(met[k]) = Counted(r) + k)}
<1>4. T = {}
  <2> SUFFICES ASSUME T # {} PROVE FALSE
    OBVIOUS
  <2>1. T \in SUBSET Nat
    BY <1>1
  <2>2. PICK k \in T : \A l \in T : k <= l
    <3> HIDE DEF T
    <3> QED
      BY <2>1, LeastOf
  <2>3. k \in 0..N /\ ~(IsGroups(met[k]) /\ Counted(met[k]) = Counted(r) + k)
    OBVIOUS
  <2>9. Counted(r) \in Nat /\ k \in Nat
    <3>1. Counted(r) \in Nat
      BY GroupCounts
    <3> QED
      BY <1>1, <2>3, <3>1
  <2>4. k # 0
    <3>1. met[0] = r /\ Counted(r) = Counted(r) + 0
      BY <1>1, <1>3, <2>9
    <3> QED
      BY <2>3, <3>1
  <2>5. k - 1 \in 0..N /\ ~(k <= k - 1)
    BY <1>1, <2>3, <2>4
  <2>6. IsGroups(met[k - 1]) /\ Counted(met[k - 1]) = Counted(r) + (k - 1)
    BY <2>2, <2>5
  <2> DEFINE v == Visit(met[k - 1], b, i(k), functions)
  <2>7. IsGroups(v) /\ Counted(v) = Counted(met[k - 1]) + 1
    BY <2>6, GroupVisited, VisitCounts
  <2>8. met[k] = v
    BY <1>3, <2>3, <2>4
  <2> HIDE DEF T, v
  <2> QED
    BY <2>3, <2>6, <2>7, <2>8, <2>9
<1>5. N \in 0..N
  BY <1>1
<1> QED
  BY <1>1, <1>2, <1>4, <1>5

LEMMA StillCounting ==
  ASSUME UNCHANGED <<query, table>>
  PROVE  /\ OneCount' <=> OneCount
         /\ MatchingRows' = MatchingRows
         /\ ReadColumns(table, AllColumns)' = ReadColumns(table, AllColumns)
         /\ Functions' = Functions
<1>1. Functions' = Functions /\ Filter' = Filter /\ AllColumns' = AllColumns
  BY DEF Functions, Filter, AllColumns, Selected
<1>2. ReadColumns(table, AllColumns)' = ReadColumns(table, AllColumns)
  BY <1>1
<1>3. MatchingRows' = MatchingRows
  BY <1>1, <1>2 DEF MatchingRows, Filtering
<1> QED
  BY <1>1, <1>2, <1>3 DEF OneCount

LEMMA LonePushed ==
  ASSUME NEW files, NEW s, GoodStream(s, files), s.blocks = <<>>, NEW b, GoodBlock(b, files)
  PROVE  One(Push(s, b)) /\ Push(s, b).blocks[1] = b
<1>1. Push(s, b).blocks = Append(s.blocks, b)
  BY Pushed
<1> DEFINE e == s.blocks
<1>2. IsSeq(e) /\ Len(e) = 0
  BY NoneIsSeq
<1> HIDE DEF e
<1>3. Len(Append(e, b)) = Len(e) + 1 /\ Append(e, b)[Len(e) + 1] = b
  BY <1>2, AppendToSeq
<1> QED
  BY <1>1, <1>2, <1>3 DEF One, e

LEMMA LoneTaken ==
  ASSUME NEW files, NEW s, GoodStream(s, files), One(s)
  PROVE  /\ s.blocks # <<>> /\ Head(s.blocks) = s.blocks[1]
         /\ [s EXCEPT !.blocks = Tail(@)].blocks = <<>>
<1> DEFINE bs == s.blocks
           cl == s.closed
           q == Tail(s.blocks)
           t == [s EXCEPT !.blocks = Tail(@)]
<1>1. IsSeq(bs) /\ Len(bs) = 1 /\ s = [blocks |-> bs, closed |-> cl]
  BY DEF GoodStream, One
<1>2. bs # <<>> /\ Head(bs) = bs[1]
  BY <1>1, SeqFacts
<1>3. IsSeq(q) /\ \A i \in DOMAIN q : i + 1 \in DOMAIN bs
  BY <1>1, <1>2, TailOfSeq
<1>4. t = [s EXCEPT !.blocks = q]
  <2> HIDE DEF cl
  <2> QED
    BY <1>1
<1> HIDE DEF bs, cl, q, t
<1>5. t.blocks = q
  BY ONLY <1>1, <1>4
<1>6. DOMAIN bs = 1..1
  BY <1>1, SeqFacts
<1>7. Len(q) \in Nat /\ DOMAIN q = 1..Len(q) /\ (q # <<>> => 1 \in DOMAIN q)
  BY <1>3, SeqFacts
<1>8. q = <<>>
  BY <1>3, <1>6, <1>7
<1> QED
  BY <1>2, <1>5, <1>8 DEF t, bs

LEMMA CountsInterpreted ==
  ASSUME PipeInv, CountInv, Interpret
  PROVE  CountInv'
<1>1. step = "interpret" /\ UNCHANGED <<query, table>>
  BY DEF Interpret, Stop
<1>2. CASE step' \in {"error", "undefined"}
  BY <1>2 DEF CountInv
<1>3. CASE /\ ~SelectFails
           /\ in' = Close(Push(EmptyStream, ReadColumns(table, AllColumns)))
           /\ step' = After("interpret")
           /\ UNCHANGED <<out, results, template, reply>>
  <2> SUFFICES ASSUME OneCount PROVE CountInv'
    BY <1>1, StillCounting DEF CountInv
  <2> DEFINE b == ReadColumns(table, AllColumns)
             s == Push(EmptyStream, b)
  <2>1. GoodBlock(b, table)
    BY <1>1, <1>3, FirstBlock DEF PipeInv
  <2> HIDE DEF b
  <2>2. One(s) /\ s.blocks[1] = b /\ GoodStream(s, table)
    BY <2>1, EmptyIsGood, LonePushed, Pushed
  <2> HIDE DEF s
  <2>3. in' = Close(s) /\ Close(s).blocks = s.blocks
    BY <1>3, <2>2, Closed DEF s, b
  <2>4. One(in') /\ in'.blocks[1] = b /\ out'.blocks = <<>>
    <3>1. out = EmptyStream
      BY <1>1 DEF PipeInv
    <3> QED
      BY <1>3, <2>2, <2>3, <3>1 DEF One, EmptyStream
  <2>5. results' = <<>> /\ reply' = <<>>
    BY <1>1, <1>3 DEF CountInv
  <2>6. CASE Filtering
    <3>1. step' = "filter"
      BY <1>3, <2>6, NextStep
    <3>2. ToFilter'
      BY <1>1, <2>4, StillCounting DEF ToFilter, b
    <3> QED
      BY <2>5, <3>1, <3>2 DEF CountInv
  <2>7. CASE ~Filtering
    <3>1. Grouping
      BY NoneIsSeq DEF OneCount, Grouping
    <3>2. Planned(After("interpret"))
      BY NextStep
    <3>3. After("interpret") # "filter"
      BY <2>7, <3>2 DEF Planned
    <3>4. step' = "group"
      BY <1>3, <3>1, <3>3, NextStep
    <3>5. Rows(b) = MatchingRows
      BY <2>7 DEF MatchingRows, b
    <3>6. ToGroup'
      BY <1>1, <2>4, <2>5, <3>5, StillCounting DEF ToGroup
    <3> QED
      BY <2>5, <3>4, <3>6 DEF CountInv
  <2> QED
    BY <2>6, <2>7
<1>4. \/ step' \in {"error", "undefined"}
      \/ /\ ~SelectFails
         /\ in' = Close(Push(EmptyStream, ReadColumns(table, AllColumns)))
         /\ step' = After("interpret")
         /\ UNCHANGED <<out, results, template, reply>>
  BY DEF Interpret, Stop
<1> QED
  BY <1>2, <1>3, <1>4

\* The last column stays the last.
LEMMA CountsKept ==
  ASSUME NEW b, IsBlock(b), NEW n, Counting(b, n)
  PROVE  Counting(DropTmpColumns(b), n)
<1> DEFINE S == {i \in DOMAIN b : ~b[i].tmp}
           L == Len(b)
           R == Range(b)
           c == DropTmpColumns(b)
<1>1. L \in Nat /\ DOMAIN b = 1..L /\ L \in S /\ b \in Seq(R)
  BY SeqFacts DEF Counting, IsBlock, IsSeq
<1>2. c = AtPlaces(b, S)
  BY DEF DropTmpColumns, Keep
<1>3. S \in SUBSET (1..L) /\ S \in SUBSET Int
  BY <1>1
<1>4. IsFiniteSet(S)
  <2>1. IsFiniteSet(1..L)
    BY <1>1, FS_Interval
  <2> QED
    BY <1>3, <2>1, FS_Subset
<1> HIDE DEF S, R
<1> HIDE DEF L
<1>5. /\ AtPlaces(b, S) \in Seq(R)
      /\ Rank(S, L) \in 1..Len(AtPlaces(b, S)) /\ AtPlaces(b, S)[Rank(S, L)] = b[L]
      /\ \A k \in 1..Len(AtPlaces(b, S)) : \E i \in S : Rank(S, i) = k
  BY <1>1, <1>3, AtPlacesFacts DEF L
<1>6. /\ IsBlock(c) /\ Level(c)
  BY DroppedColumns DEF Counting
<1> HIDE DEF c
<1>7. Len(c) \in Nat /\ Len(c) \in 1..Len(c)
  BY <1>2, <1>5, LenProperties
<1>8. PICK i \in S : Rank(S, i) = Len(c)
  BY <1>2, <1>5, <1>7
<1>9. i = L \/ (i < L /\ Rank(S, i) < Rank(S, L))
  <2>1. i \in 1..L
    BY <1>3
  <2>2. i = L \/ i < L
    BY <1>1, <2>1
  <2>3. i < L => Rank(S, i) < Rank(S, L)
    BY <1>1, <1>3, <1>4, RankOrders
  <2> QED
    BY <2>2, <2>3
<1>10. Rank(S, L) = Len(c)
  BY <1>2, <1>5, <1>7, <1>8, <1>9
<1>11. c[Len(c)] = b[L] /\ c # <<>>
  BY <1>2, <1>5, <1>6, <1>7, <1>10, SeqFacts DEF IsBlock
<1>12. Counts(c) = Counts(b)
  BY <1>11 DEF Counts, L
<1> QED
  BY <1>6, <1>11, <1>12 DEF Counting, L, c

\* Sorting puts the counts in another order.
LEMMA CountsSorted ==
  ASSUME NEW b, IsBlock(b), NEW n, Counting(b, n),
         NEW p \in Bijection(1..Rows(b), 1..Rows(b))
  PROVE  Counting(PickRows(b, p), n)
<1> DEFINE L == Len(b)
           m == Rows(b)
           c == PickRows(b, p)
           s == Counts(b)
           t == Counts(c)
<1>1. L \in DOMAIN b /\ L \in Nat
  BY SeqFacts DEF Counting, IsBlock
<1>2. m \in Nat /\ Len(b[L].data) = m /\ DOMAIN b[L].data = 1..m
  BY <1>1, SeqFacts DEF Counting, IsBlock, Level
<1>3. p \in [1..m -> 1..m] /\ DOMAIN p = 1..m
  BY DEF Bijection, Injection
<1>4. /\ IsBlock(c) /\ Level(c) /\ DOMAIN c = DOMAIN b /\ c # <<>>
      /\ c[L].data = [k \in 1..m |-> b[L].data[p[k]]]
      /\ c[L].tmp = b[L].tmp
  <2>1. /\ IsBlock(c) /\ Level(c) /\ DOMAIN c = DOMAIN b /\ (c = <<>> <=> b = <<>>)
        /\ \A j \in DOMAIN b : /\ c[j].data = [k \in 1..m |-> b[j].data[p[k]]]
                               /\ c[j].tmp = b[j].tmp
    BY <1>2, <1>3, PickedRows
  <2> HIDE DEF c, L, m
  <2> QED
    BY <1>1, <2>1 DEF Counting
<1>5. Len(c) = L
  BY <1>1, <1>4, SeqFacts DEF IsBlock
<1>6. s = [i \in 1..m |-> b[L].data[i][2]]
  BY <1>2 DEF Counts, CountsIn
<1>7. t = [i \in 1..m |-> b[L].data[p[i]][2]]
  <2>1. t = [i \in DOMAIN c[L].data |-> c[L].data[i][2]]
    BY <1>5 DEF Counts, CountsIn
  <2> HIDE DEF c, t
  <2>2. DOMAIN c[L].data = 1..m /\ \A i \in 1..m : c[L].data[i] = b[L].data[p[i]]
    BY <1>4
  <2> QED
    BY <2>1, <2>2
<1>8. s \in Seq(Nat)
  BY DEF Counting
<1> HIDE DEF s, t, c, L, m
<1>9. Len(s) = m /\ \A i \in 1..m : s[i] \in Nat
  <2>1. DOMAIN s = 1..m
    BY <1>6
  <2>2. Len(s) \in Nat /\ DOMAIN s = 1..Len(s)
    BY <1>8
  <2>3. Len(s) = m
    BY <1>2, <2>1, <2>2
  <2> QED
    BY <1>8, <2>3, ElementOfSeq
<1>10. \A i \in 1..m : t[i] = s[p[i]] /\ p[i] \in 1..m
  BY <1>3, <1>6, <1>7
<1>11. t \in Seq(Nat) /\ Len(t) = m
  <2>1. t \in [1..m -> Nat]
    BY <1>7, <1>9, <1>10
  <2> QED
    BY <1>2, <2>1
<1>12. SumOf(t) = SumOf(s)
  <2>1. p \in Bijection(1..Len(s), 1..Len(s))
    BY <1>9 DEF m
  <2>2. Len(t) = Len(s) /\ \A i \in 1..Len(s) : t[i] = s[p[i]]
    BY <1>9, <1>10, <1>11
  <2> QED
    BY <1>8, <1>11, <2>1, <2>2, SumInAnyOrder
<1> QED
  BY <1>4, <1>5, <1>11, <1>12 DEF Counting, s, t, c, L

\* The groups come out in another order, with their counts in the last column.
LEMMA CountsGrouped ==
  ASSUME NEW b, IsBlock(b), NEW r, IsGroups(r), NEW p \in Bijection(DOMAIN r, DOMAIN r),
         NEW functions, IsSeq(functions), Len(functions) = 1
  PROVE  Counting(GroupColumns(b, [g \in DOMAIN r |-> r[p[g]]], functions), Counted(r))
<1> DEFINE m == Len(r)
           rs == [g \in DOMAIN r |-> r[p[g]]]
           c == GroupColumns(b, rs, functions)
           s == [g \in DOMAIN r |-> r[g].count]
           t == Counts(c)
<1>1. m \in Nat /\ DOMAIN r = 1..m /\ DOMAIN rs = 1..m
  BY SeqFacts DEF IsGroups
<1>2. \A g \in 1..m : rs[g] = r[p[g]] /\ p[g] \in 1..m
  BY <1>1 DEF Bijection, Injection
<1>3. s \in Seq(Nat) /\ Len(s) = m /\ \A g \in 1..m : s[g] = r[g].count
  BY <1>1, GroupCounts
<1> HIDE DEF rs, s
<1>4. DOMAIN functions = 1..1 /\ 1 \in DOMAIN functions
  BY SeqFacts
<1>5. /\ IsBlock(c) /\ Level(c) /\ Len(c) = Len(b) + 1 /\ Len(b) + 1 \in DOMAIN c
      /\ DOMAIN c[Len(b) + 1].data = 1..m
      /\ \A g \in 1..m : c[Len(b) + 1].data[g] = IntCell(rs[g].count)
      /\ c[Len(b) + 1].tmp = FALSE
  <2> HIDE DEF m
  <2>1. m \in Nat /\ DOMAIN rs = 1..m /\ IsBlock(b) /\ IsSeq(functions)
    BY <1>1
  <2>2. IsBlock(c) /\ Level(c) /\ HasCounts(c, Len(b), functions, rs)
    BY ONLY <2>1, GroupedColumns DEF c
  <2> HIDE DEF c
  <2>3. Len(c) = Len(b) + 1 /\ DOMAIN rs = 1..m /\ 1 \in DOMAIN functions
    BY <1>1, <1>4, <2>2 DEF HasCounts
  <2> QED
    BY <2>2, <2>3 DEF HasCounts
<1> HIDE DEF c, t
<1>6. c # <<>> /\ c[Len(c)].tmp = FALSE
  BY <1>5, NoneIsSeq
<1>7. t = [g \in 1..m |-> rs[g].count]
  <2>1. t = [i \in DOMAIN c[Len(c)].data |-> c[Len(c)].data[i][2]]
    BY DEF t, Counts, CountsIn
  <2>2. DOMAIN c[Len(c)].data = 1..m /\ \A i \in 1..m : c[Len(c)].data[i] = IntCell(rs[i].count)
    BY <1>5
  <2>3. \A i \in 1..m : c[Len(c)].data[i][2] = rs[i].count
    BY <2>2 DEF IntCell
  <2> QED
    BY <2>1, <2>2, <2>3
<1>8. \A g \in 1..m : t[g] = s[p[g]] /\ s[p[g]] \in Nat
  BY <1>2, <1>3, <1>7, ElementOfSeq
<1>9. t \in Seq(Nat) /\ Len(t) = m
  <2>1. t \in [1..m -> Nat]
    BY <1>7, <1>8
  <2> QED
    BY <1>1, <2>1
<1>10. SumOf(t) = SumOf(s)
  <2>1. p \in Bijection(1..Len(s), 1..Len(s))
    BY <1>1, <1>3
  <2>2. Len(t) = Len(s) /\ \A i \in 1..Len(s) : t[i] = s[p[i]]
    BY <1>3, <1>8, <1>9
  <2> QED
    BY <1>3, <1>9, <2>1, <2>2, SumInAnyOrder
<1> QED
  BY <1>5, <1>6, <1>9, <1>10 DEF Counting, Counted, s, t, c, rs

LEMMA CountsFiltered ==
  ASSUME PipeInv, CountInv, FilterNext
  PROVE  CountInv'
<1>1. /\ step = "filter" /\ step' = "filter" /\ UNCHANGED <<query, table, results, reply>>
      /\ in.blocks # <<>> /\ in' = [in EXCEPT !.blocks = Tail(@)]
      /\ FilterDefined(Block, Filter) /\ ~FilterFails(Block, Filter)
      /\ out' = Push(out, FilterBlock(Block, Filter))
  BY DEF FilterNext, HasWork, Take
<1> SUFFICES ASSUME OneCount PROVE CountInv'
  BY <1>1, StillCounting DEF CountInv
<1> DEFINE b == ReadColumns(table, AllColumns)
           f == FilterBlock(b, Filter)
<1>2. /\ One(in) /\ in.blocks[1] = b /\ out.blocks = <<>>
      /\ results' = <<>> /\ reply' = <<>>
  BY <1>1 DEF CountInv, ToFilter
<1>3. GoodStream(in, table) /\ GoodStream(out, table) /\ Filtering /\ step \in Working
  BY <1>1 DEF PipeInv, Working, Planned
<1>4. Block = b /\ in'.blocks = <<>>
  BY <1>1, <1>2, <1>3, LoneTaken DEF Block
<1>5. GoodBlock(b, table) /\ b # <<>>
  BY <1>1, <1>3, <1>4, BlockAtHand
<1> HIDE DEF b
<1>6. FilterColumn(b, Filter.args[1]) \in DOMAIN b
  BY <1>1, <1>4, <1>5, FilterColumnFound DEF GoodBlock
<1>7. GoodBlock(f, table) /\ Rows(f) = Cardinality(Hits(b, Filter))
  BY <1>5, <1>6, FilteredBlock DEF GoodBlock
<1>8. MatchingRows = Cardinality(Hits(b, Filter))
  BY <1>3 DEF MatchingRows, b
<1>9. out' = Push(out, f)
  BY <1>1, <1>4
<1> HIDE DEF f
<1>10. One(out') /\ out'.blocks[1] = f
  BY <1>2, <1>3, <1>7, <1>9, LonePushed
<1>11. ToFilter'
  BY <1>1, <1>4, <1>7, <1>8, <1>10, StillCounting DEF ToFilter, One
<1> QED
  BY <1>1, <1>2, <1>11 DEF CountInv

LEMMA RowsGrouped ==
  ASSUME PipeInv, CountInv, GroupNext
  PROVE  CountInv'
<1>1. /\ step = "group" /\ step' = "group" /\ UNCHANGED <<query, table, out, reply>>
      /\ in.blocks # <<>> /\ in' = [in EXCEPT !.blocks = Tail(@)]
      /\ results' = GroupBlock(results, Block, Functions)
  BY DEF GroupNext, HasWork, Take
<1> SUFFICES ASSUME OneCount PROVE CountInv'
  BY <1>1, StillCounting DEF CountInv
<1>2. /\ One(in) /\ Rows(in.blocks[1]) = MatchingRows /\ results = <<>> /\ out.blocks = <<>>
      /\ reply' = <<>>
  BY <1>1 DEF CountInv, ToGroup
<1>3. GoodStream(in, table) /\ step \in Working
  BY <1>1 DEF PipeInv, Working
<1>4. Rows(Block) = MatchingRows /\ in'.blocks = <<>>
  BY <1>1, <1>2, <1>3, LoneTaken DEF Block
<1>5. IsBlock(Block) /\ Block # <<>>
  BY <1>1, <1>3, BlockAtHand DEF GoodBlock
<1>6. Rows(Block) \in Nat
  <2>1. 1 \in DOMAIN Block
    BY <1>5, SeqFacts DEF IsBlock
  <2> QED
    BY <1>5, <2>1, SeqFacts DEF IsBlock, Rows
<1>7. IsSeq(Functions) /\ Len(Functions) = 1
  BY SelectedColumns, QueriesAssumption DEF PipeInv, Functions, IsSeq, OneCount
<1>8. IsGroups(results) /\ Counted(results) = 0
  <2>1. [g \in DOMAIN results |-> results[g].count] = <<>>
    BY <1>2
  <2> QED
    BY <1>2, <2>1, NoneIsSeq, SumOfNothing DEF Counted, IsGroups
<1>9. Counted(results') = 0 + Rows(Block)
  BY <1>1, <1>6, <1>7, <1>8, RowsCounted
<1>10. ToGroup'
  BY <1>1, <1>2, <1>4, <1>6, <1>9, StillCounting DEF ToGroup
<1> QED
  BY <1>1, <1>2, <1>10 DEF CountInv

\* A step that hands the counts on with its block.
LEMMA CountsGoOn ==
  ASSUME PipeInv, CountInv, OneCount, step \in {"drop", "order"}, Take(step), Block # <<>>,
         NEW b, GoodBlock(b, table), Counting(Block, MatchingRows) => Counting(b, MatchingRows),
         out' = Push(out, b),
         UNCHANGED <<query, table, step, reply>>
  PROVE  CountInv'
<1>1. in.blocks # <<>> /\ in' = [in EXCEPT !.blocks = Tail(@)]
  BY DEF Take
<1>2. /\ One(in) /\ Counting(in.blocks[1], MatchingRows) /\ out.blocks = <<>>
      /\ reply' = <<>>
  BY <1>1 DEF CountInv, ToPass
<1>3. GoodStream(in, table) /\ GoodStream(out, table)
  BY DEF PipeInv, Working
<1>4. Block = in.blocks[1] /\ in'.blocks = <<>>
  BY <1>1, <1>2, <1>3, LoneTaken DEF Block
<1>5. Counting(b, MatchingRows)
  BY <1>2, <1>4
<1>6. One(out') /\ out'.blocks[1] = b
  BY <1>2, <1>3, LonePushed
<1>7. ToPass'
  BY <1>4, <1>5, <1>6, StillCounting DEF ToPass, One
<1> QED
  BY <1>2, <1>7 DEF CountInv

LEMMA CountsPassDrop ==
  ASSUME PipeInv, CountInv, DropNext
  PROVE  CountInv'
<1>1. /\ step = "drop" /\ in.blocks # <<>> /\ Take(step) /\ Block # <<>>
      /\ out' = Push(out, DropTmpColumns(Block))
      /\ UNCHANGED <<query, table, step, results, reply>>
  BY DEF DropNext, HasWork
<1> SUFFICES ASSUME OneCount PROVE CountInv'
  BY <1>1, StillCounting DEF CountInv
<1>2. GoodBlock(Block, table) /\ step \in Working
  BY <1>1, BlockAtHand DEF Working
<1>3. GoodBlock(DropTmpColumns(Block), table)
  BY <1>2, DroppedColumns DEF GoodBlock
<1>4. Counting(Block, MatchingRows) => Counting(DropTmpColumns(Block), MatchingRows)
  BY <1>2, CountsKept DEF GoodBlock
<1> QED
  BY <1>1, <1>3, <1>4, CountsGoOn

LEMMA CountsPassOrder ==
  ASSUME PipeInv, CountInv, OrderNext
  PROVE  CountInv'
<1>1. /\ step = "order" /\ in.blocks # <<>> /\ Take(step) /\ Block # <<>>
      /\ UNCHANGED <<query, table, step, results, reply>>
  BY DEF OrderNext, HasWork
<1>2. PICK p \in Sortings(Block, OrderByColumns(Block, query.orderBy)) :
          out' = Push(out, PickRows(Block, p))
  BY DEF OrderNext
<1> SUFFICES ASSUME OneCount PROVE CountInv'
  BY <1>1, StillCounting DEF CountInv
<1>3. GoodBlock(Block, table) /\ step \in Working
  BY <1>1, BlockAtHand DEF Working
<1>4. p \in Bijection(1..Rows(Block), 1..Rows(Block))
  BY <1>2 DEF Sortings
<1>5. Rows(Block) \in Nat /\ DOMAIN p = 1..Rows(Block)
  <2>1. 1 \in DOMAIN Block
    BY <1>1, <1>3, SeqFacts DEF GoodBlock, IsBlock
  <2> QED
    BY <1>1, <1>3, <1>4, <2>1, SeqFacts DEF GoodBlock, IsBlock, Rows, Bijection, Injection
<1>6. GoodBlock(PickRows(Block, p), table)
  BY <1>3, <1>5, PickedRows DEF GoodBlock
<1>7. Counting(Block, MatchingRows) => Counting(PickRows(Block, p), MatchingRows)
  BY <1>3, <1>4, CountsSorted DEF GoodBlock
<1> QED
  BY <1>1, <1>2, <1>6, <1>7, CountsGoOn

LEMMA CountsShown ==
  ASSUME PipeInv, CountInv, PrintBlock
  PROVE  CountInv'
<1>1. /\ step = "print" /\ step' = "print" /\ UNCHANGED <<query, table, out, results>>
      /\ in.blocks # <<>> /\ in' = [in EXCEPT !.blocks = Tail(@)] /\ Block # <<>>
  BY DEF PrintBlock, HasWork, Take
<1> SUFFICES ASSUME OneCount PROVE CountInv'
  BY <1>1, StillCounting DEF CountInv
<1>2. One(in) /\ Counting(in.blocks[1], MatchingRows) /\ reply = <<>>
  BY <1>1 DEF CountInv, ToPrint
<1>3. GoodStream(in, table) /\ step \in Working
  BY <1>1 DEF PipeInv, Working
<1> DEFINE b == in.blocks[1]
           L == Len(b)
           m == Rows(b)
           h == Map(LAMBDA c : IF c.alias = <<>> THEN c.name ELSE c.alias, b)
           w == [i \in 1..m |-> [j \in DOMAIN b |-> b[j].data[i]]]
           x == [header |-> h, rows |-> w]
<1>4. Block = b /\ in'.blocks = <<>>
  BY <1>1, <1>2, <1>3, LoneTaken DEF Block
<1>5. IsBlock(b) /\ b # <<>> /\ Level(b)
  BY <1>1, <1>2, <1>3, <1>4, BlockAtHand DEF GoodBlock, Counting
<1>6. /\ L \in Nat /\ DOMAIN b = 1..L /\ L \in DOMAIN b
      /\ m = Len(b[L].data) /\ m \in Nat /\ DOMAIN b[L].data = 1..m
  BY <1>5, SeqFacts DEF IsBlock, Level
<1>7. reply' = Append(<<>>, x)
  BY <1>2, <1>4 DEF PrintBlock
<1>8. Len(h) = L
  BY <1>6, SeqIf DEF Map
<1>9. w = [i \in 1..m |-> w[i]] /\ \A i \in 1..m : w[i][L] = b[L].data[i]
  BY <1>6
<1> HIDE DEF b, L, m, h, w
<1>10. x.header = h /\ x.rows = w
  OBVIOUS
<1> HIDE DEF x
<1>11. reply'[1] = x
  <2>1. Append(<<>>, x)[Len(<<>>) + 1] = x
    BY NoneIsSeq, AppendToSeq
  <2> QED
    BY <1>7, <2>1, NoneIsSeq
<1>12. \A j \in CountColumns' : j = L
  <2>1. CountColumns' = {j \in DOMAIN h : j > Len(h) - Len(Functions')}
    BY <1>10, <1>11 DEF CountColumns
  <2>2. Len(Functions') = 1
    BY <1>1, StillCounting DEF OneCount
  <2>3. DOMAIN h = 1..L
    BY <1>6 DEF h, Map
  <2> QED
    BY <1>6, <1>8, <2>1, <2>2, <2>3
<1> PICK k \in Nat : k = L
  BY <1>6
<1>13. Total(k)' = SumOf([i \in 1..m |-> w[i][k][2]])
  <2>1. reply'[1].rows = w /\ DOMAIN w = 1..m
    BY <1>9, <1>10, <1>11
  <2> QED
    BY <2>1 DEF Total
<1>14. [i \in 1..m |-> w[i][k][2]] = Counts(b)
  BY <1>6, <1>9 DEF Counts, CountsIn, L
<1>15. Total(k)' = MatchingRows'
  BY <1>1, <1>2, <1>13, <1>14, StillCounting DEF Counting, b
<1>16. AddsUp'
  BY <1>12, <1>15 DEF AddsUp
<1>17. ToPrint'
  BY <1>4, <1>16 DEF ToPrint
<1> QED
  BY <1>1, <1>17 DEF CountInv

LEMMA StillAddsUp ==
  ASSUME UNCHANGED <<query, table, reply>>
  PROVE  AddsUp' <=> AddsUp
<1>1. Functions' = Functions /\ MatchingRows' = MatchingRows
  BY StillCounting
<1>2. CountColumns' = CountColumns
  BY <1>1 DEF CountColumns
<1>3. \A j : Total(j)' = Total(j)
  BY DEF Total
<1> QED
  BY <1>1, <1>2, <1>3 DEF AddsUp

LEMMA CountsHandedOn ==
  ASSUME PipeInv, OneCount, step \in {"group", "drop", "order"}, reply = <<>>,
         NEW s, GoodStream(s, table), One(s), Counting(s.blocks[1], MatchingRows),
         in' = Close(s), out' = EmptyStream, step' = After(step),
         UNCHANGED <<query, table, reply>>
  PROVE  CountInv'
<1>1. /\ After(step) \in Working /\ Planned(After(step))
      /\ After(step) \notin {"filter", "group"}
  BY NextStep
<1>2. After(step) # "limit"
  BY <1>1 DEF Planned, OneCount, None
<1>3. step' \in {"drop", "order", "print"}
  BY <1>1, <1>2 DEF Working
<1>4. One(in') /\ in'.blocks[1] = s.blocks[1] /\ out'.blocks = <<>>
  BY Closed DEF One, EmptyStream
<1>5. ToPass' /\ ToPrint'
  BY <1>4, StillCounting DEF ToPass, ToPrint, One
<1> QED
  BY <1>3, <1>5 DEF CountInv

LEMMA CountsEndStep ==
  ASSUME PipeInv, CountInv, EndStep
  PROVE  CountInv'
<1>1. PICK s \in {"filter", "drop", "order", "limit"} : Handover(s, out)
  BY DEF EndStep
<1>2. /\ step = s /\ in' = Close(out) /\ out' = EmptyStream /\ step' = After(step)
      /\ UNCHANGED <<query, table, results, template, reply>> /\ in.blocks = <<>>
  BY <1>1 DEF Handover, EndStep, More
<1> SUFFICES ASSUME OneCount PROVE CountInv'
  BY <1>2, StillCounting DEF CountInv
<1>3. step # "limit"
  BY DEF CountInv
<1>4. GoodStream(out, table)
  BY <1>2 DEF PipeInv, Working
<1>5. ~One(in)
  BY <1>2, NoneIsSeq DEF One
<1>6. CASE step = "filter"
  <2>1. One(out) /\ Rows(out.blocks[1]) = MatchingRows /\ results = <<>> /\ reply = <<>>
    BY <1>5, <1>6 DEF CountInv, ToFilter
  <2>2. Grouping
    BY NoneIsSeq DEF OneCount, Grouping
  <2>3. step' = "group"
    BY <1>2, <1>6, <2>2, NextStep
  <2>4. One(in') /\ in'.blocks[1] = out.blocks[1] /\ out'.blocks = <<>>
    BY <1>2, <1>4, <2>1, Closed DEF One, EmptyStream
  <2>5. ToGroup'
    BY <1>2, <2>1, <2>4, StillCounting DEF ToGroup, One
  <2> QED
    BY <1>2, <2>1, <2>3, <2>5 DEF CountInv
<1>7. CASE step \in {"drop", "order"}
  <2>1. One(out) /\ Counting(out.blocks[1], MatchingRows) /\ reply = <<>>
    BY <1>5, <1>7 DEF CountInv, ToPass
  <2> QED
    BY <1>2, <1>4, <1>7, <2>1, CountsHandedOn
<1> QED
  BY <1>2, <1>3, <1>6, <1>7

LEMMA CountsEndGroup ==
  ASSUME PipeInv, CountInv, EndGroup
  PROVE  CountInv'
<1>1. PICK p \in Bijection(DOMAIN results, DOMAIN results) :
          Handover("group", Push(out, GroupColumns(template,
                       [g \in DOMAIN results |-> results[p[g]]], Functions)))
  BY DEF EndGroup
<1> DEFINE c == GroupColumns(template, [g \in DOMAIN results |-> results[p[g]]], Functions)
           s == Push(out, c)
<1>2. /\ step = "group" /\ in' = Close(s) /\ out' = EmptyStream
      /\ step' = After(step) /\ UNCHANGED <<query, table, results, template, reply>>
      /\ in.blocks = <<>>
  BY <1>1 DEF Handover, EndGroup, More
<1> SUFFICES ASSUME OneCount PROVE CountInv'
  BY <1>2, StillCounting DEF CountInv
<1>3. /\ query \in Queries /\ GoodStream(out, table) /\ IsGroups(results) /\ IsBlock(template)
  BY <1>2 DEF PipeInv, Working
<1>4. Counted(results) = MatchingRows /\ out.blocks = <<>> /\ reply = <<>>
  <2>1. ~One(in)
    BY <1>2, NoneIsSeq DEF One
  <2> QED
    BY <1>2, <2>1 DEF CountInv, ToGroup
<1>5. IsSeq(Functions) /\ Len(Functions) = 1
  BY <1>3, SelectedColumns, QueriesAssumption DEF Functions, IsSeq, OneCount
<1>6. Counting(c, MatchingRows)
  <2>1. Counting(c, Counted(results))
    BY <1>3, <1>5, CountsGrouped
  <2> HIDE DEF c
  <2> QED
    BY <1>4, <2>1
<1>7. GoodBlock(c, table)
  <2> DEFINE rs == [g \in DOMAIN results |-> results[p[g]]]
  <2>1. DOMAIN rs = 1..Len(results) /\ Len(results) \in Nat
    BY <1>3, SeqFacts DEF IsGroups
  <2>2. c = GroupColumns(template, rs, Functions)
    OBVIOUS
  <2> HIDE DEF rs, c
  <2> QED
    BY <1>3, <1>5, <2>1, <2>2, GroupedColumns DEF GoodBlock
<1> HIDE DEF c
<1>8. GoodStream(s, table) /\ One(s) /\ s.blocks[1] = c
  BY <1>3, <1>4, <1>7, Pushed, LonePushed
<1> HIDE DEF s
<1> QED
  BY <1>2, <1>4, <1>6, <1>8, CountsHandedOn

LEMMA CountsEndPrint ==
  ASSUME PipeInv, CountInv, EndPrint
  PROVE  CountInv'
<1>1. /\ step = "print" /\ step' = "ok" /\ UNCHANGED <<query, table, reply>>
      /\ in.blocks = <<>> \/ Block = <<>>
  BY DEF EndPrint, Stop, More
<1> SUFFICES ASSUME OneCount PROVE CountInv'
  BY <1>1, StillCounting DEF CountInv
<1>2. GoodStream(in, table) /\ ToPrint
  BY <1>1 DEF PipeInv, Working, CountInv
<1>3. ~(One(in) /\ Counting(in.blocks[1], MatchingRows))
  BY <1>1, <1>2, LoneTaken DEF Counting, Block
<1>4. AddsUp
  BY <1>2, <1>3 DEF ToPrint
<1> QED
  BY <1>1, <1>4, StillAddsUp DEF CountInv

\* The one block has columns.
LEMMA NoneSkipped ==
  ASSUME PipeInv, CountInv, SkipEmptyBlock
  PROVE  CountInv'
<1>1. PICK s \in {"filter", "group", "drop", "order", "limit"} : Take(s)
  BY DEF SkipEmptyBlock
<1>2. /\ step = s /\ in.blocks # <<>> /\ Block = <<>>
      /\ UNCHANGED <<query, table>>
  BY <1>1 DEF Take, SkipEmptyBlock
<1> SUFFICES ASSUME OneCount PROVE FALSE
  BY <1>2, StillCounting DEF CountInv
<1>3. step \in Working /\ GoodStream(in, table)
  BY <1>2 DEF Working, PipeInv
<1>4. step \in {"drop", "order"}
  BY <1>2, <1>3, BlockAtHand DEF CountInv
<1>5. One(in) /\ Counting(in.blocks[1], MatchingRows)
  BY <1>2, <1>4 DEF CountInv, ToPass
<1> QED
  BY <1>2, <1>3, <1>5, LoneTaken DEF Counting, Block

\* With one count in the select list and no limit, the counts of the groups in the reply
\* add up to the number of rows that passed the filter, in whatever order GroupByStep takes
\* the groups out of its table and OrderByStep sorts them, and whatever rows fall into one
\* group because their values join to the same key (GroupByStep.h:55-104).
THEOREM GroupsAddUp == Spec => []OneCountAddsUp
<1>1. Init => CountInv
  BY DEF Init, CountInv
<1>2. PipeInv /\ CountInv /\ [Next]_vars => CountInv'
  <2> SUFFICES ASSUME PipeInv, CountInv, [Next]_vars PROVE CountInv'
    OBVIOUS
  <2>1. CASE UNCHANGED vars
    <3>1. UNCHANGED <<query, table, step, in, out, results, reply>>
      BY <2>1 DEF vars
    <3>2. /\ ToFilter' <=> ToFilter
          /\ ToGroup' <=> ToGroup
          /\ ToPass' <=> ToPass
          /\ ToPrint' <=> ToPrint
      BY <3>1, StillCounting, StillAddsUp DEF ToFilter, ToGroup, ToPass, ToPrint, One
    <3> QED
      BY <3>1, <3>2, StillCounting, StillAddsUp DEF CountInv
  <2>2. CASE Fail \/ GoUndefined
    <3>1. step' \in {"error", "undefined"}
      BY <2>2 DEF Fail, GoUndefined, Stop
    <3> QED
      BY <3>1 DEF CountInv
  <2>3. CASE LimitNext
    <3>1. step = "limit" /\ UNCHANGED query
      BY <2>3 DEF LimitNext, HasWork
    <3> QED
      BY <3>1 DEF CountInv, OneCount, Functions
  <2> QED
    BY <2>1, <2>2, <2>3, CountsInterpreted, NoneSkipped, CountsFiltered, RowsGrouped,
       CountsPassDrop, CountsPassOrder, CountsEndStep, CountsEndGroup, CountsShown,
       CountsEndPrint DEF Next
<1>3. CountInv => OneCountAddsUp
  BY DEF CountInv, OneCount, AddsUp, OneCountAddsUp
<1> QED
  BY <1>1, <1>2, <1>3, PipelineInvariant, PTL DEF Spec

-----------------------------------------------------------------------------
(* The answer to a query that is within the promise of SelectAnswer.        *)

\* What a query finds is what SelectAnswer promises.  A block has the columns that are
\* read, with the rows of the table at some places; a block lists the rows of a result.
HasColumnsRead(b) ==
    /\ DOMAIN b = DOMAIN AllColumns
    /\ \A j \in DOMAIN b :
          /\ b[j].name = AllColumns[j].name /\ b[j].alias = AllColumns[j].alias
          /\ b[j].tmp = AllColumns[j].tmp

Reads(b, is) ==
    /\ HasColumnsRead(b)
    /\ \A j \in DOMAIN b : b[j].data = [k \in DOMAIN is |-> table[AllColumns[j].name][is[k]]]

Lists(b, rows) ==
    /\ DOMAIN b = DOMAIN Answer!Nodes
    /\ \A j \in DOMAIN b :
          /\ b[j].name = Answer!Nodes[j].name /\ b[j].alias = Answer!Nodes[j].alias
          /\ b[j].data = [r \in DOMAIN rows |-> rows[r][j]]

AllRows == [i \in 1..Answer!Size |-> i]
MatchingPlaces == Increasing(Answer!Matching)

\* The rows as they are before they are sorted.
Found == IF Grouping THEN Answer!Grouped ELSE Answer!InFileOrder

\* What a step is promised of the block that it is given, and the one behind it of the
\* block that it gives.
Fits(s, b) ==
    CASE s = "filter" -> Reads(b, AllRows)
      [] s = "group"  -> Reads(b, MatchingPlaces)
      [] s = "drop"   -> /\ \E rows \in Found : Lists(DropTmpColumns(b), rows)
                         /\ ~Planned("drop") => DropTmpColumns(b) = b
      [] s = "order"  -> \E rows \in Found : Lists(b, rows)
      [] s = "limit"  -> \E rows \in Answer!Listings : Answer!Ordered(rows) /\ Lists(b, rows)
      [] s = "print"  -> \E rows : Answer!IsAnswer(rows) /\ Lists(b, rows)

Behind(s) ==
    CASE s = "interpret" -> "filter"
      [] s = "filter"    -> "group"
      [] s = "group"     -> "drop"
      [] s = "drop"      -> "order"
      [] s = "order"     -> "limit"
      [] s = "limit"     -> "print"

\* The groups are those of the matching rows, each once.
GroupsFound(r) ==
    \E e \in Bijection(DOMAIN r, Answer!Groups) :
        \A g \in DOMAIN r :
            /\ \A j \in DOMAIN Answer!Idents : r[g].row[j] = e[g][j]
            /\ r[g].count = Cardinality({i \in Answer!Matching : Answer!Tuple(i) = e[g]})

Answered ==
    /\ Len(reply) = 1 /\ reply[1].header = Answer!Header
    /\ Answer!IsAnswer(reply[1].rows)

AnswerInv ==
    Answer!Promised =>
        /\ step \in {"interpret", "filter"} => results = <<>>
        /\ step \in {"interpret"} \union (Working \ {"print"}) => reply = <<>>
        /\ step \in {"filter", "drop", "order", "limit"} =>
              \/ One(in) /\ Fits(step, in.blocks[1]) /\ out.blocks = <<>>
              \/ in.blocks = <<>> /\ One(out) /\ Fits(Behind(step), out.blocks[1])
        /\ step = "group" =>
              /\ out.blocks = <<>>
              /\ \/ One(in) /\ Fits(step, in.blocks[1]) /\ results = <<>>
                 \/ in.blocks = <<>> /\ HasColumnsRead(template) /\ GroupsFound(results)
        /\ step = "print" =>
              \/ One(in) /\ Fits(step, in.blocks[1]) /\ reply = <<>>
              \/ in.blocks = <<>> /\ Answered
        /\ step \in Final => step = "ok" /\ Answered

LEMMA SameCardinality == \A S : Answer!Cardinality(S) = Cardinality(S)
  BY DEF Answer!Cardinality, Cardinality

LEMMA SameIncreasing == \A S : Answer!Increasing(S) = Increasing(S)
  BY DEF Answer!Increasing, Increasing, Answer!Cardinality, Cardinality

LEMMA SameAtPlaces == \A s, S : Answer!AtPlaces(s, S) = AtPlaces(s, S)
<1> SUFFICES ASSUME NEW s, NEW S PROVE Answer!AtPlaces(s, S) = AtPlaces(s, S)
  OBVIOUS
<1> QED
  BY SameCardinality, SameIncreasing, Zenon DEF Answer!AtPlaces, AtPlaces

LEMMA SameJoined == \A s : Answer!Joined(s) = Joined(s)
  BY DEF Answer!Joined, Joined

LEMMA SameBijection == \A S, T : Answer!Bijection(S, T) = Bijection(S, T)
  BY Zenon DEF Answer!Bijection, Bijection, Answer!Injection, Injection, Answer!Surjection, Surjection, Answer!IsInjective, IsInjective

LEMMA SameNodes == 
  /\ Answer!Idents = Keep(query.select, IsIdentifier)
  /\ Answer!Counts = Functions
<1>1. Answer!Idents = AtPlaces(query.select, {i \in DOMAIN query.select : IsIdentifier(query.select[i])})
  BY SameAtPlaces, Zenon DEF Answer!Idents, Answer!Keep, Answer!IsIdentifier, IsIdentifier
<1>2. Answer!Counts = AtPlaces(query.select, {i \in DOMAIN query.select : IsFunction(query.select[i])})
  BY SameAtPlaces, Zenon DEF Answer!Counts, Answer!Keep, Answer!IsFunction, IsFunction
<1> QED
  BY <1>1, <1>2, Zenon DEF Functions, GetAgrFunctions, Keep

-----------------------------------------------------------------------------
(* Names and columns of a query that is within the promise.                 *)

LEMMA NodesPromised ==
  ASSUME query \in Queries, Answer!Promised
  PROVE  /\ IsSeq(Answer!Idents) /\ IsSeq(Functions) /\ IsSeq(Answer!Nodes)
         /\ Len(Answer!Nodes) = Len(Answer!Idents) + Len(Functions)
         /\ Len(Functions) \in {0, 1}
         /\ \A j \in DOMAIN Answer!Idents :
               j \in DOMAIN Answer!Nodes /\ Answer!Nodes[j] = Answer!Idents[j]
         /\ \A f \in DOMAIN Functions :
               /\ Len(Answer!Idents) + f \in DOMAIN Answer!Nodes
               /\ Answer!Nodes[Len(Answer!Idents) + f] = Functions[f]
         /\ \A j \in DOMAIN Answer!Nodes :
               j \in DOMAIN Answer!Idents \/ j - Len(Answer!Idents) \in DOMAIN Functions
         /\ Len(Answer!Nodes) \in 1..((IntSize \div 2) - 1)
<1>1. IsSeq(query.select)
  BY QueriesAssumption DEF IsSeq
<1>2. IsSeq(Answer!Idents) /\ IsSeq(Functions)
  <2>1. IsSeq(Keep(query.select, IsIdentifier))
    BY <1>1, SeqKept DEF Keep
  <2> QED
    BY <1>1, <2>1, SameNodes, SelectedColumns DEF Functions
<1>3. Answer!Nodes = Answer!Idents \o Functions
  BY SameNodes DEF Answer!Nodes
<1>4. /\ Answer!Nodes # <<>> /\ Len(Answer!Nodes) < IntSize \div 2
      /\ Answer!Counts # <<>> => Len(Answer!Counts) = 1
  BY DEF Answer!Promised, Answer!PromisedNames, Answer!PromisedGroups, Answer!Aggregate
<1>5. Len(Functions) \in {0, 1}
  BY <1>4, SameNodes, NoneIsSeq
<1>6. IsSeq(Answer!Nodes) /\ Len(Answer!Nodes) = Len(Answer!Idents) + Len(Functions)
  BY <1>2, <1>3, SeqsJoined
<1>7. Len(Answer!Nodes) \in 1..((IntSize \div 2) - 1)
  BY <1>4, <1>6, SeqFacts, LettersAssumption
<1>8. \A j \in DOMAIN Answer!Idents :
          j \in DOMAIN Answer!Nodes /\ Answer!Nodes[j] = Answer!Idents[j]
  BY <1>2, <1>3, SeqsJoined
<1>9. \A f \in DOMAIN Functions : /\ Len(Answer!Idents) + f \in DOMAIN Answer!Nodes
                                  /\ Answer!Nodes[Len(Answer!Idents) + f] = Functions[f]
  BY <1>2, <1>3, SeqsJoined
<1>10. \A j \in DOMAIN Answer!Nodes :
               j \in DOMAIN Answer!Idents \/ j - Len(Answer!Idents) \in DOMAIN Functions
  BY <1>2, <1>3, SeqsJoined
<1> QED
  BY <1>2, <1>5, <1>6, <1>7, <1>8, <1>9, <1>10

\* How the columns of the result are called.
LEMMA NamesPromised ==
  ASSUME query \in Queries, Answer!Promised
  PROVE  /\ \A j \in DOMAIN Answer!Idents :
               /\ Answer!Idents[j].name \in DOMAIN table /\ Answer!Idents[j].name # <<>>
               /\ Answer!Idents[j].name # CountName
               /\ Answer!Idents[j].qualifier \in {<<>>, TableName, query.table.alias}
         /\ \A f \in DOMAIN Functions : Functions[f].name = CountName
         /\ \A j \in DOMAIN Answer!Nodes :
               /\ Answer!Nodes[j].alias \notin DOMAIN table \union {CountName}
               /\ Answer!Header[j] = IF Answer!Nodes[j].alias = <<>> THEN Answer!Nodes[j].name
                                     ELSE Answer!Nodes[j].alias
         /\ DOMAIN Answer!Header = DOMAIN Answer!Nodes
         /\ \A i, j \in DOMAIN Answer!Header : Answer!Header[i] = Answer!Header[j] => i = j
<1>1. Answer!PromisedNames /\ Answer!PromisedGroups
  BY DEF Answer!Promised
<1>2. \A j \in DOMAIN Answer!Idents :
               /\ Answer!Idents[j].name \in DOMAIN table /\ Answer!Idents[j].name # <<>>
               /\ Answer!Idents[j].name # CountName
               /\ Answer!Idents[j].qualifier \in {<<>>, TableName, query.table.alias}
  BY <1>1 DEF Answer!PromisedNames, Answer!KnownId
<1>3. \A f \in DOMAIN Functions : Functions[f].name = CountName
  <2>1. IsSeq(Functions) /\ Len(Functions) \in {0, 1} /\ DOMAIN Functions = 1..Len(Functions)
    BY NodesPromised, SeqFacts
  <2>2. Functions # <<>> => Functions[1].name = CountName
    BY <1>1, SameNodes DEF Answer!PromisedGroups, Answer!Aggregate
  <2> QED
    BY <2>1, <2>2, NoneIsSeq
<1>4. DOMAIN Answer!Header = DOMAIN Answer!Nodes
  BY DEF Answer!Header, Answer!Map
<1>5. \A j \in DOMAIN Answer!Nodes :
               /\ Answer!Nodes[j].alias \notin DOMAIN table \union {CountName}
               /\ Answer!Header[j] = IF Answer!Nodes[j].alias = <<>> THEN Answer!Nodes[j].name
                                     ELSE Answer!Nodes[j].alias
  BY <1>1 DEF Answer!PromisedNames, Answer!Header, Answer!Map, Answer!Title
<1>6. \A i, j \in DOMAIN Answer!Header : Answer!Header[i] = Answer!Header[j] => i = j
  BY <1>1 DEF Answer!PromisedNames
<1> QED
  BY <1>2, <1>3, <1>4, <1>5, <1>6

LEMMA SelectedPromised ==
  ASSUME query \in Queries, Answer!Promised
  PROVE  /\ IsBlock(Selected) /\ DOMAIN Selected = DOMAIN Answer!Idents
         /\ Len(Selected) = Len(Answer!Idents)
         /\ \A j \in DOMAIN Selected :
               /\ Selected[j].name = Answer!Idents[j].name
               /\ Selected[j].alias = Answer!Idents[j].alias
               /\ Selected[j].qualifier = Answer!Idents[j].qualifier
               /\ Selected[j].tmp = FALSE
<1>1. IsSeq(query.select)
  BY QueriesAssumption DEF IsSeq
<1>2. IsBlock(Selected)
  BY <1>1, SelectedColumns DEF Selected
<1>3. Selected = [i \in DOMAIN Answer!Idents |-> ColumnOf(Answer!Idents[i])]
  BY SameNodes DEF Selected, GetColumns, Map
<1>4. DOMAIN Selected = DOMAIN Answer!Idents
  BY <1>3
<1>5. Len(Selected) = Len(Answer!Idents)
  BY <1>2, <1>4, NodesPromised, SeqFacts DEF IsBlock
<1>6. ASSUME NEW j \in DOMAIN Selected
      PROVE  /\ Selected[j].name = Answer!Idents[j].name
             /\ Selected[j].alias = Answer!Idents[j].alias
             /\ Selected[j].qualifier = Answer!Idents[j].qualifier
             /\ Selected[j].tmp = FALSE
  BY <1>3, <1>4 DEF ColumnOf, Column
<1> QED
  BY <1>2, <1>4, <1>5, <1>6

-----------------------------------------------------------------------------
(* Parts of sequences, and the columns that are read.                      *)

LEMMA RankInInterval ==
  ASSUME NEW n \in Nat, NEW x \in 1..n
  PROVE  Rank(1..n, x) = x
<1>1. {y \in 1..n : y <= x} = 1..x
  OBVIOUS
<1>2. Cardinality(1..x) = x
  BY FS_Interval
<1> QED
  BY <1>1, <1>2 DEF Rank

LEMMA IncreasingInterval ==
  ASSUME NEW n \in Nat
  PROVE  Increasing(1..n) = [i \in 1..n |-> i] /\ Cardinality(1..n) = n
<1>1. (1..n) \in SUBSET Int /\ IsFiniteSet(1..n) /\ Cardinality(1..n) = n
  BY FS_Interval
<1>2. DOMAIN Increasing(1..n) = 1..n
  BY <1>1, IncreasingFacts
<1>3. \A x \in 1..n : Increasing(1..n)[Rank(1..n, x)] = x
  BY <1>1, IncreasingFacts
<1>4. \A x \in 1..n : Increasing(1..n)[x] = x
  BY <1>3, RankInInterval
<1>5. Increasing(1..n) \in Seq(1..n)
  BY <1>1, IncreasingFacts
<1>6. Increasing(1..n) = [i \in 1..n |-> Increasing(1..n)[i]]
  BY <1>2, <1>5, SeqOfAnything, SeqFacts
<1> QED
  BY <1>1, <1>4, <1>6

LEMMA AllKept ==
  ASSUME NEW s, IsSeq(s)
  PROVE  AtPlaces(s, DOMAIN s) = s
<1>1. Len(s) \in Nat /\ DOMAIN s = 1..Len(s) /\ s = [i \in 1..Len(s) |-> s[i]]
  BY SeqFacts
<1>2. Increasing(1..Len(s)) = [i \in 1..Len(s) |-> i] /\ Cardinality(1..Len(s)) = Len(s)
  BY <1>1, IncreasingInterval
<1>3. AtPlaces(s, 1..Len(s)) = [k \in 1..Len(s) |-> s[k]]
  BY <1>2 DEF AtPlaces
<1> QED
  BY <1>1, <1>3

LEMMA NoneKept ==
  ASSUME NEW s
  PROVE  AtPlaces(s, {}) = <<>>
<1>1. Cardinality({}) = 0
  BY FS_EmptySet
<1>2. AtPlaces(s, {}) = [k \in 1..0 |-> s[Increasing({})[k]]]
  BY <1>1 DEF AtPlaces
<1> QED
  BY <1>2

LEMMA AllButOneKept ==
  ASSUME NEW s, IsSeq(s), NEW d \in DOMAIN s
  PROVE  LET t == AtPlaces(s, DOMAIN s \ {d})
         IN  /\ IsSeq(t) /\ Len(t) = Len(s) - 1
             /\ \A k \in 1..(d - 1) : k \in DOMAIN t /\ t[k] = s[k]
             /\ \A k \in d..(Len(s) - 1) : k \in DOMAIN t /\ t[k] = s[k + 1]
<1> DEFINE S == DOMAIN s \ {d}
           t == AtPlaces(s, S)
           E == Range(s)
<1>1. Len(s) \in Nat /\ DOMAIN s = 1..Len(s)
  BY SeqFacts
<1>2. s \in Seq(E)
  BY DEF IsSeq
<1> HIDE DEF E
<1>3. S \in SUBSET (1..Len(s)) /\ S \in SUBSET Int
  BY <1>1
<1>4. IsSeq(t)
  BY SeqKept
<1>5. /\ \A i \in S : Rank(S, i) \in 1..Len(t) /\ t[Rank(S, i)] = s[i]
  BY <1>2, <1>3, AtPlacesFacts
<1>6. IsFiniteSet(1..Len(s)) /\ Cardinality(1..Len(s)) = Len(s)
  <2>1. 1 \in Int /\ Len(s) \in Int
    BY <1>1
  <2>2. IsFiniteSet(1..Len(s))
    BY <2>1, FS_Interval
  <2> QED
    BY <1>1, <2>2, IncreasingInterval
<1>7. Cardinality(S) = Len(s) - 1
  <2>1. S = (1..Len(s)) \ {d} /\ d \in 1..Len(s)
    BY <1>1
  <2> HIDE DEF S
  <2> QED
    BY <1>6, <2>1, FS_RemoveElement
<1>8. Len(t) = Len(s) - 1
  <2>1. t = [k \in 1..(Len(s) - 1) |-> s[Increasing(S)[k]]]
    BY <1>7 DEF AtPlaces
  <2>2. Len(s) - 1 \in Nat
    BY <1>1
  <2> HIDE DEF t, S
  <2> QED
    BY <2>1, <2>2
<1>9. ASSUME NEW k \in 1..(d - 1) PROVE k \in DOMAIN t /\ t[k] = s[k]
  <2>1. k \in S /\ k \in 1..Len(s)
    BY <1>1
  <2>2. {y \in S : y <= k} = {y \in 1..Len(s) : y <= k}
    BY <1>1
  <2>3. Rank(S, k) = k
    BY <1>1, <2>1, <2>2, RankInInterval DEF Rank
  <2> QED
    BY <1>4, <1>5, <2>1, <2>3, SeqFacts
<1>10. ASSUME NEW k \in d..(Len(s) - 1) PROVE k \in DOMAIN t /\ t[k] = s[k + 1]
  <2>1. k + 1 \in S /\ k + 1 \in 1..Len(s)
    BY <1>1
  <2> DEFINE U == {y \in 1..Len(s) : y <= k + 1}
  <2>2. {y \in S : y <= k + 1} = U \ {d} /\ d \in U
    BY <1>1
  <2>3. IsFiniteSet(U) /\ Cardinality(U) = k + 1
    BY <1>1, <1>6, <2>1, RankInInterval, FS_Subset DEF Rank
  <2>4. Rank(S, k + 1) = k
    <3>1. Cardinality(U \ {d}) = (k + 1) - 1
      BY <2>2, <2>3, FS_RemoveElement
    <3>2. (k + 1) - 1 = k
      BY <1>1
    <3> QED
      BY <2>2, <3>1, <3>2 DEF Rank
  <2> QED
    BY <1>4, <1>5, <2>1, <2>4, SeqFacts
<1> QED
  BY <1>4, <1>8, <1>9, <1>10

LEMMA NothingMapped ==
  ASSUME NEW f, f = [i \in {} |-> f[i]]
  PROVE  f = <<>>
<1>1. f = [i \in 1..0 |-> f[i]]
  OBVIOUS
<1>2. IsSeq(f) /\ Len(f) = 0
  BY <1>1, SeqIf
<1> QED
  BY <1>2, SeqFacts

LEMMA NothingJoined ==
  ASSUME NEW s, IsSeq(s)
  PROVE  s \o <<>> = s
<1> DEFINE E == Range(s)
<1>1. s \in Seq(E)
  BY DEF IsSeq
<1> HIDE DEF E
<1> QED
  BY <1>1

\* The columns that are read: the selected ones and perhaps the one of WHERE.
LEMMA ColumnsPromised ==
  ASSUME query \in Queries, Answer!Promised
  PROVE  /\ IsBlock(AllColumns) /\ AllColumns # <<>>
         /\ \A j \in DOMAIN Answer!Idents :
               /\ j \in DOMAIN AllColumns /\ AllColumns[j].tmp = FALSE
               /\ AllColumns[j].name = Answer!Idents[j].name
               /\ AllColumns[j].alias = Answer!Idents[j].alias
               /\ AllColumns[j].qualifier = Answer!Idents[j].qualifier
         /\ \/ Len(AllColumns) = Len(Answer!Idents)
            \/ /\ Len(AllColumns) = Len(Answer!Idents) + 1
               /\ AllColumns[Len(AllColumns)].tmp /\ Filtering
               /\ AllColumns[Len(AllColumns)].name = query.where.args[1].name
               /\ AllColumns[Len(AllColumns)].qualifier = query.where.args[1].qualifier
               /\ Answer!KnownId(query.where.args[1])
         /\ Filtering =>
               LET n == query.where.args[1].name
               IN  \E k \in DOMAIN AllColumns :
                      \/ AllColumns[k].name = n
                      \/ AllColumns[k].alias # <<>> /\ AllColumns[k].alias = n
<1>1. /\ IsBlock(Selected) /\ DOMAIN Selected = DOMAIN Answer!Idents
      /\ Len(Selected) = Len(Answer!Idents)
      /\ \A j \in DOMAIN Selected :
            /\ Selected[j].name = Answer!Idents[j].name
            /\ Selected[j].alias = Answer!Idents[j].alias
            /\ Selected[j].qualifier = Answer!Idents[j].qualifier
            /\ Selected[j].tmp = FALSE
  BY SelectedPromised
<1>2. IsSeq(Selected) /\ Len(Selected) \in Nat /\ DOMAIN Selected = 1..Len(Selected)
  BY <1>1, SeqFacts DEF IsBlock
<1>3. IsBlock(AllColumns)
  BY <1>1, FilterColumnsRead, CombinedColumns DEF AllColumns
<1> DEFINE filtering == GetFilterColumns(query.where)
           w == query.where.args[1]
           Known(c) == \E k \in DOMAIN Selected :
                     \/ Selected[k].name = c.name
                     \/ Selected[k].alias # <<>> /\ Selected[k].alias = c.name
           S == {i \in DOMAIN filtering : ~Known(filtering[i])}
           kept == AtPlaces(filtering, S)
           tmps == [i \in DOMAIN kept |-> [kept[i] EXCEPT !.tmp = TRUE]]
<1>4. AllColumns = Selected \o tmps
  BY Zenon DEF AllColumns, CombineColumns, Keep, Map
<1>5. Answer!PromisedFilter
  BY DEF Answer!Promised
<1>6. CASE query.where = None
  <2>1. ~IsFunction(query.where) /\ ~Filtering
    BY <1>6 DEF IsFunction, None, Filtering, Filter, GetFilter
  <2>2. filtering = <<>>
    BY <2>1 DEF GetFilterColumns
  <2>3. S = {}
    BY <2>2
  <2>4. kept = <<>>
    BY <2>3, NoneKept
  <2>5. tmps = <<>>
    <3>1. DOMAIN kept = {}
      BY <2>4, NoneIsSeq
    <3> HIDE DEF kept
    <3> QED
      BY <3>1, NothingMapped
  <2>6. Selected \o tmps = Selected
    BY <1>2, <2>5, NothingJoined
  <2>7. Selected # <<>>
    <3>1. Answer!Idents # <<>>
      BY <1>5, <1>6, <2>1 DEF Answer!PromisedFilter, Answer!IsFunction, IsFunction
    <3> QED
      BY <1>1, <1>2, <3>1, NodesPromised, SeqFacts
  <2> QED
    BY <1>1, <1>3, <1>4, <2>1, <2>6, <2>7
<1>7. CASE query.where # None
  <2>1. /\ IsFunction(query.where) /\ IsIdentifier(w)
        /\ \/ Answer!KnownId(w)
           \/ /\ w.name \in {Answer!Title(Answer!Idents[i]) : i \in DOMAIN Answer!Idents}
              /\ ~Compound(w)
    BY <1>5, <1>7 DEF Answer!PromisedFilter, Answer!IsFunction, IsFunction, Answer!IsIdentifier,
        IsIdentifier, Answer!None, None, Answer!Compound, Compound
  <2>2. Filtering
    BY <1>7, <2>1 DEF Filtering, Filter, GetFilter
  <2> DEFINE c == ColumnOf(w)
  <2>3. filtering = <<c>>
    BY <2>1 DEF GetFilterColumns
  <2>4. /\ c = Column(w.name, w.alias, w.qualifier, FALSE, <<>>)
        /\ c.name = w.name /\ c.qualifier = w.qualifier
    BY DEF ColumnOf, Column
  <2> HIDE DEF c
  <2>5. DOMAIN <<c>> = {1} /\ <<c>>[1] = c /\ <<c>> \in Seq({c}) /\ Len(<<c>>) = 1
    OBVIOUS
  <2>6. CASE Known(c)
    <3>1. S = {}
      BY <2>3, <2>5, <2>6
    <3>2. tmps = <<>>
      <4>1. DOMAIN kept = {}
        BY <3>1, NoneKept, NoneIsSeq
      <4> HIDE DEF kept
      <4> QED
        BY <4>1, NothingMapped
    <3>3. Selected \o tmps = Selected
      BY <1>2, <3>2, NothingJoined
    <3>4. Selected # <<>>
      BY <2>6, NoneIsSeq
    <3>5. AllColumns = Selected
      BY <1>4, <3>3
    <3>6. \E k \in DOMAIN AllColumns :
              \/ AllColumns[k].name = w.name
              \/ AllColumns[k].alias # <<>> /\ AllColumns[k].alias = w.name
      BY <2>4, <2>6, <3>5
    <3> HIDE DEF S, kept, tmps
    <3> QED
      BY <1>1, <1>3, <3>4, <3>5, <3>6
  <2>7. CASE ~Known(c)
    <3>1. S = DOMAIN <<c>>
      BY <2>3, <2>5, <2>7
    <3>2. kept = <<c>>
      BY <2>3, <2>5, <3>1, AllKept, SeqOfAnything
    <3> DEFINE t == tmps[1]
    <3>3. DOMAIN tmps = {1} /\ t = [c EXCEPT !.tmp = TRUE]
      BY <2>5, <3>2
    <3>4. tmps = [i \in 1..1 |-> tmps[i]]
      BY <3>2, <3>3
    <3>5. IsSeq(tmps) /\ Len(tmps) = 1
      BY <3>4, SeqIf
    <3>6. t.tmp = TRUE /\ t.name = w.name /\ t.qualifier = w.qualifier
      <4> DEFINE yes == TRUE
      <4> HIDE DEF yes, t
      <4>1. t = [c EXCEPT !.tmp = yes]
        BY <3>3 DEF yes
      <4>2. t.tmp = yes /\ t.name = w.name /\ t.qualifier = w.qualifier
        BY ONLY <2>4, <4>1 DEF Column
      <4> QED
        BY <4>2 DEF yes
    <3>7. Answer!KnownId(w)
      <4>1. SUFFICES ASSUME w.name \in {Answer!Title(Answer!Idents[i]) : i \in DOMAIN Answer!Idents}
                     PROVE  FALSE
        BY <2>1
      <4>2. PICK i \in DOMAIN Answer!Idents : w.name = Answer!Title(Answer!Idents[i])
        BY <4>1
      <4>3. Known(c)
        BY <1>1, <2>4, <4>2 DEF Answer!Title
      <4> QED
        BY <2>7, <4>3
    <3> HIDE DEF S, kept, tmps, t, Known, filtering
    <3>8. IsSeq(AllColumns) /\ Len(AllColumns) = Len(Selected) + 1
      <4>1. Len(Selected \o tmps) = Len(Selected) + Len(tmps) /\ IsSeq(Selected \o tmps)
        BY <1>2, <3>5, SeqsJoined
      <4> QED
        BY <1>4, <3>5, <4>1
    <3>9. \A j \in DOMAIN Selected : j \in DOMAIN AllColumns /\ AllColumns[j] = Selected[j]
      BY <1>2, <1>4, <3>5, SeqsJoined
    <3>10. Len(Selected) + 1 \in DOMAIN AllColumns /\ AllColumns[Len(Selected) + 1] = t
      <4>1. \A i \in DOMAIN tmps : /\ Len(Selected) + i \in DOMAIN AllColumns
                                   /\ AllColumns[Len(Selected) + i] = tmps[i]
        BY <1>2, <1>4, <3>5, SeqsJoined
      <4>2. 1 \in DOMAIN tmps
        BY <3>3
      <4> QED
        BY <4>1, <4>2 DEF t
    <3>11. AllColumns # <<>>
      BY <3>10, NoneIsSeq
    <3>12. \A j \in DOMAIN Answer!Idents :
               /\ j \in DOMAIN AllColumns /\ AllColumns[j].tmp = FALSE
               /\ AllColumns[j].name = Answer!Idents[j].name
               /\ AllColumns[j].alias = Answer!Idents[j].alias
               /\ AllColumns[j].qualifier = Answer!Idents[j].qualifier
      BY <1>1, <3>9
    <3>13. Len(AllColumns) = Len(Answer!Idents) + 1 /\ AllColumns[Len(AllColumns)] = t
      BY <1>1, <3>8, <3>10
    <3>14. \E k \in DOMAIN AllColumns : AllColumns[k].name = w.name
      BY <3>6, <3>10
    <3> HIDE DEF w
    <3>15. \E k \in DOMAIN AllColumns :
               \/ AllColumns[k].name = w.name
               \/ AllColumns[k].alias # <<>> /\ AllColumns[k].alias = w.name
      BY <3>14
    <3>16. /\ Len(AllColumns) = Len(Answer!Idents) + 1
           /\ AllColumns[Len(AllColumns)].tmp /\ Filtering
           /\ AllColumns[Len(AllColumns)].name = w.name
           /\ AllColumns[Len(AllColumns)].qualifier = w.qualifier
           /\ Answer!KnownId(w)
      BY <2>2, <3>6, <3>7, <3>13
    <3> QED
      BY <1>3, <3>11, <3>12, <3>15, <3>16 DEF w
  <2> QED
    BY <2>6, <2>7
<1> QED
  BY <1>6, <1>7

-----------------------------------------------------------------------------
(* The table is read.                                                      *)

LEMMA IntAsIs ==
  ASSUME NEW n \in Nat, n < IntSize \div 2
  PROVE  GetInt(n) = n
<1> DEFINE h == IntSize \div 2
<1>1. IntSize \in Nat \ {0} /\ h \in Nat /\ IntSize = 2 * h
  BY LettersAssumption
<1> HIDE DEF h
<1>2. n < h
  BY DEF h
<1>3. n % IntSize = n
  BY <1>1, <1>2
<1>4. GetInt(n) = n
  <2>1. ~(n % IntSize >= h)
    BY <1>1, <1>2, <1>3
  <2> QED
    BY <1>3, <2>1 DEF GetInt, h
<1> QED
  BY <1>4

LEMMA TablePromised ==
  ASSUME query \in Queries, table \in Tables, Answer!Promised
  PROVE  /\ Answer!Size \in Nat /\ Answer!Size < IntSize \div 2
         /\ \A c \in DOMAIN table : /\ IsSeq(table[c]) /\ Len(table[c]) = Answer!Size
                                    /\ DOMAIN table[c] = 1..Answer!Size
                                    /\ \A i \in 1..Answer!Size : table[c][i] \in Seq(Nat \ {0})
         /\ Rectangular /\ SoundQuery
<1> DEFINE S == Answer!Size
<1>1. \A c \in DOMAIN table : table[c] \in Seq(Seq(Nat \ {0})) /\ Len(table[c]) = S
  BY TablesAssumption DEF Answer!Promised
<1>2. S < IntSize \div 2
  BY DEF Answer!Promised
<1>3. \E c \in DOMAIN table : TRUE
  <2>1. PICK k : k \in DOMAIN AllColumns
    <3>1. IsBlock(AllColumns) /\ AllColumns # <<>>
      BY ColumnsPromised
    <3> QED
      BY <3>1, SeqFacts DEF IsBlock
  <2>2. DOMAIN AllColumns = 1..Len(AllColumns) /\ Len(AllColumns) \in Nat
    BY ColumnsPromised, SeqFacts DEF IsBlock
  <2>3. CASE Len(AllColumns) = Len(Answer!Idents)
    <3>1. k \in DOMAIN Answer!Idents
      BY <2>1, <2>2, <2>3, NodesPromised, SeqFacts
    <3> QED
      BY <3>1, NamesPromised
  <2>4. CASE Answer!KnownId(query.where.args[1])
    BY <2>4 DEF Answer!KnownId
  <2> QED
    BY <2>3, <2>4, ColumnsPromised
<1>4. S \in Nat
  BY <1>1, <1>3, LenProperties
<1> HIDE DEF S
<1>5. \A c \in DOMAIN table : /\ IsSeq(table[c]) /\ DOMAIN table[c] = 1..S
                              /\ \A i \in 1..S : table[c][i] \in Seq(Nat \ {0})
  <2> SUFFICES ASSUME NEW c \in DOMAIN table
               PROVE  /\ IsSeq(table[c]) /\ DOMAIN table[c] = 1..S
                      /\ \A i \in 1..S : table[c][i] \in Seq(Nat \ {0})
    OBVIOUS
  <2> DEFINE f == table[c]
             V == Seq(Nat \ {0})
  <2> HIDE DEF f, V
  <2>1. f \in Seq(V) /\ Len(f) = S
    BY <1>1 DEF f, V
  <2>2. IsSeq(f) /\ DOMAIN f = 1..S
    BY <2>1, SeqOfAnything, LenProperties
  <2>3. \A i \in 1..S : f[i] \in V
    BY <2>1, ElementOfSeq
  <2> QED
    BY <2>2, <2>3 DEF f, V
<1>6. Rectangular
  BY <1>1 DEF Rectangular
<1>7. SoundQuery
  <2>1. query.table.kind = "identifier"
    BY DEF Answer!Promised, Answer!PromisedNames
  <2>2. Answer!PromisedFilter
    BY DEF Answer!Promised
  <2>3. IsFunction(query.where) => /\ IsIdentifier(query.where.args[1])
                                   /\ query.where.args[2].kind \notin {"integer", "number"}
    BY <2>2 DEF Answer!PromisedFilter, IsFunction, IsIdentifier, Answer!IsIdentifier, Answer!None
  <2> QED
    BY <2>1, <2>3 DEF SoundQuery
<1> QED
  BY <1>1, <1>2, <1>4, <1>5, <1>6, <1>7 DEF S

\* A query that is within the promise gets as far as the files.
LEMMA QueryRuns ==
  ASSUME query \in Queries, table \in Tables, Answer!Promised
  PROVE  /\ ~WrongFunction(query.select) /\ ~WrongFilter(query.where)
         /\ query.table.kind = "identifier"
         /\ ~WrongPosition(Selected, query.groupBy) /\ ~SelectFails
<1>1. Answer!PromisedNames /\ Answer!PromisedFilter /\ Answer!PromisedGroups
  BY DEF Answer!Promised
<1>2. ~WrongFunction(query.select)
  <2> SUFFICES ASSUME NEW i \in DOMAIN query.select, IsFunction(query.select[i])
               PROVE  query.select[i].name = CountName
    BY DEF WrongFunction
  <2>1. query.select = Answer!Nodes
    BY <1>1 DEF Answer!PromisedNames
  <2>2. CASE i \in DOMAIN Answer!Idents
    <3> DEFINE s == query.select
               T == {k \in DOMAIN s : IsIdentifier(s[k])}
    <3>1. IsSeq(s)
      BY QueriesAssumption DEF IsSeq
    <3>2. Answer!Idents = AtPlaces(s, T)
      BY SameNodes DEF Keep
    <3>3. T \in SUBSET DOMAIN s /\ \A l \in T : IsIdentifier(s[l])
      OBVIOUS
    <3> HIDE DEF s, T
    <3>4. \A k \in DOMAIN AtPlaces(s, T) : \E l \in T : AtPlaces(s, T)[k] = s[l]
      BY <3>1, <3>3, SeqKept
    <3>5. IsIdentifier(Answer!Idents[i])
      BY <2>2, <3>2, <3>3, <3>4
    <3>6. Answer!Nodes[i] = Answer!Idents[i]
      BY <2>2, NodesPromised
    <3> QED
      BY <2>1, <3>5, <3>6 DEF IsIdentifier, IsFunction
  <2>3. CASE i - Len(Answer!Idents) \in DOMAIN Functions
    <3> DEFINE f == i - Len(Answer!Idents)
    <3>1. i \in Int /\ Len(Answer!Idents) \in Int
      BY <2>1, NodesPromised, SeqFacts
    <3>2. Len(Answer!Idents) + f = i
      BY <3>1
    <3>3. Answer!Nodes[i] = Functions[f]
      BY <2>3, <3>2, NodesPromised
    <3> QED
      BY <2>1, <2>3, <3>3, NamesPromised
  <2> QED
    BY <2>1, <2>2, <2>3, NodesPromised
<1>3. ~WrongFilter(query.where)
  BY <1>1 DEF WrongFilter, Answer!PromisedFilter, IsFunction, Answer!None
<1>4. query.table.kind = "identifier"
  BY <1>1 DEF Answer!PromisedNames
<1>5. ~WrongPosition(Selected, query.groupBy)
  <2> SUFFICES ASSUME NEW k \in DOMAIN query.groupBy, query.groupBy[k].kind = "integer"
               PROVE  GetInt(query.groupBy[k].value) \in 1..Len(Selected)
    BY DEF WrongPosition, Positions
  <2>1. query.groupBy # <<>>
    BY NoneIsSeq
  <2>2. query.groupBy[k].value \in DOMAIN Answer!Idents
    BY <1>1, <2>1 DEF Answer!PromisedGroups, Answer!IsIdentifier
  <2> DEFINE v == query.groupBy[k].value
             n == Len(Answer!Idents)
  <2>3. v \in 1..n /\ n \in Nat
    BY <2>2, NodesPromised, SeqFacts
  <2>4. n < IntSize \div 2
    <3>1. n + Len(Functions) \in 1..((IntSize \div 2) - 1) /\ Len(Functions) \in {0, 1}
      BY NodesPromised
    <3>2. IntSize \div 2 \in Int
      BY LettersAssumption
    <3> HIDE DEF n
    <3> QED
      BY <2>3, <3>1, <3>2
  <2> HIDE DEF v, n
  <2>5. v \in Nat /\ v < IntSize \div 2
    <3>1. IntSize \div 2 \in Int
      BY LettersAssumption
    <3> QED
      BY <2>3, <2>4, <3>1
  <2>6. GetInt(v) = v
    BY <2>5, IntAsIs
  <2>7. Len(Selected) = n
    BY SelectedPromised DEF n
  <2> QED
    BY <2>3, <2>6, <2>7 DEF v
<1>6. ~SelectFails
  <2>1. query.table.name = TableName /\ ~(Compound(query.table) /\ query.table.qualifier # DefaultDB)
    BY <1>1 DEF Answer!PromisedNames, Compound
  <2>2. AllColumns # <<>>
    BY ColumnsPromised
  <2>3. ASSUME NEW k \in DOMAIN AllColumns
        PROVE  /\ AllColumns[k].qualifier \in {<<>>, TableName, query.table.alias}
               /\ AllColumns[k].name \in DOMAIN table
    <3>1. DOMAIN AllColumns = 1..Len(AllColumns) /\ Len(AllColumns) \in Nat
      BY ColumnsPromised, SeqFacts DEF IsBlock
    <3>2. CASE k \in DOMAIN Answer!Idents
      BY <3>2, NamesPromised, ColumnsPromised
    <3>3. CASE k \notin DOMAIN Answer!Idents
      <4>1. DOMAIN Answer!Idents = 1..Len(Answer!Idents) /\ Len(Answer!Idents) \in Nat
        BY NodesPromised, SeqFacts
      <4>0. \/ Len(AllColumns) = Len(Answer!Idents)
            \/ /\ Len(AllColumns) = Len(Answer!Idents) + 1
               /\ AllColumns[Len(AllColumns)].name = query.where.args[1].name
               /\ AllColumns[Len(AllColumns)].qualifier = query.where.args[1].qualifier
               /\ Answer!KnownId(query.where.args[1])
        BY ColumnsPromised
      <4>2. k = Len(AllColumns) /\ Len(AllColumns) # Len(Answer!Idents)
        <5> DEFINE m == Len(AllColumns)
                   l == Len(Answer!Idents)
        <5>1. m = l \/ m = l + 1
          BY <4>0
        <5>2. k \in 1..m /\ m \in Nat /\ l \in Nat /\ k \notin 1..l
          BY <3>1, <3>3, <4>1
        <5> HIDE DEF m, l
        <5>3. k = m /\ m # l
          BY ONLY <5>1, <5>2
        <5> QED
          BY <5>3 DEF m, l
      <4>3. /\ AllColumns[k].name = query.where.args[1].name
            /\ AllColumns[k].qualifier = query.where.args[1].qualifier
            /\ Answer!KnownId(query.where.args[1])
        BY <4>0, <4>2
      <4> QED
        BY <4>3 DEF Answer!KnownId
    <3> QED
      BY <3>2, <3>3
  <2> QED
    BY <2>1, <2>2, <2>3 DEF SelectFails, Compound
<1> QED
  BY <1>2, <1>3, <1>4, <1>5, <1>6

LEMMA FirstPart ==
  ASSUME NEW f, IsSeq(f)
  PROVE  SubSeq(f, 1, Len(f)) = f
<1> DEFINE R == Range(f)
<1>1. f \in Seq(R)
  BY DEF IsSeq
<1> HIDE DEF R
<1> QED
  BY <1>1

\* Files of the same length are read as they are.
LEMMA RowsRead ==
  ASSUME query \in Queries, table \in Tables, Answer!Promised
  PROVE  Reads(ReadColumns(table, AllColumns), AllRows)
<1> DEFINE cols == AllColumns
           lens == {Len(table[cols[k].name]) : k \in DOMAIN cols}
           all == Min(lens)
           S == {k \in DOMAIN cols : Len(table[cols[k].name]) > all}
           longer == Increasing(S)
           Rest(k) == IF k \in DOMAIN longer
                      THEN <<table[cols[longer[k]].name][all + 1]>> ELSE <<>>
           D == [k \in DOMAIN cols |-> SubSeq(table[cols[k].name], 1, all) \o Rest(k)]
           b == ReadColumns(table, cols)
<1>1. b = Refilled(cols, D)
  BY DEF ReadColumns, Refilled
<1>2. \A k \in DOMAIN cols : /\ cols[k].name \in DOMAIN table
                             /\ IsSeq(table[cols[k].name])
                             /\ Len(table[cols[k].name]) = Answer!Size
  BY QueryRuns, TablePromised DEF SelectFails
<1>3. IsBlock(cols) /\ cols # <<>>
  BY ColumnsPromised
<1>4. lens = {Answer!Size}
  <2>1. 1 \in DOMAIN cols
    BY <1>3, SeqFacts DEF IsBlock
  <2> QED
    BY <1>2, <2>1
<1>5. all = Answer!Size /\ all \in Nat
  <2>1. {Answer!Size} \in SUBSET Nat
    BY TablePromised
  <2>2. Min({Answer!Size}) \in {Answer!Size}
    BY <2>1, MinOf
  <2> QED
    BY <1>4, <2>2, TablePromised
<1> HIDE DEF all, lens
<1>6. S = {}
  BY <1>2, <1>5
<1>7. DOMAIN longer = {}
  BY <1>6, NothingIncreasing
<1>8. \A k \in DOMAIN cols : Rest(k) = <<>>
  BY <1>7
<1> HIDE DEF Rest, longer, S
<1>9. ASSUME NEW k \in DOMAIN cols PROVE D[k] = table[cols[k].name]
  <2> DEFINE f == table[cols[k].name]
  <2>1. D[k] = SubSeq(f, 1, all) \o <<>>
    BY <1>8
  <2>2. IsSeq(f) /\ Len(f) = all
    BY <1>2, <1>5
  <2> HIDE DEF f, all
  <2>3. SubSeq(f, 1, all) = f
    BY <2>2, FirstPart
  <2> QED
    BY <2>1, <2>2, <2>3, NothingJoined DEF f
<1> HIDE DEF D
<1>10. \A k \in DOMAIN cols : IsSeq(D[k])
  BY <1>2, <1>9
<1>11. /\ DOMAIN b = DOMAIN cols
       /\ \A k \in DOMAIN cols :
            /\ b[k].data = D[k] /\ b[k].tmp = cols[k].tmp
            /\ b[k].name = cols[k].name /\ b[k].alias = cols[k].alias
  BY <1>1, <1>3, <1>10, OtherData
<1>12. ASSUME NEW k \in DOMAIN cols
       PROVE  b[k].data = [i \in DOMAIN AllRows |-> table[cols[k].name][AllRows[i]]]
  <2>1. b[k].data = table[cols[k].name]
    BY <1>9, <1>11
  <2>2. table[cols[k].name] = [i \in 1..Answer!Size |-> table[cols[k].name][i]]
    BY <1>2, SeqFacts
  <2> QED
    BY <2>1, <2>2 DEF AllRows
<1> HIDE DEF b
<1>13. /\ DOMAIN b = DOMAIN AllColumns
       /\ \A j \in DOMAIN b :
          /\ b[j].name = AllColumns[j].name /\ b[j].alias = AllColumns[j].alias
          /\ b[j].tmp = AllColumns[j].tmp
          /\ b[j].data = [k \in DOMAIN AllRows |-> table[AllColumns[j].name][AllRows[k]]]
  BY <1>11, <1>12
<1> QED
  BY <1>13 DEF Reads, HasColumnsRead, b

-----------------------------------------------------------------------------
(* The rows that pass the filter.                                          *)

\* The filter of a query that is within the promise.
LEMMA FilterPromised ==
  ASSUME Answer!Promised
  PROVE  /\ ~Filtering => query.where = None
         /\ Filtering =>
               LET w == query.where.args[1]
               IN  /\ IsFunction(query.where) /\ Filter = query.where
                   /\ IsIdentifier(w)
                   /\ \/ /\ Answer!KnownId(w)
                         /\ Compound(w) => Answer!NotAName(FullName(w))
                      \/ /\ w.name \in {Answer!Title(Answer!Idents[i]) : i \in DOMAIN Answer!Idents}
                         /\ ~Compound(w)
                   /\ query.where.args[2].kind \notin {"integer", "number"}
                   /\ FilterValue(query.where.args[2]) = Answer!Wanted(query.where.args[2])
                   /\ ~(IsIdentifier(query.where.args[2]) /\ Compound(query.where.args[2]))
<1>1. Answer!PromisedFilter
  BY DEF Answer!Promised
<1>2. CASE query.where = None
  <2>1. ~Filtering
    BY <1>2 DEF Filtering, Filter, GetFilter, IsFunction, None
  <2> QED
    BY <1>2, <2>1
<1>3. CASE query.where # None
  <2> DEFINE w == query.where.args[1]
             v == query.where.args[2]
  <2>1. /\ IsFunction(query.where) /\ IsIdentifier(w)
        /\ \/ /\ Answer!KnownId(w)
              /\ Compound(w) => Answer!NotAName(FullName(w))
           \/ /\ w.name \in {Answer!Title(Answer!Idents[i]) : i \in DOMAIN Answer!Idents}
              /\ ~Compound(w)
        /\ v.kind = "string" \/ (IsIdentifier(v) /\ ~Compound(v))
    BY <1>1, <1>3 DEF Answer!PromisedFilter, Answer!IsFunction, IsFunction, Answer!IsIdentifier,
        IsIdentifier, Answer!None, None, Answer!Compound, Compound, Answer!FullName, FullName
  <2>2. Filter = query.where /\ Filtering
    BY <1>3, <2>1 DEF Filtering, Filter, GetFilter
  <2> HIDE DEF v
  <2>3. v.kind \notin {"integer", "number"} /\ ~(IsIdentifier(v) /\ Compound(v))
    BY <2>1 DEF IsIdentifier
  <2>4. FilterValue(v) = Answer!Wanted(v)
    BY <2>1 DEF IsIdentifier, FilterValue, Answer!Wanted
  <2> QED
    BY <2>1, <2>2, <2>3, <2>4 DEF v
<1> QED
  BY <1>2, <1>3

\* Whatever the filter takes for its column has the values that the name means.
LEMMA FilterColumnPromised ==
  ASSUME query \in Queries, table \in Tables, Answer!Promised, Filtering,
         NEW b, NEW is, Reads(b, is)
  PROVE  LET w == query.where.args[1]
         IN  /\ FilterColumns(b, w) # {}
             /\ \A f \in FilterColumns(b, w) : AllColumns[f].name = Answer!ColumnNamed(w.name)
<1> DEFINE w == query.where.args[1]
           n == w.name
           full == FullName(w)
<1>1. \/ /\ Answer!KnownId(w)
         /\ Compound(w) => Answer!NotAName(full)
      \/ /\ n \in {Answer!Title(Answer!Idents[i]) : i \in DOMAIN Answer!Idents}
         /\ ~Compound(w)
  BY FilterPromised
<1>2. ~Compound(w) => full = n
  BY DEF FullName
<1>3. /\ DOMAIN b = DOMAIN AllColumns
      /\ \A j \in DOMAIN b : b[j].name = AllColumns[j].name /\ b[j].alias = AllColumns[j].alias
  BY DEF Reads, HasColumnsRead
<1>4. \A f : f \in FilterColumns(b, w) <=> /\ f \in DOMAIN AllColumns
                                           /\ \/ AllColumns[f].name \in {full, n}
                                              \/ AllColumns[f].alias = full
  BY <1>3 DEF FilterColumns
<1>5. \E k \in DOMAIN AllColumns :
          \/ AllColumns[k].name = n
          \/ AllColumns[k].alias # <<>> /\ AllColumns[k].alias = n
  BY ColumnsPromised
<1>6. \A k \in DOMAIN AllColumns :
          \/ /\ k \in DOMAIN Answer!Idents
             /\ AllColumns[k].name = Answer!Idents[k].name
             /\ AllColumns[k].alias = Answer!Idents[k].alias
          \/ AllColumns[k].name = n /\ Answer!KnownId(w)
  <2>1. \/ Len(AllColumns) = Len(Answer!Idents)
        \/ /\ Len(AllColumns) = Len(Answer!Idents) + 1
           /\ AllColumns[Len(AllColumns)].name = n
           /\ Answer!KnownId(w)
    BY ColumnsPromised
  <2>2. \A j \in DOMAIN Answer!Idents : /\ AllColumns[j].name = Answer!Idents[j].name
                                        /\ AllColumns[j].alias = Answer!Idents[j].alias
    BY ColumnsPromised
  <2>3. DOMAIN AllColumns = 1..Len(AllColumns) /\ Len(AllColumns) \in Nat
    BY ColumnsPromised, SeqFacts DEF IsBlock
  <2>4. DOMAIN Answer!Idents = 1..Len(Answer!Idents) /\ Len(Answer!Idents) \in Nat
    BY NodesPromised, SeqFacts
  <2> SUFFICES ASSUME NEW k \in DOMAIN AllColumns, k \notin DOMAIN Answer!Idents
               PROVE  AllColumns[k].name = n /\ Answer!KnownId(w)
    BY <2>2
  <2> DEFINE m == Len(AllColumns)
             l == Len(Answer!Idents)
  <2> HIDE DEF m, l, n, w
  <2>5. k = m /\ m # l
    <3>1. m = l \/ m = l + 1
      BY <2>1 DEF m, l
    <3>2. k \in 1..m /\ m \in Nat /\ l \in Nat /\ k \notin 1..l
      BY <2>3, <2>4 DEF m, l
    <3> QED
      BY ONLY <3>1, <3>2
  <2> QED
    BY <2>1, <2>5 DEF m, l
<1>7. \A i \in DOMAIN Answer!Idents :
          /\ Answer!Idents[i].name \in DOMAIN table /\ Answer!Idents[i].name # <<>>
          /\ Answer!Idents[i].alias \notin DOMAIN table
          /\ i \in DOMAIN Answer!Header
          /\ Answer!Header[i] = Answer!Title(Answer!Idents[i])
  BY NodesPromised, NamesPromised DEF Answer!Title
<1>8. CASE n \in DOMAIN table /\ n # <<>>
  <2>1. Answer!ColumnNamed(n) = n
    BY <1>7, <1>8 DEF Answer!ColumnNamed
  <2>2. FilterColumns(b, w) # {}
    <3>1. PICK k \in DOMAIN AllColumns :
              \/ AllColumns[k].name = n
              \/ AllColumns[k].alias # <<>> /\ AllColumns[k].alias = n
      BY <1>5
    <3>2. AllColumns[k].name = n
      BY <1>6, <1>7, <1>8, <3>1
    <3> QED
      BY <1>4, <3>2
  <2>3. ASSUME NEW f \in FilterColumns(b, w) PROVE AllColumns[f].name = n
    <3>1. CASE AllColumns[f].name = n
      BY <3>1
    <3>2. CASE AllColumns[f].name # n
      <4>1. /\ f \in DOMAIN Answer!Idents
            /\ AllColumns[f].name = Answer!Idents[f].name
            /\ AllColumns[f].alias = Answer!Idents[f].alias
            /\ full \in {AllColumns[f].name, AllColumns[f].alias}
        BY <1>4, <1>6, <3>2
      <4>2. CASE Compound(w)
        <5>1. full \notin DOMAIN table /\ full # <<>> /\ full \notin Answer!Titles
          BY <1>1, <4>2 DEF Answer!NotAName
        <5>2. full = Answer!Idents[f].alias
          BY <1>7, <4>1, <5>1
        <5>3. full = Answer!Header[f]
          BY <1>7, <4>1, <5>1, <5>2 DEF Answer!Title
        <5> QED
          BY <1>7, <4>1, <5>1, <5>3 DEF Answer!Titles
      <4>3. CASE ~Compound(w)
        BY <1>2, <1>7, <1>8, <3>2, <4>1, <4>3
      <4> QED
        BY <4>2, <4>3
    <3> QED
      BY <3>1, <3>2
  <2> QED
    BY <2>1, <2>2, <2>3
<1>9. CASE ~(n \in DOMAIN table /\ n # <<>>)
  <2>1. ~Answer!KnownId(w)
    BY <1>9 DEF Answer!KnownId
  <2>2. PICK i \in DOMAIN Answer!Idents : n = Answer!Title(Answer!Idents[i])
    BY <1>1, <2>1
  <2>3. n = Answer!Idents[i].alias /\ n # <<>> /\ full = n
    BY <1>1, <1>2, <1>7, <1>9, <2>1, <2>2 DEF Answer!Title
  <2>4. \A k \in DOMAIN Answer!Idents : Answer!Idents[k].alias = n => k = i
    <3> SUFFICES ASSUME NEW k \in DOMAIN Answer!Idents, Answer!Idents[k].alias = n PROVE k = i
      OBVIOUS
    <3>1. Answer!Header[k] = n /\ Answer!Header[i] = n
      BY <1>7, <2>2, <2>3 DEF Answer!Title
    <3> QED
      BY <1>7, <3>1, NamesPromised
  <2>5. Answer!ColumnNamed(n) = Answer!Idents[i].name
    <3> DEFINE renamed == {k \in DOMAIN Answer!Idents : Answer!Idents[k].alias = n}
    <3>1. renamed = {i}
      BY <2>3, <2>4
    <3>2. (CHOOSE k \in renamed : TRUE) = i
      BY <3>1
    <3> QED
      BY <2>3, <3>1, <3>2 DEF Answer!ColumnNamed
  <2>6. FilterColumns(b, w) # {}
    BY <1>4, <1>5, <2>3
  <2>7. ASSUME NEW f \in FilterColumns(b, w) PROVE AllColumns[f].name = Answer!Idents[i].name
    <3>1. /\ f \in DOMAIN Answer!Idents
          /\ AllColumns[f].name = Answer!Idents[f].name
          /\ AllColumns[f].alias = Answer!Idents[f].alias
          /\ n \in {AllColumns[f].name, AllColumns[f].alias}
      BY <1>4, <1>6, <2>1, <2>3
    <3>2. n = Answer!Idents[f].alias
      BY <1>7, <1>9, <2>3, <3>1
    <3> QED
      BY <2>4, <3>1, <3>2
  <2> QED
    BY <2>5, <2>6, <2>7
<1> QED
  BY <1>8, <1>9

LEMMA FilterAtHand ==
  ASSUME query \in Queries, table \in Tables, Answer!Promised, Filtering,
         NEW b, IsBlock(b), Reads(b, AllRows)
  PROVE  /\ ~FilterFails(b, Filter)
         /\ Reads(FilterBlock(b, Filter), MatchingPlaces)
<1> DEFINE w == query.where.args[1]
           v == query.where.args[2]
           S == FilterColumns(b, w)
           f == FilterColumn(b, w)
           M == Answer!Matching
           n == Answer!Size
<1>1. /\ Filter = query.where /\ IsIdentifier(w) /\ IsFunction(query.where)
      /\ FilterValue(v) = Answer!Wanted(v) /\ ~(IsIdentifier(v) /\ Compound(v))
  BY FilterPromised
<1>2. S # {} /\ \A k \in S : AllColumns[k].name = Answer!ColumnNamed(w.name)
  BY FilterColumnPromised
<1>3. ~FilterFails(b, Filter)
  BY <1>1, <1>2 DEF FilterFails
<1>4. f \in DOMAIN b /\ AllColumns[f].name = Answer!ColumnNamed(w.name)
  <2>1. S \in SUBSET DOMAIN b /\ S \in SUBSET Nat
    BY SeqFacts DEF FilterColumns, IsBlock
  <2> HIDE DEF S
  <2>2. Min(S) \in S
    BY <1>2, <2>1, MinOf
  <2> QED
    BY <1>2, <2>1, <2>2 DEF FilterColumn, S
<1>5. n \in Nat /\ DOMAIN AllRows = 1..n /\ \A i \in 1..n : AllRows[i] = i
  BY TablePromised DEF AllRows
<1>6. \A j \in DOMAIN b : b[j].data = [k \in 1..n |-> table[AllColumns[j].name][k]]
  BY <1>5 DEF Reads, HasColumnsRead
<1>7. Hits(b, Filter) = M
  <2> DEFINE d == b[f].data
             nm == AllColumns[f].name
             x == FilterValue(v)
  <2>1. d = [k \in 1..n |-> table[nm][k]]
    BY <1>4, <1>6
  <2>2. Hits(b, Filter) = {i \in DOMAIN d : d[i] = x}
    BY <1>1 DEF Hits
  <2>3. query.where # Answer!None
    BY <1>1 DEF IsFunction, Answer!None
  <2>4. M = {i \in 1..n : table[nm][i] = x}
    BY <1>1, <1>4, <2>3 DEF Answer!Matching, Answer!Matches
  <2> HIDE DEF d, nm, x, n, M
  <2> QED
    BY <2>1, <2>2, <2>4
<1>8. M \in SUBSET (1..n)
  BY DEF Answer!Matching
<1> HIDE DEF n, M
<1>9. M \in SUBSET Int /\ IsFiniteSet(M)
  <2>1. IsFiniteSet(1..n)
    BY <1>5, FS_Interval
  <2>2. IsFiniteSet(M)
    BY <1>8, <2>1, FS_Subset
  <2> QED
    BY <1>5, <1>8, <2>2
<1> DEFINE is == Increasing(M)
           c == FilterBlock(b, Filter)
           m == Cardinality(M)
<1>10. m \in Nat /\ DOMAIN is = 1..m /\ \A k \in 1..m : is[k] \in M
  BY <1>9, IncreasingFacts
<1>11. c = PickRows(b, is)
  BY <1>7 DEF FilterBlock
<1> HIDE DEF is, m, c
<1>12. /\ DOMAIN c = DOMAIN b
       /\ \A j \in DOMAIN b : 
             /\ c[j].data = [k \in 1..m |-> b[j].data[is[k]]]
             /\ c[j].tmp = b[j].tmp /\ c[j].name = b[j].name /\ c[j].alias = b[j].alias
  BY <1>10, <1>11, PickedRows
<1>13. \A j \in DOMAIN b : c[j].data = [k \in DOMAIN is |-> table[AllColumns[j].name][is[k]]]
  <2> SUFFICES ASSUME NEW j \in DOMAIN b
               PROVE  c[j].data = [k \in DOMAIN is |-> table[AllColumns[j].name][is[k]]]
    OBVIOUS
  <2> DEFINE d == b[j].data
             t == table[AllColumns[j].name]
  <2>1. d = [k \in 1..n |-> t[k]] /\ c[j].data = [k \in 1..m |-> d[is[k]]]
    BY <1>6, <1>12
  <2> HIDE DEF d, t
  <2>2. \A k \in 1..m : d[is[k]] = t[is[k]]
    BY <1>8, <1>10, <2>1
  <2>3. c[j].data = [k \in DOMAIN is |-> t[is[k]]]
    BY <1>10, <2>1, <2>2
  <2> QED
    BY <2>3 DEF t
<1>14. MatchingPlaces = is
  BY SameIncreasing DEF MatchingPlaces, is, M
<1>15. Reads(c, is)
  BY <1>12, <1>13 DEF Reads, HasColumnsRead
<1> QED
  BY <1>3, <1>14, <1>15 DEF c

LEMMA AllMatch ==
  ASSUME query \in Queries, table \in Tables, Answer!Promised, ~Filtering
  PROVE  AllRows = MatchingPlaces
<1> DEFINE n == Answer!Size
<1>1. query.where = None
  BY FilterPromised
<1>2. Answer!Matching = 1..n
  BY <1>1 DEF Answer!Matching, Answer!Matches, Answer!None, None
<1>3. n \in Nat
  BY TablePromised
<1> HIDE DEF n
<1>4. Increasing(1..n) = [i \in 1..n |-> i]
  BY <1>3, IncreasingInterval
<1> QED
  BY <1>2, <1>4 DEF AllRows, MatchingPlaces, n

-----------------------------------------------------------------------------
(* What GroupByStep is given.                                              *)

\* Without the temporary column the selected ones are left.
LEMMA DroppedPromised ==
  ASSUME query \in Queries, Answer!Promised, NEW b, IsBlock(b), HasColumnsRead(b)
  PROVE  /\ DOMAIN DropTmpColumns(b) = DOMAIN Answer!Idents
         /\ \A j \in DOMAIN Answer!Idents : DropTmpColumns(b)[j] = b[j]
         /\ Len(b) = Len(AllColumns)
         /\ ~Filtering => DropTmpColumns(b) = b
<1> DEFINE d == DropTmpColumns(b)
           S == {i \in DOMAIN b : ~b[i].tmp}
           l == Len(Answer!Idents)
           m == Len(AllColumns)
<1>1. d = AtPlaces(b, S)
  BY Zenon DEF DropTmpColumns, Keep
<1>2. DOMAIN Answer!Idents = 1..l /\ l \in Nat
  BY NodesPromised, SeqFacts
<1>3. DOMAIN AllColumns = 1..m /\ m \in Nat
  BY ColumnsPromised, SeqFacts DEF IsBlock
<1>4. /\ DOMAIN b = 1..m /\ IsSeq(b) /\ Len(b) = m
      /\ \A j \in 1..m : b[j].tmp = AllColumns[j].tmp
  <2>1. IsSeq(b) /\ DOMAIN b = 1..m
    BY <1>3 DEF HasColumnsRead, IsBlock
  <2>2. Len(b) \in Nat /\ DOMAIN b = 1..Len(b)
    BY <2>1, SeqFacts
  <2>3. Len(b) = m
    BY <1>3, <2>1, <2>2
  <2> QED
    BY <1>3, <2>1, <2>3 DEF HasColumnsRead
<1>5. \A j \in 1..l : j \in 1..m /\ AllColumns[j].tmp = FALSE
  BY <1>2, <1>3, ColumnsPromised
<1>6. m = l \/ (m = l + 1 /\ AllColumns[m].tmp /\ Filtering)
  BY ColumnsPromised
<1> HIDE DEF l, m, d
<1>7. CASE m = l
  <2>1. S = DOMAIN b
    BY <1>4, <1>5, <1>7
  <2>2. d = b
    BY <1>1, <1>4, <2>1, AllKept
  <2> QED
    BY <1>2, <1>4, <1>7, <2>2 DEF d, m
<1>8. CASE m = l + 1 /\ AllColumns[m].tmp /\ Filtering
  <2>1. m \in DOMAIN b
    BY <1>2, <1>4, <1>8
  <2>2. \A j \in 1..m : j # m => j \in 1..l
    BY <1>2, <1>3, <1>8
  <2>3. S = DOMAIN b \ {m}
    BY <1>4, <1>5, <1>8, <2>1, <2>2
  <2> HIDE DEF S
  <2>4. IsSeq(d) /\ Len(d) = m - 1
    BY <1>1, <1>4, <2>1, <2>3, AllButOneKept
  <2>5. \A k \in 1..(m - 1) : d[k] = b[k]
    BY <1>1, <1>4, <2>1, <2>3, AllButOneKept
  <2>6. m - 1 = l
    BY <1>2, <1>3, <1>8
  <2>7. DOMAIN d = 1..l
    BY <2>4, <2>6, SeqFacts
  <2> QED
    BY <1>2, <1>4, <1>8, <2>5, <2>6, <2>7 DEF d, m
<1> QED
  BY <1>6, <1>7, <1>8

LEMMA MatchingFacts ==
  ASSUME query \in Queries, table \in Tables, Answer!Promised
  PROVE  LET m == Cardinality(Answer!Matching)
         IN  /\ m \in Nat /\ IsFiniteSet(Answer!Matching)
             /\ Answer!Matching \in SUBSET (1..Answer!Size)
             /\ DOMAIN MatchingPlaces = 1..m
             /\ MatchingPlaces \in Bijection(1..m, Answer!Matching)
             /\ IsSeq(MatchingPlaces)
<1> DEFINE M == Answer!Matching
           n == Answer!Size
           m == Cardinality(M)
<1>1. M \in SUBSET (1..n) /\ n \in Nat
  BY TablePromised DEF Answer!Matching
<1> HIDE DEF M, n
<1>2. IsFiniteSet(M) /\ M \in SUBSET Int
  <2>1. IsFiniteSet(1..n)
    BY <1>1, FS_Interval
  <2>2. IsFiniteSet(M)
    BY <1>1, <2>1, FS_Subset
  <2> QED
    BY <1>1, <2>2
<1> DEFINE is == Increasing(M)
<1>3. /\ m \in Nat /\ is \in Seq(M) /\ DOMAIN is = 1..m
      /\ \A k \in 1..m : is[k] \in M
      /\ \A x \in M : Rank(M, x) \in 1..m /\ is[Rank(M, x)] = x
      /\ \A i, j \in 1..m : i < j => is[i] < is[j]
  BY <1>2, IncreasingFacts
<1> HIDE DEF m, is
<1>4. is \in Bijection(1..m, M)
  <2>1. is \in [1..m -> M]
    BY <1>3
  <2>2. \A i, j \in 1..m : is[i] = is[j] => i = j
    <3> SUFFICES ASSUME NEW i \in 1..m, NEW j \in 1..m, is[i] = is[j], i # j PROVE FALSE
      OBVIOUS
    <3>1. is[i] \in Int /\ is[j] \in Int
      BY <1>2, <1>3
    <3> QED
      BY <1>3, <3>1
  <2>3. \A x \in M : \E i \in 1..m : is[i] = x
    BY <1>3
  <2> QED
    BY <2>1, <2>2, <2>3 DEF Bijection, Injection, Surjection, IsInjective
<1>5. MatchingPlaces = is
  BY SameIncreasing DEF MatchingPlaces, is, M
<1>6. IsSeq(is)
  BY <1>3, SeqOfAnything
<1> QED
  BY <1>1, <1>2, <1>3, <1>4, <1>5, <1>6 DEF m, M, n

LEMMA TupleIs ==
  /\ \A x : /\ Answer!Tuple(x) = [j \in DOMAIN Answer!Idents |-> table[Answer!Idents[j].name][x]]
            /\ DOMAIN Answer!Tuple(x) = DOMAIN Answer!Idents
            /\ \A j \in DOMAIN Answer!Idents : Answer!Tuple(x)[j] = table[Answer!Idents[j].name][x]
BY DEF Answer!Tuple, Answer!Map

\* What GroupByStep is given: rows of the table, under keys that tell them apart.
LEMMA RowsPromised ==
  ASSUME query \in Queries, table \in Tables, Answer!Promised,
         NEW b, IsBlock(b), Reads(b, MatchingPlaces)
  PROVE  LET m == Cardinality(Answer!Matching)
         IN  /\ Rows(b) = m
             /\ \A i \in 1..m :
                   /\ Key(b, i) = Joined(Answer!Tuple(MatchingPlaces[i]))
                   /\ \A j \in DOMAIN Answer!Idents :
                         j \in DOMAIN b /\ b[j].data[i] = Answer!Tuple(MatchingPlaces[i])[j]
<1> DEFINE m == Cardinality(Answer!Matching)
           is == MatchingPlaces
           d == DropTmpColumns(b)
           I == Answer!Idents
<1>1. m \in Nat /\ DOMAIN is = 1..m
  BY MatchingFacts
<1> HIDE DEF m, is, d, I
<1>2. /\ HasColumnsRead(b)
      /\ \A j \in DOMAIN b : b[j].data = [k \in 1..m |-> table[AllColumns[j].name][is[k]]]
  BY <1>1 DEF Reads, is
<1>3. \A j \in DOMAIN I : j \in DOMAIN b /\ AllColumns[j].name = I[j].name
  BY <1>2, ColumnsPromised DEF HasColumnsRead, I
<1>4. \A i \in 1..m : \A j \in DOMAIN I :
          j \in DOMAIN b /\ b[j].data[i] = table[I[j].name][is[i]]
  <2> SUFFICES ASSUME NEW i \in 1..m, NEW j \in DOMAIN I
               PROVE  j \in DOMAIN b /\ b[j].data[i] = table[I[j].name][is[i]]
    OBVIOUS
  <2> DEFINE e == b[j].data
             t == table[I[j].name]
  <2>1. j \in DOMAIN b /\ e = [k \in 1..m |-> t[is[k]]]
    BY <1>2, <1>3
  <2> HIDE DEF e, t
  <2>2. e[i] = t[is[i]]
    BY <2>1
  <2> QED
    BY <2>1, <2>2 DEF e, t
<1>5. DOMAIN d = DOMAIN I /\ \A j \in DOMAIN I : d[j] = b[j]
  BY <1>2, DroppedPromised DEF d, I
<1>6. ASSUME NEW i \in 1..m PROVE Key(b, i) = Joined(Answer!Tuple(is[i]))
  <2> DEFINE t == [j \in DOMAIN d |-> d[j].data[i]]
             u == Answer!Tuple(is[i])
  <2>1. Key(b, i) = Joined(t)
    BY DEF Key, Map, d
  <2>2. u = [j \in DOMAIN I |-> table[I[j].name][is[i]]]
    BY TupleIs DEF I
  <2>3. t = u
    BY <1>4, <1>5, <2>2
  <2> QED
    BY <2>1, <2>3
<1>7. Rows(b) = m
  <2>1. b # <<>> /\ 1 \in DOMAIN b
    <3>1. IsSeq(AllColumns) /\ AllColumns # <<>>
      BY ColumnsPromised DEF IsBlock
    <3>2. 1 \in DOMAIN b
      BY <1>2, <3>1, SeqFacts DEF HasColumnsRead
    <3> QED
      BY <3>2, NoneIsSeq
  <2> DEFINE e == b[1].data
  <2>2. e = [k \in 1..m |-> table[AllColumns[1].name][is[k]]]
    BY <1>2, <2>1
  <2> HIDE DEF e
  <2>3. e = [k \in 1..m |-> e[k]]
    BY <2>2
  <2>4. Len(e) = m
    BY <1>1, <2>3, SeqIf
  <2> QED
    BY <2>1, <2>4 DEF Rows, e
<1>8. \A i \in 1..m : \A j \in DOMAIN I : Answer!Tuple(is[i])[j] = table[I[j].name][is[i]]
  BY TupleIs DEF I
<1> QED
  BY <1>4, <1>6, <1>7, <1>8 DEF m, is, I

\* Each selected column is named in GROUP BY.
LEMMA GroupingPromised ==
  ASSUME query \in Queries, table \in Tables, Answer!Promised, Grouping,
         NEW b, HasColumnsRead(b)
  PROVE  ~NotInGroupBy(b, GroupNames) /\ Len(Functions) = 1
<1>1. Answer!PromisedGroups
  BY DEF Answer!Promised
<1>2. Answer!Aggregate /\ Len(Functions) = 1
  BY <1>1, SameNodes DEF Answer!Aggregate, Grouping, Answer!PromisedGroups
<1> SUFFICES ASSUME NEW j \in DOMAIN b, ~b[j].tmp
             PROVE  {b[j].name, b[j].alias} \cap GroupNames # {}
  BY <1>2 DEF NotInGroupBy
<1> DEFINE I == Answer!Idents
           l == Len(I)
           m == Len(AllColumns)
<1>3. j \in DOMAIN I /\ b[j].name = I[j].name /\ b[j].alias = I[j].alias
  <2>1. DOMAIN I = 1..l /\ l \in Nat
    BY NodesPromised, SeqFacts
  <2>2. j \in 1..m /\ m \in Nat
    BY ColumnsPromised, SeqFacts DEF IsBlock, HasColumnsRead
  <2>3. m = l \/ (m = l + 1 /\ AllColumns[m].tmp)
    BY ColumnsPromised
  <2>4. ~AllColumns[j].tmp
    BY DEF HasColumnsRead
  <2>5. j \in 1..l
    <3> HIDE DEF l, m
    <3>1. m = l \/ (m = l + 1 /\ j # m)
      BY <2>3, <2>4
    <3> QED
      BY <2>1, <2>2, <3>1
  <2> QED
    BY <2>1, <2>5, ColumnsPromised DEF HasColumnsRead
<1>4. PICK k \in DOMAIN query.groupBy : Answer!NamesColumn(query.groupBy[k], j)
  BY <1>1, <1>2, <1>3 DEF Answer!PromisedGroups
<1> DEFINE g == query.groupBy[k]
<1>5. IsIdentifier(g) \/ (g.kind = "integer" /\ g.value \in DOMAIN I)
  BY <1>1, <1>2 DEF Answer!PromisedGroups, Answer!IsIdentifier, IsIdentifier
<1>6. CASE IsIdentifier(g)
  <2>1. g.name \in {I[j].name, I[j].alias}
    BY <1>4, <1>6 DEF Answer!NamesColumn, Answer!IsIdentifier, IsIdentifier
  <2>2. g.name \in GroupNames
    BY <1>6 DEF GroupNames, GroupByNames
  <2> QED
    BY <1>3, <2>1, <2>2
<1>7. CASE g.kind = "integer" /\ g.value \in DOMAIN I
  <2>1. I[g.value].name \in {I[j].name, I[j].alias}
    BY <1>4, <1>7 DEF Answer!NamesColumn, Answer!IsIdentifier
  <2>2. GetInt(g.value) = g.value
    <3>1. l + 1 \in 1..((IntSize \div 2) - 1) /\ IntSize \div 2 \in Int
      BY <1>2, NodesPromised, LettersAssumption
    <3>2. g.value \in 1..l /\ l \in Nat
      BY <1>7, NodesPromised, SeqFacts
    <3> DEFINE v == g.value
               h == IntSize \div 2
    <3> HIDE DEF v, h, l
    <3>3. v \in Nat /\ v < h
      BY <3>1, <3>2 DEF v, h
    <3> QED
      BY <3>3, IntAsIs DEF v, h
  <2>3. Selected[g.value].name = I[g.value].name
    BY <1>7, SelectedPromised
  <2>4. I[g.value].name \in GroupNames
    BY <1>7, <2>2, <2>3 DEF GroupNames, GroupByNames, Positions
  <2> QED
    BY <1>3, <2>1, <2>4
<1> QED
  BY <1>5, <1>6, <1>7

-----------------------------------------------------------------------------
(* The groups are those of the rows.                                       *)

\* How often x is among the first n of T.
Occurrences(T, x, n) == Cardinality({l \in 1..n : T[l] = x})

\* The groups after k rows, where T are the values of the rows.
SoFar(r, T, k) ==
    /\ \A g \in DOMAIN r : \E i \in 1..k :
          /\ r[g].key = Joined(T[i])
          /\ \A j \in DOMAIN T[i] : r[g].row[j] = T[i][j]
          /\ r[g].count = Occurrences(T, T[i], k)
    /\ \A i \in 1..k : \E g \in DOMAIN r : r[g].key = Joined(T[i])
    /\ \A g, h \in DOMAIN r : r[g].key = r[h].key => g = h

\* One row more with the same values, or with others.
LEMMA OnceMore ==
  ASSUME NEW T, NEW k \in Nat \ {0}, NEW x
  PROVE  /\ Occurrences(T, x, k - 1) \in Nat
         /\ (\A l \in 1..(k - 1) : T[l] # x) => Occurrences(T, x, k - 1) = 0
         /\ T[k] = x => Occurrences(T, x, k) = Occurrences(T, x, k - 1) + 1
         /\ T[k] # x => Occurrences(T, x, k) = Occurrences(T, x, k - 1)
<1> DEFINE before == {l \in 1..(k - 1) : T[l] = x}
           now == {l \in 1..k : T[l] = x}
<1>1. IsFiniteSet(1..(k - 1))
  <2>1. 1 \in Int /\ k - 1 \in Int
    OBVIOUS
  <2> QED
    BY <2>1, FS_Interval
<1>2. IsFiniteSet(before)
  <2>1. before \in SUBSET (1..(k - 1))
    OBVIOUS
  <2> QED
    BY <1>1, <2>1, FS_Subset
<1>3. Cardinality(before) \in Nat /\ (before = {} => Cardinality(before) = 0)
  BY <1>2, FS_CardinalityType, FS_EmptySet
<1>4. \A l \in 1..k : l = k \/ l \in 1..(k - 1)
  OBVIOUS
<1>5. \A l \in 1..(k - 1) : l \in 1..k /\ l # k
  OBVIOUS
<1>6. k \in 1..k
  OBVIOUS
<1>7. ASSUME T[k] = x PROVE Cardinality(now) = Cardinality(before) + 1
  <2>1. now = before \union {k}
    BY <1>4, <1>5, <1>6, <1>7
  <2>2. k \notin before
    BY <1>5
  <2> HIDE DEF now, before
  <2> QED
    BY <1>2, <2>1, <2>2, FS_AddElement
<1>8. ASSUME T[k] # x PROVE now = before
  BY <1>4, <1>5, <1>8
<1>9. (\A l \in 1..(k - 1) : T[l] # x) => before = {}
  OBVIOUS
<1>10. Occurrences(T, x, k - 1) = Cardinality(before) /\ Occurrences(T, x, k) = Cardinality(now)
  BY DEF Occurrences
<1> HIDE DEF before, now
<1> QED
  BY <1>3, <1>7, <1>8, <1>9, <1>10

LEMMA VisitFinds ==
  ASSUME NEW r, IsGroups(r), NEW b, NEW T, NEW k \in Nat \ {0}, SoFar(r, T, k - 1),
         \A i \in 1..k : Joined(T[i]) = Joined(T[k]) => T[i] = T[k],
         Key(b, k) = Joined(T[k]),
         \A j \in DOMAIN T[k] : j \in DOMAIN b /\ b[j].data[k] = T[k][j],
         NEW functions, Len(functions) = 1
  PROVE  SoFar(Visit(r, b, k, functions), T, k)
<1> DEFINE same == {g \in DOMAIN r : r[g].key = Key(b, k)}
           key == Joined(T[k])
           row == [j \in DOMAIN b |-> b[j].data[k]]
           x == [key |-> key, row |-> row, count |-> 1]
           v == Visit(r, b, k, functions)
           Same(i, n) == Occurrences(T, T[i], n)
<1>1. v = IF same = {} THEN Append(r, x) ELSE [r EXCEPT ![Min(same)].count = @ + 1]
  BY DEF Visit
<1>2. IsSeq(r) /\ DOMAIN r = 1..Len(r) /\ Len(r) \in Nat /\ r = [g \in 1..Len(r) |-> r[g]]
  BY SeqFacts DEF IsGroups
<1>3. \A j \in DOMAIN T[k] : row[j] = T[k][j]
  OBVIOUS
<1> HIDE DEF row
<1>4. x.key = key /\ x.count = 1 /\ x.row = row
  OBVIOUS
<1>5. \A i : T[k] = T[i] => Same(i, k) = Same(i, k - 1) + 1
  BY OnceMore
<1>6. \A i : T[k] # T[i] => Same(i, k) = Same(i, k - 1)
  BY OnceMore
<1>7. \A i \in 1..k : i = k \/ i \in 1..(k - 1)
  OBVIOUS
<1>8. (\A i \in 1..(k - 1) : i \in 1..k /\ i # k) /\ k \in 1..k
  OBVIOUS
<1>9. \A g \in DOMAIN r : \E i \in 1..(k - 1) :
          /\ r[g].key = Joined(T[i])
          /\ \A j \in DOMAIN T[i] : r[g].row[j] = T[i][j]
          /\ r[g].count = Same(i, k - 1)
  BY DEF SoFar
<1>10. \A i \in 1..(k - 1) : \E g \in DOMAIN r : r[g].key = Joined(T[i])
  BY DEF SoFar
<1>11. \A g, h \in DOMAIN r : r[g].key = r[h].key => g = h
  BY DEF SoFar
<1>12. (\A i : Same(i, k - 1) \in Nat) /\ ((\A l \in 1..(k - 1) : T[l] # T[k]) => Same(k, k - 1) = 0)
  BY OnceMore
<1> HIDE DEF v, x
<1>13. CASE same = {}
  <2>1. \A g \in DOMAIN r : r[g].key # key
    BY <1>13
  <2>2. v = Append(r, x)
    BY <1>1, <1>13
  <2>3. /\ DOMAIN v = 1..(Len(r) + 1)
        /\ (\A g \in DOMAIN r : v[g] = r[g]) /\ v[Len(r) + 1] = x
    BY <1>2, <2>2, AppendToSeq
  <2>4. \A g \in DOMAIN v : g \in DOMAIN r \/ (v[g] = x /\ g = Len(r) + 1)
    <3>1. \A g \in 1..(Len(r) + 1) : g \in 1..Len(r) \/ g = Len(r) + 1
      BY <1>2
    <3> QED
      BY <1>2, <2>3, <3>1
  <2>5. DOMAIN r \in SUBSET DOMAIN v /\ Len(r) + 1 \in DOMAIN v /\ Len(r) + 1 \notin DOMAIN r
    BY <1>2, <2>3
  <2>6. \A i \in 1..(k - 1) : T[i] # T[k]
    BY <1>10, <2>1
  <2>7. Same(k, k) = 1
    <3>2. Same(k, k - 1) = 0
      BY <1>12, <2>6
    <3>3. Same(k, k) = Same(k, k - 1) + 1
      BY <1>5
    <3> HIDE DEF Same
    <3> QED
      BY <3>2, <3>3
  <2> HIDE DEF Same, key
  <2>8. ASSUME NEW g \in DOMAIN v
        PROVE  \E i \in 1..k : /\ v[g].key = Joined(T[i])
                               /\ \A j \in DOMAIN T[i] : v[g].row[j] = T[i][j]
                               /\ v[g].count = Same(i, k)
    <3>1. CASE g \in DOMAIN r
      <4>1. PICK i \in 1..(k - 1) : /\ r[g].key = Joined(T[i])
                                    /\ \A j \in DOMAIN T[i] : r[g].row[j] = T[i][j]
                                    /\ r[g].count = Same(i, k - 1)
        BY <1>9, <3>1
      <4>2. Same(i, k) = Same(i, k - 1)
        BY <1>6, <2>6
      <4>3. v[g] = r[g] /\ i \in 1..k
        BY <1>8, <2>3, <3>1
      <4> QED
        BY <4>1, <4>2, <4>3
    <3>2. CASE v[g] = x
      BY <1>3, <1>4, <1>8, <2>7, <3>2 DEF key
    <3> QED
      BY <2>4, <3>1, <3>2
  <2>9. ASSUME NEW i \in 1..k PROVE \E g \in DOMAIN v : v[g].key = Joined(T[i])
    <3>1. CASE i = k
      BY <1>4, <2>3, <2>5, <3>1 DEF key
    <3>2. CASE i \in 1..(k - 1)
      BY <1>10, <2>3, <2>5, <3>2
    <3> QED
      BY <1>7, <3>1, <3>2
  <2>10. \A g, h \in DOMAIN v : v[g].key = v[h].key => g = h
    BY <1>4, <1>11, <2>1, <2>3, <2>4
  <2> QED
    BY <2>8, <2>9, <2>10 DEF SoFar, v, Same
<1>14. CASE same # {}
  <2> DEFINE g0 == Min(same)
             old == r[g0]
             ky == old.key
             rw == old.row
             n == old.count
             n1 == n + 1
             new == v[g0]
  <2>1. g0 \in DOMAIN r /\ r[g0].key = key
    <3>1. same \in SUBSET Nat
      BY <1>2
    <3>2. g0 \in same
      BY <1>14, <3>1, MinOf
    <3> QED
      BY <3>2
  <2>2. v = [r EXCEPT ![g0].count = n1]
    BY <1>1, <1>14
  <2> HIDE DEF same, g0
  <2>3. DOMAIN v = DOMAIN r
    BY <1>2, <2>2
  <2>4. \A h \in DOMAIN r : h # g0 => v[h] = r[h]
    BY <2>1, <2>2
  <2>5. old = [key |-> ky, row |-> rw, count |-> n] /\ n \in Nat
    BY <2>1 DEF IsGroups, IsGroup
  <2>6. new = [old EXCEPT !.count = n1]
    BY <2>1, <2>2, <2>5
  <2> HIDE DEF old, ky, rw, n, n1, new
  <2>7. new = [key |-> ky, row |-> rw, count |-> n1]
    BY ONLY <2>5, <2>6
  <2>8. v[g0].key = r[g0].key /\ v[g0].row = r[g0].row /\ v[g0].count = r[g0].count + 1
    <3>1. new.key = ky /\ new.row = rw /\ new.count = n1
      BY ONLY <2>7
    <3> QED
      BY <3>1 DEF new, ky, rw, n1, n, old
  <2>9. \A h \in DOMAIN r : v[h].key = r[h].key
    BY <2>4, <2>8
  <2> HIDE DEF Same
  <2>10. ASSUME NEW g \in DOMAIN v
         PROVE  \E i \in 1..k : /\ v[g].key = Joined(T[i])
                                /\ \A j \in DOMAIN T[i] : v[g].row[j] = T[i][j]
                                /\ v[g].count = Same(i, k)
    <3>1. PICK i \in 1..(k - 1) : /\ r[g].key = Joined(T[i])
                                  /\ \A j \in DOMAIN T[i] : r[g].row[j] = T[i][j]
                                  /\ r[g].count = Same(i, k - 1)
      BY <1>9, <2>3
    <3>2. i \in 1..k
      BY <1>8
    <3>3. CASE g = g0
      <4>1. T[i] = T[k]
        BY <2>1, <3>1, <3>2, <3>3
      <4>2. Same(i, k) = Same(i, k - 1) + 1
        BY <1>5, <4>1
      <4> QED
        BY <2>8, <3>1, <3>2, <3>3, <4>2
    <3>4. CASE g # g0
      <4>1. T[i] # T[k]
        BY <1>11, <2>1, <2>3, <3>1, <3>4
      <4>2. Same(i, k) = Same(i, k - 1)
        BY <1>6, <4>1
      <4>3. v[g] = r[g]
        BY <2>3, <2>4, <3>4
      <4> QED
        BY <3>1, <3>2, <4>2, <4>3
    <3> QED
      BY <3>3, <3>4
  <2>11. ASSUME NEW i \in 1..k PROVE \E g \in DOMAIN v : v[g].key = Joined(T[i])
    <3>1. CASE i = k
      BY <2>1, <2>3, <2>9, <3>1
    <3>2. CASE i \in 1..(k - 1)
      BY <1>10, <2>3, <2>9, <3>2
    <3> QED
      BY <1>7, <3>1, <3>2
  <2>12. \A g, h \in DOMAIN v : v[g].key = v[h].key => g = h
    BY <1>11, <2>3, <2>9
  <2> QED
    BY <2>10, <2>11, <2>12 DEF SoFar, v, Same
<1> QED
  BY <1>13, <1>14

\* All rows, if no two of them have different values and the same key.
LEMMA GroupsMet ==
  ASSUME NEW b, Rows(b) \in Nat, NEW T, NEW functions, IsSeq(functions), Len(functions) = 1,
         \A i, l \in 1..Rows(b) : Joined(T[i]) = Joined(T[l]) => T[i] = T[l],
         \A i \in 1..Rows(b) :
             /\ Key(b, i) = Joined(T[i])
             /\ \A j \in DOMAIN T[i] : j \in DOMAIN b /\ b[j].data[i] = T[i][j]
  PROVE  SoFar(GroupBlock(<<>>, b, functions), T, Rows(b)) /\ IsGroups(GroupBlock(<<>>, b, functions))
<1> DEFINE m == Rows(b)
           N == Rows(b) * Len(functions)
<1>1. N = m
  OBVIOUS
<1>0. \E met : Visits(<<>>, b, functions, N, met) /\ GroupBlock(<<>>, b, functions) = met[N]
  <2> DEFINE r == <<>>
  <2> HIDE DEF r
  <2>0. IsSeq(functions) /\ Rows(b) \in Nat
    OBVIOUS
  <2>1. \E met : Visits(r, b, functions, N, met) /\ GroupBlock(r, b, functions) = met[N]
    BY ONLY <2>0, GroupsByVisits
  <2> QED
    BY <2>1 DEF r
<1> HIDE DEF N
<1>2. PICK met : Visits(<<>>, b, functions, m, met) /\ GroupBlock(<<>>, b, functions) = met[m]
  BY <1>0, <1>1
<1>3. m \in Nat /\ m \in 0..m
  OBVIOUS
<1> HIDE DEF m
<1>4. \A k \in 0..m : met[k] = IF k = 0 THEN <<>> ELSE Visit(met[k - 1], b, k, functions)
  <2> DEFINE place(k) == ((k - 1) \div Len(functions)) + 1
             f == [k \in 0..m |-> IF k = 0 THEN <<>> ELSE Visit(met[k - 1], b, place(k), functions)]
  <2>1. met = f
    BY <1>2 DEF Visits
  <2>2. \A k \in 0..m : place(k) = k
    OBVIOUS
  <2>3. \A k \in 0..m : f[k] = IF k = 0 THEN <<>> ELSE Visit(met[k - 1], b, place(k), functions)
    OBVIOUS
  <2> HIDE DEF f, place
  <2> QED
    BY <2>1, <2>2, <2>3
<1> DEFINE Good(k) == IsGroups(met[k]) /\ SoFar(met[k], T, k)
           bad == {k \in 0..m : ~Good(k)}
<1>5. Good(0)
  <2>1. met[0] = <<>>
    BY <1>3, <1>4
  <2>2. IsGroups(<<>>) /\ DOMAIN <<>> = {}
    BY NoneIsSeq DEF IsGroups
  <2>3. SoFar(<<>>, T, 0)
    BY <2>2 DEF SoFar
  <2> QED
    BY <2>1, <2>2, <2>3
<1>6. ASSUME NEW k \in 1..m, Good(k - 1) PROVE Good(k)
  <2>1. k \in 0..m /\ k # 0 /\ k \in Nat \ {0} /\ \A i \in 1..k : i \in 1..m
    BY <1>3
  <2>2. met[k] = Visit(met[k - 1], b, k, functions)
    BY <1>4, <2>1
  <2>3. \A i \in 1..k : Joined(T[i]) = Joined(T[k]) => T[i] = T[k]
    BY <2>1 DEF m
  <2>4. /\ Key(b, k) = Joined(T[k])
        /\ \A j \in DOMAIN T[k] : j \in DOMAIN b /\ b[j].data[k] = T[k][j]
    BY DEF m
  <2>5. SoFar(met[k], T, k)
    BY <1>6, <2>1, <2>2, <2>3, <2>4, VisitFinds
  <2>6. IsGroups(met[k])
    BY <1>6, <2>2, GroupVisited
  <2> QED
    BY <2>5, <2>6
<1> HIDE DEF Good
<1>7. bad = {}
  <2> SUFFICES ASSUME bad # {} PROVE FALSE
    OBVIOUS
  <2>1. bad \in SUBSET Nat
    BY <1>3
  <2>2. PICK k \in bad : \A l \in bad : k <= l
    <3> HIDE DEF bad
    <3> QED
      BY <2>1, LeastOf
  <2>3. k \in 1..m
    BY <1>3, <1>5, <2>2
  <2>4. k - 1 \in 0..m /\ ~(k <= k - 1)
    BY <1>3, <2>3
  <2>5. Good(k - 1)
    BY <2>2, <2>4
  <2> QED
    BY <1>6, <2>2, <2>3, <2>5
<1> QED
  BY <1>2, <1>3, <1>7 DEF Good, m

-----------------------------------------------------------------------------
(* The columns of the groups.                                              *)

LEMMA ClonedColumns ==
  ASSUME NEW b, IsBlock(b), HasColumnsRead(b)
  PROVE  HasColumnsRead(CloneWithoutData(b))
<1> DEFINE D == [j \in DOMAIN b |-> <<>>]
           c == CloneWithoutData(b)
<1>1. c = Refilled(b, D)
  BY DEF CloneWithoutData, Map, Refilled
<1>2. \A j \in DOMAIN b : IsSeq(D[j])
  BY NoneIsSeq
<1> HIDE DEF c, D
<1>3. /\ DOMAIN c = DOMAIN b
      /\ \A j \in DOMAIN b : c[j].tmp = b[j].tmp /\ c[j].name = b[j].name /\ c[j].alias = b[j].alias
  BY <1>1, <1>2, OtherData
<1> QED
  BY <1>3 DEF HasColumnsRead, c

\* As many rows as matching rows have the values of a group.
LEMMA GroupSize ==
  ASSUME NEW M, NEW m \in Nat, NEW is \in Bijection(1..m, M), NEW F, NEW T, NEW x,
         \A i \in 1..m : T[i] = F[is[i]]
  PROVE  Occurrences(T, x, m) = Cardinality({i \in M : F[i] = x})
<1> DEFINE S == {l \in 1..m : T[l] = x}
           U == {i \in M : F[i] = x}
           f == [l \in S |-> is[l]]
<1>1. /\ is \in [1..m -> M]
      /\ \A i, j \in 1..m : is[i] = is[j] => i = j
      /\ \A y \in M : \E i \in 1..m : is[i] = y
  BY DEF Bijection, Injection, Surjection, IsInjective
<1>2. f \in [S -> U]
  BY <1>1
<1>3. \A i, j \in S : f[i] = f[j] => i = j
  BY <1>1
<1>4. \A y \in U : \E l \in S : f[l] = y
  BY <1>1
<1>5. S \in SUBSET (1..m) /\ IsFiniteSet(1..m)
  BY FS_Interval
<1> HIDE DEF S, U, f
<1>6. f \in Bijection(S, U)
  BY <1>2, <1>3, <1>4 DEF Bijection, Injection, Surjection, IsInjective
<1>7. IsFiniteSet(S)
  BY <1>5, FS_Subset
<1>8. Cardinality(U) = Cardinality(S)
  BY <1>6, <1>7, FS_Bijection DEF ExistsBijection
<1> QED
  BY <1>8 DEF Occurrences, S, U

LEMMA GroupsAtHand ==
  ASSUME query \in Queries, table \in Tables, Answer!Promised, Grouping,
         NEW b, IsBlock(b), Reads(b, MatchingPlaces)
  PROVE  GroupsFound(GroupBlock(<<>>, b, Functions))
<1> DEFINE M == Answer!Matching
           m == Cardinality(M)
           is == MatchingPlaces
           I == Answer!Idents
           Tuple(i) == Answer!Tuple(i)
           T == [i \in 1..m |-> Tuple(is[i])]
           F == [i \in M |-> Tuple(i)]
           r == GroupBlock(<<>>, b, Functions)
<1>1. m \in Nat /\ is \in Bijection(1..m, M)
  BY MatchingFacts
<1>2. /\ is \in [1..m -> M]
      /\ \A y \in M : \E i \in 1..m : is[i] = y
  BY <1>1 DEF Bijection, Injection, Surjection
<1>3. /\ Rows(b) = m
      /\ \A i \in 1..m :
            /\ Key(b, i) = Joined(Tuple(is[i]))
            /\ \A j \in DOMAIN I : j \in DOMAIN b /\ b[j].data[i] = Tuple(is[i])[j]
  BY RowsPromised
<1>4. \A x : DOMAIN Tuple(x) = DOMAIN I
  BY TupleIs
<1>5. Answer!Groups = {Tuple(i) : i \in M}
  BY DEF Answer!Groups
<1>6. \A g, h \in Answer!Groups : Joined(g) = Joined(h) => g = h
  <2>1. Answer!PromisedGroups /\ Answer!Aggregate
    BY SameNodes DEF Answer!Promised, Answer!Aggregate, Grouping
  <2>2. \A g, h \in Answer!Groups : Answer!Joined(g) = Answer!Joined(h) => g = h
    BY <2>1 DEF Answer!PromisedGroups
  <2> QED
    BY <2>2, SameJoined
<1>7. IsSeq(Functions) /\ Len(Functions) = 1
  <2>1. Functions # <<>>
    BY DEF Grouping
  <2> QED
    BY <2>1, NodesPromised, SeqFacts
<1> HIDE DEF M, m, is, I, Tuple
<1>8. \A i \in 1..m : T[i] = Tuple(is[i]) /\ T[i] \in Answer!Groups
  BY <1>2, <1>5
<1>9. \A x \in Answer!Groups : \E i \in 1..m : T[i] = x
  BY <1>2, <1>5, <1>8
<1>10. \A i \in 1..m : T[i] = F[is[i]]
  BY <1>2
<1>11. \A i \in 1..m : DOMAIN T[i] = DOMAIN I
  BY <1>4, <1>8
<1> HIDE DEF T
<1>12. SoFar(r, T, m)
  <2>1. \A i, l \in 1..Rows(b) : Joined(T[i]) = Joined(T[l]) => T[i] = T[l]
    BY <1>3, <1>6, <1>8
  <2>2. \A i \in 1..Rows(b) :
             /\ Key(b, i) = Joined(T[i])
             /\ \A j \in DOMAIN T[i] : j \in DOMAIN b /\ b[j].data[i] = T[i][j]
    BY <1>3, <1>8, <1>11
  <2>3. Rows(b) \in Nat
    BY <1>1, <1>3
  <2>4. SoFar(GroupBlock(<<>>, b, Functions), T, Rows(b))
    BY ONLY <1>7, <2>1, <2>2, <2>3, GroupsMet
  <2> QED
    BY <1>3, <2>4
<1> HIDE DEF r
<1> DEFINE Of(g, i) == /\ r[g].key = Joined(T[i])
                       /\ \A j \in DOMAIN T[i] : r[g].row[j] = T[i][j]
                       /\ r[g].count = Occurrences(T, T[i], m)
           e == [g \in DOMAIN r |-> T[CHOOSE i \in 1..m : Of(g, i)]]
<1>13. ASSUME NEW g \in DOMAIN r PROVE \E i \in 1..m : Of(g, i) /\ e[g] = T[i]
  <2>1. \E i \in 1..m : Of(g, i)
    BY <1>12 DEF SoFar
  <2> DEFINE i == CHOOSE i \in 1..m : Of(g, i)
  <2> HIDE DEF Of
  <2>2. i \in 1..m /\ Of(g, i)
    BY <2>1
  <2>3. e[g] = T[i]
    OBVIOUS
  <2> HIDE DEF i, e
  <2> QED
    BY <2>2, <2>3
<1>14. (\A i \in 1..m : \E g \in DOMAIN r : r[g].key = Joined(T[i]))
  BY <1>12 DEF SoFar
<1>15. \A g, h \in DOMAIN r : r[g].key = r[h].key => g = h
  BY <1>12 DEF SoFar
<1>16. e = [g \in DOMAIN r |-> e[g]]
  OBVIOUS
<1> HIDE DEF e
<1>17. \A g \in DOMAIN r : /\ e[g] \in Answer!Groups /\ r[g].key = Joined(e[g])
                           /\ \A j \in DOMAIN I : r[g].row[j] = e[g][j]
                           /\ r[g].count = Occurrences(T, e[g], m)
  BY <1>8, <1>11, <1>13
<1>18. e \in Bijection(DOMAIN r, Answer!Groups)
  <2>1. e \in [DOMAIN r -> Answer!Groups]
    BY <1>16, <1>17
  <2>2. \A g, h \in DOMAIN r : e[g] = e[h] => g = h
    BY <1>15, <1>17
  <2>3. \A x \in Answer!Groups : \E g \in DOMAIN r : e[g] = x
    BY <1>6, <1>8, <1>9, <1>14, <1>17
  <2> QED
    BY <2>1, <2>2, <2>3 DEF Bijection, Injection, Surjection, IsInjective
<1>19. \A x : Occurrences(T, x, m) = Cardinality({i \in M : Tuple(i) = x})
  <2> SUFFICES ASSUME NEW x PROVE Occurrences(T, x, m) = Cardinality({i \in M : Tuple(i) = x})
    OBVIOUS
  <2>1. Occurrences(T, x, m) = Cardinality({i \in M : F[i] = x})
    <3> HIDE DEF F
    <3> QED
      BY <1>1, <1>10, GroupSize
  <2>2. {i \in M : F[i] = x} = {i \in M : Tuple(i) = x}
    OBVIOUS
  <2> QED
    BY <2>1, <2>2
<1> QED
  BY <1>17, <1>18, <1>19 DEF GroupsFound, r, I, M, Tuple

\* A sequence of one thing more than its first n.
LEMMA LongerByOne ==
  ASSUME NEW s, IsSeq(s), NEW x, NEW n \in Nat, DOMAIN s = 1..n
  PROVE  /\ \A j \in 1..n : Append(s, x)[j] = s[j]
         /\ Append(s, x)[n + 1] = x
<1>1. Len(s) \in Nat /\ DOMAIN s = 1..Len(s)
  BY SeqFacts
<1>2. Len(s) = n
  BY <1>1
<1> QED
  BY <1>2, AppendToSeq

\* The columns of the groups without the temporary one.
LEMMA GroupColumnsLeft ==
  ASSUME query \in Queries, table \in Tables, Answer!Promised, Grouping,
         NEW t, IsBlock(t), HasColumnsRead(t), NEW m \in Nat, NEW rs, DOMAIN rs = 1..m
  PROVE  LET d == DropTmpColumns(GroupColumns(t, rs, Functions))
             l == Len(Answer!Idents)
         IN  /\ DOMAIN d = DOMAIN Answer!Nodes
             /\ \A j \in DOMAIN Answer!Nodes :
                   d[j].name = Answer!Nodes[j].name /\ d[j].alias = Answer!Nodes[j].alias
             /\ \A j \in DOMAIN Answer!Idents : d[j].data = [g \in 1..m |-> rs[g].row[j]]
             /\ DOMAIN d[l + 1].data = 1..m
             /\ \A g \in 1..m : d[l + 1].data[g] = IntCell(rs[g].count)
<1> DEFINE c == GroupColumns(t, rs, Functions)
           d == DropTmpColumns(c)
           I == Answer!Idents
           N == Answer!Nodes
           A == AllColumns
           l == Len(I)
           n == Len(t)
           S == {i \in DOMAIN c : ~c[i].tmp}
<1>1. IsSeq(Functions) /\ Len(Functions) = 1 /\ DOMAIN Functions = 1..1
  <2>1. Functions # <<>>
    BY DEF Grouping
  <2>2. IsSeq(Functions) /\ Len(Functions) = 1
    BY <2>1, NodesPromised, SeqFacts
  <2> QED
    BY <2>2, SeqFacts
<1>2. IsBlock(c) /\ HasCounts(c, n, Functions, rs) /\ HasValues(c, t, rs)
  BY <1>1, GroupedColumns
<1>3. DOMAIN I = 1..l /\ l \in Nat /\ DOMAIN N = 1..(l + 1)
  <2>1. IsSeq(I) /\ IsSeq(N) /\ Len(N) = l + Len(Functions)
    BY NodesPromised
  <2> QED
    BY <1>1, <2>1, SeqFacts
<1>4. /\ N[l + 1] = Functions[1]
      /\ \A j \in 1..l : N[j] = I[j] /\ j \in DOMAIN A /\ A[j].tmp = FALSE
                         /\ A[j].name = I[j].name /\ A[j].alias = I[j].alias
  <2>1. \A f \in DOMAIN Functions : N[l + f] = Functions[f]
    BY NodesPromised
  <2>2. \A j \in DOMAIN I : N[j] = I[j]
    BY NodesPromised
  <2>3. \A j \in DOMAIN I : j \in DOMAIN A /\ A[j].tmp = FALSE
                            /\ A[j].name = I[j].name /\ A[j].alias = I[j].alias
    BY ColumnsPromised
  <2>4. 1 \in DOMAIN Functions
    BY <1>1
  <2> HIDE DEF I, N, A, l
  <2> QED
    BY <1>3, <2>1, <2>2, <2>3, <2>4
<1>5. n = l \/ (n = l + 1 /\ A[n].tmp)
  BY DroppedPromised, ColumnsPromised
<1>6. DOMAIN t = 1..n /\ n \in Nat
  BY SeqFacts DEF IsBlock
<1>7. \A j \in DOMAIN t : t[j].name = A[j].name /\ t[j].alias = A[j].alias /\ t[j].tmp = A[j].tmp
  BY DEF HasColumnsRead
<1>8. /\ Len(c) = n + 1 /\ DOMAIN c[n + 1].data = 1..m
      /\ \A g \in 1..m : c[n + 1].data[g] = IntCell(rs[g].count)
      /\ c[n + 1].tmp = FALSE
      /\ c[n + 1].name = Functions[1].name /\ c[n + 1].alias = Functions[1].alias
  BY <1>1, <1>2 DEF HasCounts
<1>9. \A j \in 1..n : /\ c[j].name = t[j].name /\ c[j].alias = t[j].alias /\ c[j].tmp = t[j].tmp
                      /\ c[j].data = [g \in 1..m |-> rs[g].row[j]]
  BY <1>2, <1>6 DEF HasValues
<1>10. d = AtPlaces(c, S)
  BY Zenon DEF DropTmpColumns, Keep
<1> HIDE DEF c, d, I, N, A, l, n
<1>11. IsSeq(c) /\ DOMAIN c = 1..(n + 1)
  BY <1>2, <1>8, SeqFacts DEF IsBlock
<1>12. l <= n
  BY <1>3, <1>5
<1>13. \A j \in 1..l : j \in 1..n
  BY <1>3, <1>6, <1>12
<1>14. \A j \in 1..l : /\ c[j].name = N[j].name /\ c[j].alias = N[j].alias /\ c[j].tmp = FALSE
                       /\ c[j].data = [g \in 1..m |-> rs[g].row[j]]
  BY <1>4, <1>6, <1>7, <1>9, <1>13
<1>15. /\ DOMAIN d = 1..(l + 1)
       /\ \A j \in 1..l : d[j] = c[j]
       /\ d[l + 1] = c[n + 1]
  <2>1. CASE n = l
    <3>1. \A j \in 1..(n + 1) : j \in 1..l \/ j = n + 1
      BY <1>6, <2>1
    <3>2. S = DOMAIN c
      BY <1>8, <1>11, <1>14, <3>1
    <3>3. d = c
      BY <1>10, <1>11, <3>2, AllKept
    <3> QED
      BY <1>11, <2>1, <3>3
  <2>2. CASE n = l + 1 /\ A[n].tmp
    <3>1. n \in 1..n /\ n \in 1..(n + 1)
      BY <1>3, <1>6, <2>2
    <3>2. c[n].tmp
      BY <1>6, <1>7, <1>9, <2>2, <3>1
    <3>3. \A j \in 1..(n + 1) : j \in 1..l \/ j = n \/ j = n + 1
      BY <1>3, <1>6, <2>2
    <3>4. n \notin 1..l /\ n + 1 # n
      BY <1>3, <1>6, <2>2
    <3>5. S = DOMAIN c \ {n}
      BY <1>8, <1>11, <1>14, <3>1, <3>2, <3>3, <3>4
    <3> HIDE DEF S
    <3>6. n \in DOMAIN c
      BY <1>11, <3>1
    <3>7. IsSeq(d) /\ Len(d) = Len(c) - 1
      BY <1>10, <1>11, <3>5, <3>6, AllButOneKept
    <3>8. \A k \in 1..(n - 1) : d[k] = c[k]
      BY <1>10, <1>11, <3>5, <3>6, AllButOneKept
    <3>9. \A k \in n..(Len(c) - 1) : d[k] = c[k + 1]
      BY <1>10, <1>11, <3>5, <3>6, AllButOneKept
    <3>10. Len(c) - 1 = l + 1 /\ n - 1 = l /\ n \in n..(Len(c) - 1) /\ n = l + 1
      BY <1>3, <1>6, <1>8, <2>2
    <3>11. DOMAIN d = 1..(l + 1)
      BY <3>7, <3>10, SeqFacts
    <3> QED
      BY <3>8, <3>9, <3>10, <3>11
  <2> QED
    BY <1>5, <2>1, <2>2
<1>16. ASSUME NEW j \in 1..(l + 1) PROVE d[j].name = N[j].name /\ d[j].alias = N[j].alias
  <2>1. CASE j \in 1..l
    BY <1>14, <1>15, <2>1
  <2>2. CASE j = l + 1
    BY <1>4, <1>8, <1>15, <2>2
  <2> QED
    BY <1>3, <2>1, <2>2
<1>17. \A j \in 1..l : d[j].data = [g \in 1..m |-> rs[g].row[j]]
  BY <1>14, <1>15
<1>18. DOMAIN d[l + 1].data = 1..m /\ \A g \in 1..m : d[l + 1].data[g] = IntCell(rs[g].count)
  BY <1>8, <1>15
<1>19. DOMAIN d = DOMAIN N /\ \A j \in DOMAIN N : d[j].name = N[j].name /\ d[j].alias = N[j].alias
  BY <1>3, <1>15, <1>16
<1>20. \A j \in DOMAIN I : d[j].data = [g \in 1..m |-> rs[g].row[j]]
  BY <1>3, <1>17
<1> QED
  BY <1>18, <1>19, <1>20 DEF d, c, N, I, l

-----------------------------------------------------------------------------
(* From the groups, or the filter, to the next step.                       *)

LEMMA FoundIs ==
  /\ Grouping <=> Answer!Aggregate
  /\ Grouping => Found = Answer!Grouped
  /\ ~Grouping => Found = Answer!InFileOrder
BY SameNodes DEF Grouping, Answer!Aggregate, Found

LEMMA GroupedIs ==
  ASSUME NEW e \in Bijection(1..Cardinality(Answer!Groups), Answer!Groups)
  PROVE  [g \in DOMAIN e |-> Answer!GroupRow(e[g])] \in Answer!Grouped
<1>1. e \in Answer!Bijection(1..Answer!Cardinality(Answer!Groups), Answer!Groups)
  BY SameBijection, SameCardinality
<1>2. Answer!Map(Answer!GroupRow, e) \in Answer!Grouped
  BY <1>1, Zenon DEF Answer!Grouped
<1> QED
  BY <1>2, Zenon DEF Answer!Map

\* The block of the groups, once it has been rid of the temporary column.
LEMMA GroupsHandedOn ==
  ASSUME query \in Queries, table \in Tables, Answer!Promised, Grouping,
         NEW t, IsBlock(t), HasColumnsRead(t), NEW r, IsGroups(r), GroupsFound(r),
         NEW p \in Bijection(DOMAIN r, DOMAIN r)
  PROVE  Fits("drop", GroupColumns(t, [g \in DOMAIN r |-> r[p[g]]], Functions))
<1> DEFINE n == Len(r)
           rs == [g \in DOMAIN r |-> r[p[g]]]
           d == DropTmpColumns(GroupColumns(t, rs, Functions))
           I == Answer!Idents
           N == Answer!Nodes
           l == Len(I)
           M == Answer!Matching
           Size(x) == Cardinality({i \in M : Answer!Tuple(i) = x})
<1>1. n \in Nat /\ DOMAIN r = 1..n
  BY SeqFacts DEF IsGroups
<1>2. PICK e \in Bijection(DOMAIN r, Answer!Groups) :
          \A g \in DOMAIN r :
            /\ \A j \in DOMAIN I : r[g].row[j] = e[g][j]
            /\ r[g].count = Size(e[g])
  BY DEF GroupsFound
<1> DEFINE f == [g \in 1..n |-> e[p[g]]]
           rows == [g \in DOMAIN f |-> Answer!GroupRow(f[g])]
<1>3. f \in Bijection(1..n, Answer!Groups)
  <2>1. /\ p \in [1..n -> 1..n] /\ (\A i, j \in 1..n : p[i] = p[j] => i = j)
        /\ \A j \in 1..n : \E i \in 1..n : p[i] = j
    BY <1>1 DEF Bijection, Injection, Surjection, IsInjective
  <2>2. /\ e \in [1..n -> Answer!Groups] /\ (\A i, j \in 1..n : e[i] = e[j] => i = j)
        /\ \A x \in Answer!Groups : \E i \in 1..n : e[i] = x
    BY <1>1, <1>2 DEF Bijection, Injection, Surjection, IsInjective
  <2>3. \A g \in 1..n : f[g] = e[p[g]] /\ p[g] \in 1..n
    BY <2>1
  <2>4. f \in [1..n -> Answer!Groups]
    BY <2>2, <2>3
  <2> HIDE DEF f, n
  <2>5. \A i, j \in 1..n : f[i] = f[j] => i = j
    BY <2>1, <2>2, <2>3
  <2>6. \A x \in Answer!Groups : \E i \in 1..n : f[i] = x
    BY <2>1, <2>2, <2>3
  <2> QED
    BY <2>4, <2>5, <2>6 DEF Bijection, Injection, Surjection, IsInjective
<1>4. Cardinality(Answer!Groups) = n
  BY <1>1, <1>3, FS_CountingElements DEF ExistsBijection
<1>5. DOMAIN f = 1..n /\ \A g \in 1..n : f[g] \in Answer!Groups
  BY <1>3 DEF Bijection, Injection
<1>6. rows \in Found
  <2> HIDE DEF f
  <2> QED
    BY <1>3, <1>4, GroupedIs, FoundIs
<1>7. \A g \in 1..n : /\ \A j \in DOMAIN I : rs[g].row[j] = f[g][j]
                      /\ rs[g].count = Size(f[g])
  <2>1. \A g \in 1..n : p[g] \in 1..n
    BY <1>1 DEF Bijection, Injection
  <2> QED
    BY <1>1, <1>2, <2>1
<1>8. DOMAIN I = 1..l /\ l \in Nat
  BY NodesPromised, SeqFacts
<1>9. DOMAIN N = 1..(l + 1)
  <2>1. Functions # <<>> /\ IsSeq(N) /\ Len(N) = l + Len(Functions) /\ IsSeq(Functions)
        /\ Len(Functions) \in {0, 1}
    BY NodesPromised DEF Grouping
  <2>2. Len(Functions) = 1
    BY <2>1, SeqFacts
  <2>3. DOMAIN N = 1..Len(N)
    BY <2>1, SeqFacts
  <2> QED
    BY <2>1, <2>2, <2>3
<1>10. \A g \in 1..n : rows[g] = Append(f[g], IntCell(Size(f[g])))
  <2> SUFFICES ASSUME NEW g \in 1..n PROVE Answer!GroupRow(f[g]) = Append(f[g], IntCell(Size(f[g])))
    BY <1>5
  <2> DEFINE x == f[g]
  <2> HIDE DEF f, x
  <2>1. Answer!GroupRow(x) = Append(x, Answer!IntCell(Answer!Cardinality({i \in M : Answer!Tuple(i) = x})))
    BY Zenon DEF Answer!GroupRow
  <2>2. Answer!Cardinality({i \in M : Answer!Tuple(i) = x}) = Size(x)
    BY SameCardinality
  <2>3. Answer!GroupRow(x) = Append(x, IntCell(Size(x)))
    BY <2>1, <2>2, Zenon DEF Answer!IntCell, IntCell
  <2> QED
    BY <2>3 DEF x
<1>11. \A g \in 1..n : IsSeq(f[g]) /\ DOMAIN f[g] = 1..l
  <2> SUFFICES ASSUME NEW g \in 1..n PROVE IsSeq(f[g]) /\ DOMAIN f[g] = 1..l
    OBVIOUS
  <2>1. PICK i \in M : f[g] = Answer!Tuple(i)
    BY <1>5 DEF Answer!Groups
  <2> DEFINE x == f[g]
  <2> HIDE DEF x
  <2>2. x = [j \in 1..l |-> table[I[j].name][i]]
    BY <1>8, <2>1, TupleIs DEF x
  <2>3. x = [j \in 1..l |-> x[j]]
    BY <2>2
  <2> QED
    BY <1>8, <2>3, SeqIf DEF x
<1>12. DOMAIN rows = 1..n
  BY <1>5
<1> HIDE DEF rows, Size, f
<1>13. \A g \in 1..n : /\ \A j \in 1..l : rows[g][j] = f[g][j]
                       /\ rows[g][l + 1] = IntCell(Size(f[g]))
  <2> SUFFICES ASSUME NEW g \in 1..n
               PROVE  /\ \A j \in 1..l : rows[g][j] = f[g][j]
                      /\ rows[g][l + 1] = IntCell(Size(f[g]))
    OBVIOUS
  <2> DEFINE x == IntCell(Size(f[g]))
             s == f[g]
  <2>1. IsSeq(s) /\ DOMAIN s = 1..l /\ l \in Nat /\ rows[g] = Append(s, x)
    BY <1>8, <1>10, <1>11
  <2> HIDE DEF x, s, l
  <2>2. (\A j \in 1..l : Append(s, x)[j] = s[j]) /\ Append(s, x)[l + 1] = x
    BY <2>1, LongerByOne
  <2> QED
    BY <2>1, <2>2 DEF x, s
<1>14. DOMAIN rs = 1..n
  BY <1>1
<1> HIDE DEF rs, n
<1>15. /\ DOMAIN d = DOMAIN N
       /\ \A j \in DOMAIN N : d[j].name = N[j].name /\ d[j].alias = N[j].alias
       /\ \A j \in DOMAIN I : d[j].data = [g \in 1..n |-> rs[g].row[j]]
       /\ DOMAIN d[l + 1].data = 1..n
       /\ \A g \in 1..n : d[l + 1].data[g] = IntCell(rs[g].count)
  <2> HIDE DEF d, N, I, l
  <2> USE DEF d, N, I, l
  <2> QED
    BY <1>1, <1>14, GroupColumnsLeft
<1> HIDE DEF d
<1>16. IsBlock(d)
  <2>1. IsSeq(Functions)
    BY NodesPromised
  <2>2. IsBlock(GroupColumns(t, rs, Functions))
    BY <1>1, <1>14, <2>1, GroupedColumns
  <2> QED
    BY <2>2, DroppedColumns DEF d
<1>17. ASSUME NEW j \in DOMAIN d PROVE d[j].data = [g \in DOMAIN rows |-> rows[g][j]]
  <2>1. CASE j \in 1..l
    <3>1. d[j].data = [g \in 1..n |-> rs[g].row[j]]
      BY <1>8, <1>15, <2>1
    <3>2. \A g \in 1..n : rs[g].row[j] = rows[g][j]
      BY <1>7, <1>8, <1>13, <2>1
    <3> QED
      BY <1>12, <3>1, <3>2
  <2>2. CASE j = l + 1
    <3> DEFINE e1 == d[j].data
    <3>1. DOMAIN e1 = 1..n /\ \A g \in 1..n : e1[g] = rows[g][j]
      BY <1>7, <1>13, <1>15, <2>2
    <3>2. e1 = [g \in 1..Len(e1) |-> e1[g]] /\ DOMAIN e1 = 1..Len(e1)
      BY <1>16, SeqFacts DEF IsBlock
    <3> HIDE DEF e1
    <3>3. e1 = [g \in 1..n |-> rows[g][j]]
      BY <3>1, <3>2
    <3> QED
      BY <1>12, <3>3 DEF e1
  <2> QED
    BY <1>8, <1>9, <1>15, <2>1, <2>2
<1>18. Lists(d, rows)
  BY <1>15, <1>17 DEF Lists
<1>19. Planned("drop")
  BY DEF Planned
<1> QED
  BY <1>6, <1>18, <1>19 DEF Fits, d, rs

\* The rows that passed the filter, where nothing is grouped.
LEMMA RowsHandedOn ==
  ASSUME query \in Queries, table \in Tables, Answer!Promised, ~Grouping,
         NEW b, IsBlock(b), Reads(b, MatchingPlaces)
  PROVE  Fits("drop", b)
<1> DEFINE d == DropTmpColumns(b)
           I == Answer!Idents
           N == Answer!Nodes
           is == MatchingPlaces
           rows == [r \in DOMAIN is |-> Answer!Tuple(is[r])]
<1>1. HasColumnsRead(b)
  BY DEF Reads
<1>2. DOMAIN d = DOMAIN I /\ (\A j \in DOMAIN I : d[j] = b[j]) /\ (~Filtering => d = b)
  BY <1>1, DroppedPromised
<1>3. DOMAIN N = DOMAIN I /\ \A j \in DOMAIN I : N[j] = I[j]
  <2>1. IsSeq(I) /\ IsSeq(N) /\ Len(N) = Len(I) + Len(Functions) /\ Functions = <<>>
    BY NodesPromised DEF Grouping
  <2>2. Len(N) = Len(I)
    BY <2>1, NoneIsSeq, SeqFacts
  <2>3. DOMAIN N = DOMAIN I
    BY <2>1, <2>2, SeqFacts
  <2> QED
    BY <2>3, NodesPromised
<1>4. rows \in Found
  <2>1. Answer!Map(Answer!Tuple, Answer!Increasing(Answer!Matching)) \in Answer!InFileOrder
    BY DEF Answer!InFileOrder
  <2>2. Answer!Increasing(Answer!Matching) = is
    BY SameIncreasing DEF MatchingPlaces
  <2>3. Answer!Map(Answer!Tuple, is) \in Answer!InFileOrder
    BY <2>1, <2>2
  <2>4. rows \in Answer!InFileOrder
    BY <2>3, Zenon DEF Answer!Map
  <2> QED
    BY <2>4, FoundIs
<1>5. ASSUME NEW j \in DOMAIN I
      PROVE  /\ d[j].name = N[j].name /\ d[j].alias = N[j].alias
             /\ d[j].data = [r \in DOMAIN rows |-> rows[r][j]]
  <2>1. j \in DOMAIN b /\ d[j] = b[j] /\ N[j] = I[j]
    BY <1>1, <1>2, <1>3, ColumnsPromised DEF HasColumnsRead
  <2>2. /\ AllColumns[j].name = I[j].name /\ AllColumns[j].alias = I[j].alias
    BY ColumnsPromised
  <2>3. b[j].name = I[j].name /\ b[j].alias = I[j].alias
    BY <1>1, <2>1, <2>2 DEF HasColumnsRead
  <2>4. b[j].data = [k \in DOMAIN is |-> table[I[j].name][is[k]]]
    BY <2>1, <2>2 DEF Reads
  <2>5. \A k \in DOMAIN is : rows[k][j] = table[I[j].name][is[k]]
    BY TupleIs
  <2>6. DOMAIN rows = DOMAIN is
    OBVIOUS
  <2> HIDE DEF rows, d, N, I, is
  <2> QED
    BY <2>1, <2>3, <2>4, <2>5, <2>6
<1>6. Lists(d, rows)
  <2> HIDE DEF rows
  <2> QED
    BY <1>2, <1>3, <1>5 DEF Lists
<1>7. ~Planned("drop") => d = b
  BY <1>2 DEF Planned
<1> QED
  BY <1>4, <1>6, <1>7 DEF Fits

\* A block that a step is not needed for is what the next one is promised.
LEMMA PassedOn ==
  ASSUME query \in Queries, table \in Tables, Answer!Promised, NEW b, IsBlock(b),
         NEW i \in 2..6, ~Planned(InTurn[i]), Fits(InTurn[i], b)
  PROVE  Fits(InTurn[i + 1], b)
<1>1. CASE i = 2
  <2>1. Reads(b, AllRows) /\ ~Filtering
    BY <1>1, StepsInTurn DEF Fits, Planned
  <2>2. Reads(b, MatchingPlaces)
    BY <2>1, AllMatch
  <2>3. Fits("group", b) /\ i + 1 = 3
    BY <1>1, <2>2 DEF Fits
  <2> QED
    BY <2>3, StepsInTurn
<1>2. CASE i = 3
  <2>1. Reads(b, MatchingPlaces) /\ ~Grouping
    BY <1>2, StepsInTurn DEF Fits, Planned
  <2>2. Fits("drop", b)
    BY <2>1, RowsHandedOn
  <2>3. i + 1 = 4
    BY <1>2
  <2> QED
    BY <2>2, <2>3, StepsInTurn
<1>3. CASE i = 4
  <2>1. (\E rows \in Found : Lists(DropTmpColumns(b), rows)) /\ DropTmpColumns(b) = b
    BY <1>3, StepsInTurn DEF Fits
  <2>2. \E rows \in Found : Lists(b, rows)
    BY <2>1
  <2>3. Fits("order", b) /\ i + 1 = 5
    BY <1>3, <2>2 DEF Fits
  <2> QED
    BY <2>3, StepsInTurn
<1>4. CASE i = 5
  <2>1. PICK rows \in Found : Lists(b, rows)
    BY <1>4, StepsInTurn DEF Fits
  <2>2. query.orderBy = <<>>
    BY <1>4, StepsInTurn DEF Planned
  <2>3. rows \in Answer!Listings
    BY <2>2, FoundIs DEF Answer!Listings
  <2>4. Answer!Ordered(rows)
    BY <2>2, NoneIsSeq DEF Answer!Ordered, Answer!Precedes
  <2>5. Fits("limit", b) /\ i + 1 = 6
    BY <1>4, <2>1, <2>3, <2>4 DEF Fits
  <2> QED
    BY <2>5, StepsInTurn
<1>5. CASE i = 6
  <2>1. PICK rows \in Answer!Listings : Answer!Ordered(rows) /\ Lists(b, rows)
    BY <1>5, StepsInTurn DEF Fits
  <2>2. query.limit.kind # "integer"
    BY <1>5, StepsInTurn DEF Planned
  <2>3. query.limit = Answer!None
    BY <2>2 DEF Answer!Promised, Answer!PromisedLimit
  <2>4. Answer!IsAnswer(rows)
    BY <2>1, <2>3 DEF Answer!IsAnswer, Answer!FirstRows
  <2>5. Fits("print", b) /\ i + 1 = 7
    BY <1>5, <2>1, <2>4 DEF Fits
  <2> QED
    BY <2>5, StepsInTurn
<1> QED
  BY <1>1, <1>2, <1>3, <1>4, <1>5

-----------------------------------------------------------------------------
(* The rows of a result, and how they are compared.                        *)

LEMMA MaxOf ==
  ASSUME NEW n \in Nat, NEW S \in SUBSET (1..n), S # {}
  PROVE  Max(S) \in S /\ \A x \in S : Max(S) >= x
<1> DEFINE T == {k \in 0..n : n - k \in S}
<1>1. T \in SUBSET Nat
  OBVIOUS
<1>2. T # {}
  <2>1. PICK x \in S : TRUE
    OBVIOUS
  <2>2. n - x \in 0..n /\ n - (n - x) = x
    BY <2>1
  <2> QED
    BY <2>1, <2>2
<1>3. PICK k \in T : \A l \in T : k <= l
  <2> HIDE DEF T
  <2> QED
    BY <1>1, <1>2, LeastOf
<1>4. n - k \in S /\ k \in 0..n
  BY <1>3
<1>5. \A x \in S : n - x \in T
  <2> SUFFICES ASSUME NEW x \in S PROVE n - x \in 0..n /\ n - (n - x) = x
    OBVIOUS
  <2> QED
    OBVIOUS
<1>6. \A x \in S : n - k >= x
  <2> SUFFICES ASSUME NEW x \in S PROVE n - k >= x
    OBVIOUS
  <2>1. k <= n - x
    BY <1>3, <1>5
  <2> QED
    BY <1>4, <2>1
<1> HIDE DEF T
<1>7. \E y \in S : \A x \in S : y >= x
  BY <1>4, <1>6
<1> QED
  BY <1>7 DEF Max

LEMMA LexIsLess ==
  ASSUME NEW v \in Seq(Int), NEW w \in Seq(Int), Answer!LexLess(v, w)
  PROVE  Less(v, w) /\ v # w
<1> DEFINE m == Len(v)
           l == Len(w)
           n == Min({m, l})
           differ == {i \in 1..n : v[i] # w[i]}
<1>1. /\ m \in Nat /\ l \in Nat /\ DOMAIN v = 1..m /\ DOMAIN w = 1..l
      /\ (\A i \in 1..m : v[i] \in Int) /\ (\A i \in 1..l : w[i] \in Int)
  BY LenProperties, ElementOfSeq
<1>2. n \in {m, l} /\ n <= m /\ n <= l
  <2>1. {m, l} \in SUBSET Nat /\ {m, l} # {}
    BY <1>1
  <2>2. Min({m, l}) \in {m, l} /\ \A x \in {m, l} : Min({m, l}) <= x
    BY <2>1, MinOf
  <2> QED
    BY <2>2
<1>3. Less(v, w) <=> IF differ = {} THEN m < l ELSE v[Min(differ)] < w[Min(differ)]
  BY DEF Less
<1> HIDE DEF n
<1>4. CASE m < l /\ Answer!IsPrefix(v, w)
  <2>1. SubSeq(v, 1, m) = SubSeq(w, 1, m)
    BY <1>4 DEF Answer!IsPrefix
  <2>2. \A i \in 1..m : SubSeq(v, 1, m)[i] = v[i] /\ SubSeq(w, 1, m)[i] = w[i]
    BY <1>1, <1>4
  <2>3. \A i \in 1..n : i \in 1..m
    BY <1>1, <1>2
  <2>4. differ = {}
    BY <2>1, <2>2, <2>3
  <2>5. v # w
    BY <1>1, <1>4
  <2> QED
    BY <1>3, <1>4, <2>4, <2>5
<1>5. CASE \E k \in DOMAIN v \cap DOMAIN w :
              v[k] < w[k] /\ SubSeq(v, 1, k - 1) = SubSeq(w, 1, k - 1)
  <2>1. PICK k \in DOMAIN v \cap DOMAIN w :
              v[k] < w[k] /\ SubSeq(v, 1, k - 1) = SubSeq(w, 1, k - 1)
    BY <1>5
  <2>2. k \in 1..m /\ k \in 1..l /\ k \in 1..n
    BY <1>1, <1>2
  <2>3. \A i \in 1..(k - 1) : SubSeq(v, 1, k - 1)[i] = v[i] /\ SubSeq(w, 1, k - 1)[i] = w[i]
    BY <1>1, <2>2
  <2>4. \A i \in 1..(k - 1) : v[i] = w[i]
    BY <2>1, <2>3
  <2>5. v[k] # w[k]
    BY <1>1, <2>1, <2>2
  <2>6. k \in differ /\ differ \in SUBSET Nat
    BY <2>2, <2>5
  <2>7. \A i \in differ : i \notin 1..(k - 1)
    BY <2>4
  <2>8. Min(differ) \in differ /\ Min(differ) <= k
    <3> HIDE DEF differ
    <3> QED
      BY <2>6, MinOf
  <2>9. Min(differ) = k
    <3> DEFINE d == Min(differ)
    <3>1. d \in Nat /\ 1 <= d /\ d <= k /\ d \notin 1..(k - 1)
      BY <2>7, <2>8
    <3> HIDE DEF d
    <3>2. d = k
      BY <2>2, <3>1
    <3> QED
      BY <3>2 DEF d
  <2> HIDE DEF differ
  <2> QED
    BY <1>3, <2>1, <2>5, <2>6, <2>9
<1>6. \/ m < l /\ Answer!IsPrefix(v, w)
      \/ \E k \in DOMAIN v \cap DOMAIN w :
              v[k] < w[k] /\ SubSeq(v, 1, k - 1) = SubSeq(w, 1, k - 1)
  <2>1. \/ m < l /\ Answer!IsPrefix(v, w)
        \/ \E k \in DOMAIN v \cap DOMAIN w :
              v[k] < w[k] /\ SubSeq(w, 1, k - 1) = SubSeq(v, 1, k - 1)
    BY DEF Answer!LexLess
  <2> QED
    BY <2>1
<1> QED
  BY <1>4, <1>5, <1>6

\* The rows of a result, whatever their order.
LEMMA RowsOfResult ==
  ASSUME query \in Queries, table \in Tables, Answer!Promised,
         NEW rows \in Found \union Answer!Listings
  PROVE  /\ \E n \in Nat : DOMAIN rows = 1..n /\ n <= Answer!Size
         /\ Grouping => \E e \in Bijection(DOMAIN rows, Answer!Groups) :
                \A r \in DOMAIN rows : rows[r] = Answer!GroupRow(e[r])
         /\ ~Grouping => \E f \in Bijection(DOMAIN rows, Answer!Matching) :
                \A r \in DOMAIN rows : rows[r] = Answer!Tuple(f[r])
         /\ rows = [r \in DOMAIN rows |-> rows[r]]
<1> DEFINE M == Answer!Matching
           m == Cardinality(M)
           G == Answer!Groups
           n == Cardinality(G)
<1>1. /\ m \in Nat /\ IsFiniteSet(M) /\ M \in SUBSET (1..Answer!Size)
      /\ Answer!Size \in Nat
      /\ MatchingPlaces \in Bijection(1..m, M)
  BY MatchingFacts, TablePromised
<1>2. m <= Answer!Size
  <2> DEFINE z == Answer!Size
  <2> HIDE DEF z, M
  <2>1. z \in Nat /\ M \in SUBSET (1..z)
    BY <1>1 DEF z
  <2>2. IsFiniteSet(1..z) /\ Cardinality(1..z) = z
    BY <2>1, FS_Interval, IncreasingInterval
  <2> QED
    BY <2>1, <2>2, FS_Subset DEF z
<1>3. IsFiniteSet(G) /\ n <= m
  <2> DEFINE s == [i \in M |-> Answer!Tuple(i)]
  <2>1. G = {Answer!Tuple(i) : i \in M}
    BY DEF Answer!Groups
  <2>2. s \in [M -> G] /\ \A x \in G : \E i \in M : s[i] = x
    BY <2>1
  <2> HIDE DEF s, M, G
  <2>3. s \in Surjection(M, G)
    BY <2>2 DEF Surjection
  <2> QED
    BY <1>1, <2>3, FS_Surjection DEF ExistsSurjection
<1>4. n \in Nat
  BY <1>3, FS_CardinalityType
<1>5. CASE Grouping
  <2>1. rows \in Answer!Grouped
    BY <1>5, FoundIs DEF Answer!Listings
  <2>2. PICK e \in Answer!Bijection(1..Answer!Cardinality(G), G) : rows = Answer!Map(Answer!GroupRow, e)
    BY <2>1, Zenon DEF Answer!Grouped
  <2>3. e \in Bijection(1..n, G)
    BY <2>2, SameBijection, SameCardinality
  <2>4. rows = [r \in DOMAIN e |-> Answer!GroupRow(e[r])]
    BY <2>2, Zenon DEF Answer!Map
  <2>5. DOMAIN e = 1..n
    BY <2>3 DEF Bijection, Injection
  <2>6. DOMAIN rows = 1..n /\ \A r \in 1..n : rows[r] = Answer!GroupRow(e[r])
    BY <2>4, <2>5
  <2>7. rows = [r \in DOMAIN rows |-> rows[r]]
    BY <2>4
  <2>8. n <= Answer!Size
    BY <1>1, <1>2, <1>3, <1>4
  <2> HIDE DEF n
  <2> QED
    BY <1>4, <1>5, <2>3, <2>6, <2>7, <2>8
<1>6. CASE ~Grouping
  <2>1. rows \in Answer!InFileOrder \union Answer!InAnyOrder
    BY <1>6, FoundIs DEF Answer!Listings
  <2>2. PICK f \in Bijection(1..m, M) : rows = [r \in DOMAIN f |-> Answer!Tuple(f[r])]
    <3>1. CASE rows \in Answer!InFileOrder
      <4>1. rows = Answer!Map(Answer!Tuple, Answer!Increasing(M))
        BY <3>1 DEF Answer!InFileOrder
      <4>2. Answer!Increasing(M) = MatchingPlaces
        BY SameIncreasing DEF MatchingPlaces
      <4>3. rows = Answer!Map(Answer!Tuple, MatchingPlaces)
        BY <4>1, <4>2
      <4>4. rows = [r \in DOMAIN MatchingPlaces |-> Answer!Tuple(MatchingPlaces[r])]
        BY <4>3, Zenon DEF Answer!Map
      <4> QED
        BY <1>1, <4>4
    <3>2. CASE rows \in Answer!InAnyOrder
      <4>1. PICK f \in Answer!Bijection(1..Answer!Cardinality(M), M) : rows = Answer!Map(Answer!Tuple, f)
        BY <3>2, Zenon DEF Answer!InAnyOrder
      <4>2. f \in Bijection(1..m, M)
        BY <4>1, SameBijection, SameCardinality
      <4>3. rows = [r \in DOMAIN f |-> Answer!Tuple(f[r])]
        BY <4>1, Zenon DEF Answer!Map
      <4> QED
        BY <4>2, <4>3
    <3> QED
      BY <2>1, <3>1, <3>2
  <2>3. DOMAIN f = 1..m
    BY <2>2 DEF Bijection, Injection
  <2>4. DOMAIN rows = 1..m /\ \A r \in 1..m : rows[r] = Answer!Tuple(f[r])
    BY <2>2, <2>3
  <2>5. rows = [r \in DOMAIN rows |-> rows[r]]
    BY <2>2
  <2> HIDE DEF m
  <2> QED
    BY <1>1, <1>2, <1>6, <2>2, <2>4, <2>5
<1> QED
  BY <1>5, <1>6

-----------------------------------------------------------------------------
(* The columns that ORDER BY means.                                        *)

\* The selected values of a matching row are strings, and the number of rows comes behind them.
LEMMA CellsOfTuple ==
  ASSUME query \in Queries, table \in Tables, Answer!Promised, NEW x \in Answer!Matching
  PROVE  LET t == Answer!Tuple(x)
         IN  /\ IsSeq(t) /\ DOMAIN t = DOMAIN Answer!Idents
             /\ \A j \in DOMAIN t : t[j] \in Seq(Int) /\ t[j] = table[Answer!Nodes[j].name][x]
<1> DEFINE t == Answer!Tuple(x)
           I == Answer!Idents
           l == Len(I)
<1>1. IsSeq(I) /\ l \in Nat /\ DOMAIN I = 1..l
  BY NodesPromised, SeqFacts
<1>2. t = [j \in DOMAIN I |-> table[I[j].name][x]]
  BY TupleIs
<1>3. IsSeq(t) /\ DOMAIN t = 1..l
  <2> HIDE DEF t, I, l
  <2>1. t = [j \in 1..l |-> t[j]]
    BY <1>1, <1>2
  <2> QED
    BY <1>1, <2>1, SeqIf
<1>4. x \in 1..Answer!Size
  BY MatchingFacts
<1>5. ASSUME NEW j \in DOMAIN t PROVE t[j] \in Seq(Int) /\ t[j] = table[Answer!Nodes[j].name][x]
  <2>1. j \in DOMAIN I /\ I[j].name \in DOMAIN table /\ Answer!Nodes[j] = I[j]
    BY <1>1, <1>3, NamesPromised, NodesPromised
  <2>2. t[j] = table[I[j].name][x]
    BY <1>2, <2>1
  <2>3. t[j] \in Seq(Nat \ {0})
    BY <1>4, <2>1, <2>2, TablePromised
  <2> HIDE DEF t, I
  <2> QED
    BY <2>1, <2>2, <2>3
<1> QED
  BY <1>1, <1>3, <1>5

LEMMA CellsOfRow ==
  ASSUME query \in Queries, table \in Tables, Answer!Promised,
         NEW rows \in Found \union Answer!Listings, NEW r \in DOMAIN rows
  PROVE  /\ \A j \in DOMAIN Answer!Nodes : rows[r][j] \in Seq(Int)
         /\ \A i, j \in DOMAIN Answer!Nodes :
               Answer!Nodes[i].name = Answer!Nodes[j].name => rows[r][i] = rows[r][j]
         /\ rows[r] = [j \in DOMAIN Answer!Nodes |-> rows[r][j]]
<1> DEFINE I == Answer!Idents
           N == Answer!Nodes
           l == Len(I)
           M == Answer!Matching
<1>1. /\ IsSeq(I) /\ l \in Nat /\ DOMAIN I = 1..l /\ IsSeq(N) /\ DOMAIN N = 1..Len(N)
      /\ Len(N) = l + Len(Functions) /\ IsSeq(Functions) /\ Len(Functions) \in {0, 1}
  BY NodesPromised, SeqFacts
<1>2. CASE ~Grouping
  <2>1. Len(Functions) = 0
    BY <1>2, NoneIsSeq DEF Grouping
  <2>2. DOMAIN N = 1..l
    BY <1>1, <2>1
  <2>3. PICK f \in Bijection(DOMAIN rows, M) : \A q \in DOMAIN rows : rows[q] = Answer!Tuple(f[q])
    BY <1>2, RowsOfResult
  <2>4. f[r] \in M /\ rows[r] = Answer!Tuple(f[r])
    BY <2>3 DEF Bijection, Injection
  <2>5. /\ DOMAIN rows[r] = DOMAIN I
        /\ \A j \in DOMAIN I : rows[r][j] \in Seq(Int) /\ rows[r][j] = table[N[j].name][f[r]]
    BY <2>4, CellsOfTuple
  <2>6. rows[r] = [j \in DOMAIN I |-> table[I[j].name][f[r]]]
    BY <2>4, TupleIs
  <2> HIDE DEF N, I
  <2>7. rows[r] = [j \in DOMAIN I |-> rows[r][j]]
    BY <2>6
  <2>8. DOMAIN N = DOMAIN I
    BY <1>1, <2>2 DEF I
  <2>9. rows[r] = [j \in DOMAIN N |-> rows[r][j]]
    BY <2>7, <2>8
  <2> QED
    BY <2>5, <2>8, <2>9 DEF N
<1>3. CASE Grouping
  <2>1. Len(Functions) = 1
    BY <1>1, <1>3, SeqFacts DEF Grouping
  <2>2. DOMAIN N = 1..(l + 1)
    BY <1>1, <2>1
  <2>3. PICK e \in Bijection(DOMAIN rows, Answer!Groups) : \A q \in DOMAIN rows : rows[q] = Answer!GroupRow(e[q])
    BY <1>3, RowsOfResult
  <2>4. e[r] \in Answer!Groups /\ rows[r] = Answer!GroupRow(e[r])
    BY <2>3 DEF Bijection, Injection
  <2>5. PICK x \in M : e[r] = Answer!Tuple(x)
    BY <2>4 DEF Answer!Groups
  <2> DEFINE t == Answer!Tuple(x)
             c == Cardinality({i \in M : Answer!Tuple(i) = t})
  <2>6. IsSeq(t) /\ DOMAIN t = 1..l /\ \A j \in 1..l : t[j] \in Seq(Int) /\ t[j] = table[N[j].name][x]
    BY <1>1, CellsOfTuple
  <2>7. rows[r] = Append(t, IntCell(c))
    <3>1. Answer!GroupRow(t) = Append(t, Answer!IntCell(Answer!Cardinality({i \in M : Answer!Tuple(i) = t})))
      BY Zenon DEF Answer!GroupRow
    <3>2. Answer!Cardinality({i \in M : Answer!Tuple(i) = t}) = c
      BY SameCardinality
    <3>3. Answer!GroupRow(t) = Append(t, IntCell(c))
      BY <3>1, <3>2, Zenon DEF Answer!IntCell, IntCell
    <3> QED
      BY <2>4, <2>5, <3>3
  <2>8. c \in Nat
    <3> DEFINE S == {i \in M : Answer!Tuple(i) = t}
    <3>1. IsFiniteSet(M) /\ S \in SUBSET M
      BY MatchingFacts
    <3> HIDE DEF S, M
    <3>2. IsFiniteSet(S)
      BY <3>1, FS_Subset
    <3>3. Cardinality(S) \in Nat
      BY <3>2, FS_CardinalityType
    <3> QED
      BY <3>3 DEF S
  <2> HIDE DEF c, t
  <2> DEFINE y == IntCell(c)
  <2>9. y \in Seq(Int)
    BY <2>8 DEF IntCell
  <2> HIDE DEF y
  <2>10. (\A j \in 1..l : rows[r][j] = t[j]) /\ rows[r][l + 1] = y
    <3>1. rows[r] = Append(t, y)
      BY <2>7 DEF y
    <3> HIDE DEF l
    <3>2. (\A j \in 1..l : Append(t, y)[j] = t[j]) /\ Append(t, y)[l + 1] = y
      BY <1>1, <2>6, LongerByOne
    <3> QED
      BY <3>1, <3>2
  <2>11. \A j \in 1..l : N[j].name \in DOMAIN table
    BY <1>1, NodesPromised, NamesPromised
  <2>12. N[l + 1].name = CountName
    <3>1. 1 \in DOMAIN Functions
      BY <1>1, <2>1, SeqFacts
    <3> QED
      BY <3>1, NodesPromised, NamesPromised
  <2>13. CountName \notin DOMAIN table
    BY DEF Answer!Promised, Answer!PromisedNames
  <2>14. \A j \in DOMAIN N : j \in 1..l \/ j = l + 1
    BY <1>1, <2>2
  <2> HIDE DEF N, I, l
  <2>15. \A j \in DOMAIN N : rows[r][j] \in Seq(Int)
    BY <2>6, <2>9, <2>10, <2>14
  <2>16. ASSUME NEW i \in DOMAIN N, NEW j \in DOMAIN N, N[i].name = N[j].name
         PROVE  rows[r][i] = rows[r][j]
    <3>1. CASE i \in 1..l /\ j \in 1..l
      BY <2>6, <2>10, <2>16, <3>1
    <3>2. CASE i = l + 1 /\ j = l + 1
      BY <3>2
    <3> QED
      BY <2>11, <2>12, <2>13, <2>14, <2>16, <3>1, <3>2
  <2>17. rows[r] = [j \in DOMAIN N |-> rows[r][j]]
    <3>1. DOMAIN t = 1..Len(t) /\ Len(t) \in Nat
      BY <2>6, SeqFacts
    <3>2. Len(t) = l
      <4> DEFINE k == Len(t)
      <4>1. 1..k = 1..l /\ k \in Nat /\ l \in Nat
        BY <1>1, <2>6, <3>1
      <4> HIDE DEF k
      <4>2. k = l
        BY <4>1
      <4> QED
        BY <4>2 DEF k
    <3>3. IsSeq(Append(t, y)) /\ Len(Append(t, y)) = l + 1
      BY <2>6, <3>2, AppendToSeq
    <3> DEFINE u == Append(t, y)
    <3>4. u = [j \in 1..Len(u) |-> u[j]]
      BY <3>3, SeqFacts
    <3>5. rows[r] = u /\ Len(u) = l + 1
      BY <2>7, <3>3 DEF y
    <3> HIDE DEF u
    <3> QED
      BY <2>2, <3>4, <3>5
  <2> QED
    BY <2>15, <2>16, <2>17 DEF N
<1> QED
  BY <1>2, <1>3

\* ORDER BY finds the column that it means, or one with the same values.
LEMMA OrderColumnFound ==
  ASSUME query \in Queries, Answer!Promised,
         NEW b, IsBlock(b), NEW rows, Lists(b, rows), NEW k \in DOMAIN query.orderBy
  PROVE  LET node == query.orderBy[k].node
             c == OrderColumn(b, node)
             p == Answer!OrderPosition(node)
         IN  /\ ~OrderElementFails(b, node)
             /\ node.kind = "integer" \/ IsIdentifier(node)
             /\ c \in DOMAIN b /\ p \in DOMAIN b
             /\ Answer!Nodes[c].name = Answer!Nodes[p].name
<1> DEFINE node == query.orderBy[k].node
           N == Answer!Nodes
           n == node.name
           c == OrderColumn(b, node)
           p == Answer!OrderPosition(node)
<1>1. \/ node.kind = "integer" /\ node.value \in DOMAIN N
      \/ IsIdentifier(node) /\ \E j \in DOMAIN N : n \in {Answer!Header[j], N[j].name}
  BY DEF Answer!Promised, Answer!PromisedOrder, Answer!IsIdentifier, IsIdentifier
<1>2. DOMAIN b = DOMAIN N /\ \A j \in DOMAIN b : b[j].name = N[j].name /\ b[j].alias = N[j].alias
  BY DEF Lists
<1>3. /\ Len(b) \in Nat /\ DOMAIN b = 1..Len(b) /\ DOMAIN N = 1..Len(N)
      /\ Len(N) \in 1..((IntSize \div 2) - 1)
  BY NodesPromised, SeqFacts DEF IsBlock
<1>4. CASE node.kind = "integer" /\ node.value \in DOMAIN N
  <2> DEFINE v == node.value
             h == IntSize \div 2
  <2>0. h \in Int
    BY LettersAssumption
  <2>1. v \in 1..Len(N) /\ v \in Nat /\ v < h
    <3>1. v \in 1..Len(N) /\ Len(N) \in 1..(h - 1)
      BY <1>3, <1>4
    <3> HIDE DEF v, h, N
    <3> QED
      BY <2>0, <3>1
  <2>2. GetInt(v) = v
    <3> HIDE DEF v
    <3> QED
      BY <2>1, IntAsIs
  <2>3. c = v /\ p = v
    BY <1>4, <2>2 DEF OrderColumn, Answer!OrderPosition
  <2>4. v \in 1..Len(b)
    BY <1>2, <1>3, <1>4
  <2>5. ~IsIdentifier(node)
    BY <1>4 DEF IsIdentifier
  <2>6. ~OrderElementFails(b, node)
    BY <2>2, <2>4, <2>5 DEF OrderElementFails
  <2> QED
    BY <1>2, <1>4, <2>3, <2>6
<1>5. CASE IsIdentifier(node) /\ \E j \in DOMAIN N : n \in {Answer!Header[j], N[j].name}
  <2>1. node.kind # "integer"
    BY <1>5 DEF IsIdentifier
  <2>2. p = CHOOSE j \in DOMAIN N : n \in {Answer!Header[j], N[j].name}
    BY <2>1 DEF Answer!OrderPosition
  <2>3. p \in DOMAIN N /\ n \in {Answer!Header[p], N[p].name}
    <3> HIDE DEF p, N, n
    <3> QED
      BY <1>5, <2>2
  <2> HIDE DEF p
  <2>4. c = IF Named(b, n) # {} THEN Max(Named(b, n)) ELSE Max(Aliased(b, n))
    BY <2>1 DEF OrderColumn
  <2>5. N[p].name = n \/ (N[p].alias # <<>> /\ N[p].alias = n)
    BY <2>3, NamesPromised
  <2>6. Named(b, n) \union Aliased(b, n) # {}
    BY <1>2, <2>3, <2>5 DEF Named, Aliased
  <2>7. ~OrderElementFails(b, node)
    BY <2>1, <2>6 DEF OrderElementFails
  <2>8. \A j \in DOMAIN N : /\ N[j].alias \notin DOMAIN table \union {CountName}
                            /\ N[j].name \in DOMAIN table \union {CountName}
    <3> SUFFICES ASSUME NEW j \in DOMAIN N PROVE N[j].name \in DOMAIN table \union {CountName}
      BY NamesPromised
    <3>1. CASE j \in DOMAIN Answer!Idents
      BY <3>1, NodesPromised, NamesPromised
    <3>2. CASE j - Len(Answer!Idents) \in DOMAIN Functions
      <4> DEFINE f == j - Len(Answer!Idents)
      <4>1. j \in Int /\ Len(Answer!Idents) \in Int
        BY <1>3, NodesPromised, SeqFacts
      <4>2. Len(Answer!Idents) + f = j
        BY <4>1
      <4>3. N[j] = Functions[f] /\ Functions[f].name = CountName
        BY <3>2, <4>2, NodesPromised, NamesPromised
      <4> QED
        BY <4>3
    <3> QED
      BY <3>1, <3>2, NodesPromised
  <2>9. CASE Named(b, n) # {}
    <3>1. Named(b, n) \in SUBSET (1..Len(b))
      BY <1>3 DEF Named
    <3>2. c \in Named(b, n)
      BY <1>3, <2>4, <2>9, <3>1, MaxOf
    <3>3. c \in DOMAIN b /\ N[c].name = n
      BY <1>2, <3>2 DEF Named
    <3>4. N[p].name = n
      BY <1>2, <2>3, <2>5, <2>8, <3>3
    <3> QED
      BY <1>2, <1>5, <2>3, <2>7, <3>3, <3>4 DEF p
  <2>10. CASE Named(b, n) = {}
    <3>1. Aliased(b, n) # {} /\ Aliased(b, n) \in SUBSET (1..Len(b))
      BY <1>3, <2>6, <2>10 DEF Aliased
    <3>2. c \in Aliased(b, n)
      BY <1>3, <2>4, <2>10, <3>1, MaxOf
    <3>3. c \in DOMAIN b /\ N[c].alias = n /\ n # <<>>
      BY <1>2, <3>2 DEF Aliased
    <3>4. N[p].name # n
      BY <1>2, <2>3, <2>10 DEF Named
    <3>5. Answer!Header[c] = n /\ Answer!Header[p] = n
      BY <1>2, <2>3, <3>3, <3>4, NamesPromised
    <3>6. c = p
      BY <1>2, <2>3, <3>3, <3>5, NamesPromised
    <3> QED
      BY <1>2, <1>5, <2>3, <2>7, <3>6 DEF p
  <2> QED
    BY <2>9, <2>10
<1> QED
  BY <1>1, <1>4, <1>5

\* All elements of ORDER BY are columns to sort by.
LEMMA OrderByAll ==
  ASSUME query \in Queries, Answer!Promised,
         NEW b, IsBlock(b), NEW rows, Lists(b, rows)
  PROVE  LET by == OrderByColumns(b, query.orderBy)
         IN  /\ ~OrderByFails(b, query.orderBy)
             /\ IsSeq(query.orderBy) /\ DOMAIN by = DOMAIN query.orderBy
             /\ \A k \in DOMAIN by : /\ by[k].column = OrderColumn(b, query.orderBy[k].node)
                                     /\ by[k].direction = query.orderBy[k].direction
<1> DEFINE o == query.orderBy
           used == Keep(o, LAMBDA e : e.node.kind = "integer" \/ IsIdentifier(e.node))
<1>1. IsSeq(o)
  BY QueriesAssumption, SeqOfAnything
<1>2. \A k \in DOMAIN o : /\ ~OrderElementFails(b, o[k].node)
                          /\ o[k].node.kind = "integer" \/ IsIdentifier(o[k].node)
  BY OrderColumnFound
<1>3. {k \in DOMAIN o : o[k].node.kind = "integer" \/ IsIdentifier(o[k].node)} = DOMAIN o
  BY <1>2
<1>4. used = o
  <2>1. used = AtPlaces(o, {k \in DOMAIN o : o[k].node.kind = "integer" \/ IsIdentifier(o[k].node)})
    BY Zenon DEF Keep
  <2>2. used = AtPlaces(o, DOMAIN o)
    BY <1>3, <2>1
  <2> HIDE DEF o
  <2> QED
    BY <1>1, <2>2, AllKept
<1>5. OrderByColumns(b, o) = Map(LAMBDA e : [column |-> OrderColumn(b, e.node), direction |-> e.direction], used)
  BY Zenon DEF OrderByColumns
<1>6. OrderByColumns(b, o) = Map(LAMBDA e : [column |-> OrderColumn(b, e.node), direction |-> e.direction], o)
  BY <1>4, <1>5
<1>7. OrderByColumns(b, o) = [k \in DOMAIN o |-> [column |-> OrderColumn(b, o[k].node), direction |-> o[k].direction]]
  BY <1>6, Zenon DEF Map
<1> QED
  BY <1>1, <1>2, <1>7 DEF OrderByFails

\* Where a row must not come after another one, the code says so too.
LEMMA PrecedesIsBefore ==
  ASSUME query \in Queries, table \in Tables, Answer!Promised,
         NEW b, IsBlock(b), NEW rows \in Found, Lists(b, rows),
         NEW x \in DOMAIN rows, NEW y \in DOMAIN rows, Answer!Precedes(rows[x], rows[y])
  PROVE  Before(b, OrderByColumns(b, query.orderBy), x, y)
<1> DEFINE o == query.orderBy
           by == OrderByColumns(b, o)
           N == Answer!Nodes
           P(k) == Answer!OrderPosition(o[k].node)
           C(k) == by[k].column
           V(k, r) == b[by[k].column].data[r]
           differ == {k \in DOMAIN by : V(k, x) # V(k, y)}
<1>1. /\ IsSeq(o) /\ DOMAIN by = DOMAIN o
      /\ \A k \in DOMAIN o : C(k) = OrderColumn(b, o[k].node) /\ by[k].direction = o[k].direction
  BY OrderByAll
<1>2. DOMAIN o = 1..Len(o) /\ Len(o) \in Nat
  BY <1>1, SeqFacts
<1>3. \A k \in DOMAIN o : C(k) \in DOMAIN N /\ P(k) \in DOMAIN N /\ N[C(k)].name = N[P(k)].name
  <2> SUFFICES ASSUME NEW k \in DOMAIN o
               PROVE  C(k) \in DOMAIN N /\ P(k) \in DOMAIN N /\ N[C(k)].name = N[P(k)].name
    OBVIOUS
  <2>1. DOMAIN b = DOMAIN N
    BY DEF Lists
  <2>2. C(k) = OrderColumn(b, o[k].node)
    BY <1>1
  <2>3. OrderColumn(b, o[k].node) \in DOMAIN b /\ P(k) \in DOMAIN b
    BY OrderColumnFound
  <2>4. N[OrderColumn(b, o[k].node)].name = N[P(k)].name
    BY OrderColumnFound
  <2> HIDE DEF C, P, N
  <2> QED
    BY <2>1, <2>2, <2>3, <2>4
<1>4. \A j \in DOMAIN b : b[j].data = [r \in DOMAIN rows |-> rows[r][j]]
  BY DEF Lists
<1>5. DOMAIN b = DOMAIN N
  BY DEF Lists
<1>6. \A r \in DOMAIN rows, k \in DOMAIN o : V(k, r) = rows[r][P(k)] /\ rows[r][P(k)] \in Seq(Int)
  <2> SUFFICES ASSUME NEW r \in DOMAIN rows, NEW k \in DOMAIN o
               PROVE  V(k, r) = rows[r][P(k)] /\ rows[r][P(k)] \in Seq(Int)
    OBVIOUS
  <2>1. V(k, r) = b[C(k)].data[r]
    OBVIOUS
  <2> HIDE DEF V
  <2>2. C(k) \in DOMAIN N /\ P(k) \in DOMAIN N /\ N[C(k)].name = N[P(k)].name
    BY <1>3
  <2> HIDE DEF C, P
  <2>3. V(k, r) = rows[r][C(k)]
    <3> DEFINE c == C(k)
    <3>1. c \in DOMAIN b
      BY <1>5, <2>2
    <3> HIDE DEF c
    <3>2. b[c].data = [q \in DOMAIN rows |-> rows[q][c]]
      BY <1>4, <3>1
    <3>3. b[c].data[r] = rows[r][c]
      BY <3>2
    <3> QED
      BY <2>1, <3>3 DEF c
  <2>4. rows[r][C(k)] = rows[r][P(k)] /\ rows[r][P(k)] \in Seq(Int)
    BY <2>2, CellsOfRow
  <2> QED
    BY <2>3, <2>4
<1>7. PICK k \in DOMAIN o :
         /\ IF o[k].direction > 0 THEN Answer!LexLess(rows[x][P(k)], rows[y][P(k)])
            ELSE Answer!LexLess(rows[y][P(k)], rows[x][P(k)])
         /\ \A l \in 1..(k - 1) : rows[x][P(l)] = rows[y][P(l)]
  BY DEF Answer!Precedes
<1>8. k \in Nat /\ \A l \in 1..(k - 1) : l \in DOMAIN o
  BY <1>2
<1> DEFINE vx == rows[x][P(k)]
           vy == rows[y][P(k)]
<1>9. vx \in Seq(Int) /\ vy \in Seq(Int) /\ V(k, x) = vx /\ V(k, y) = vy
  BY <1>6
<1>10. IF o[k].direction > 0 THEN Less(vx, vy) ELSE Less(vy, vx)
  <2>1. CASE o[k].direction > 0
    <3>1. Answer!LexLess(vx, vy)
      BY <1>7, <2>1
    <3> HIDE DEF vx, vy
    <3> QED
      BY <1>9, <2>1, <3>1, LexIsLess
  <2>2. CASE ~(o[k].direction > 0)
    <3>1. Answer!LexLess(vy, vx)
      BY <1>7, <2>2
    <3> HIDE DEF vx, vy
    <3> QED
      BY <1>9, <2>2, <3>1, LexIsLess
  <2> QED
    BY <2>1, <2>2
<1>11. vx # vy
  <2>1. CASE o[k].direction > 0
    <3>1. Answer!LexLess(vx, vy)
      BY <1>7, <2>1
    <3> HIDE DEF vx, vy
    <3> QED
      BY <1>9, <3>1, LexIsLess
  <2>2. CASE ~(o[k].direction > 0)
    <3>1. Answer!LexLess(vy, vx)
      BY <1>7, <2>2
    <3> HIDE DEF vx, vy
    <3> QED
      BY <1>9, <3>1, LexIsLess
  <2> QED
    BY <2>1, <2>2
<1>12. \A l \in 1..(k - 1) : V(l, x) = V(l, y)
  <2> SUFFICES ASSUME NEW l \in 1..(k - 1) PROVE V(l, x) = V(l, y)
    OBVIOUS
  <2>1. l \in DOMAIN o
    BY <1>8
  <2>2. V(l, x) = rows[x][P(l)] /\ V(l, y) = rows[y][P(l)]
    BY <1>6, <2>1
  <2> HIDE DEF V
  <2> QED
    BY <1>7, <2>2
<1>13. k \in differ /\ differ \in SUBSET Nat
  <2> HIDE DEF V, by, P
  <2> QED
    BY <1>1, <1>2, <1>9, <1>11
<1>14. \A l \in differ : l \notin 1..(k - 1)
  <2> HIDE DEF V, by
  <2> QED
    BY <1>12
<1>15. Min(differ) = k
  <2> HIDE DEF differ
  <2>1. Min(differ) \in differ /\ Min(differ) <= k
    BY <1>13, MinOf
  <2> DEFINE d == Min(differ)
  <2>2. d \in differ /\ d \in Nat /\ d <= k
    BY <1>13, <2>1
  <2>3. d \notin 1..(k - 1) /\ d # 0
    <3>1. 0 \notin differ
      BY <1>1, <1>2 DEF differ
    <3> QED
      BY <1>14, <2>2, <3>1
  <2> HIDE DEF d
  <2>4. d = k
    BY <1>8, <2>2, <2>3
  <2> QED
    BY <2>4 DEF d
<1>16. IF by[k].direction > 0 THEN Less(V(k, x), V(k, y)) ELSE Less(V(k, y), V(k, x))
  <2>1. by[k].direction = o[k].direction
    BY <1>1
  <2> HIDE DEF V, by, vx, vy
  <2> QED
    BY <1>9, <1>10, <2>1
<1>17. Before(b, by, x, y) <=>
          /\ differ # {}
          /\ IF by[Min(differ)].direction > 0 THEN Less(V(Min(differ), x), V(Min(differ), y))
             ELSE Less(V(Min(differ), y), V(Min(differ), x))
  BY Zenon DEF Before
<1> HIDE DEF V, by, differ
<1> QED
  BY <1>13, <1>15, <1>16, <1>17 DEF by

LEMMA AnyOrderIs ==
  ASSUME NEW e \in Bijection(1..Cardinality(Answer!Matching), Answer!Matching)
  PROVE  [r \in DOMAIN e |-> Answer!Tuple(e[r])] \in Answer!InAnyOrder
<1>1. e \in Answer!Bijection(1..Answer!Cardinality(Answer!Matching), Answer!Matching)
  BY SameBijection, SameCardinality
<1>2. Answer!Map(Answer!Tuple, e) \in Answer!InAnyOrder
  BY <1>1, Zenon DEF Answer!InAnyOrder
<1> QED
  BY <1>2, Zenon DEF Answer!Map

LEMMA Reordered ==
  ASSUME NEW n \in Nat, NEW S, NEW e \in Bijection(1..n, S), NEW p \in Bijection(1..n, 1..n)
  PROVE  /\ [g \in 1..n |-> e[p[g]]] \in Bijection(1..n, S)
         /\ Cardinality(S) = n
         /\ \A g \in 1..n : p[g] \in 1..n
<1> DEFINE f == [g \in 1..n |-> e[p[g]]]
<1>1. /\ p \in [1..n -> 1..n] /\ (\A i, j \in 1..n : p[i] = p[j] => i = j)
      /\ \A j \in 1..n : \E i \in 1..n : p[i] = j
  BY DEF Bijection, Injection, Surjection, IsInjective
<1>2. /\ e \in [1..n -> S] /\ (\A i, j \in 1..n : e[i] = e[j] => i = j)
      /\ \A x \in S : \E i \in 1..n : e[i] = x
  BY DEF Bijection, Injection, Surjection, IsInjective
<1>3. \A g \in 1..n : f[g] = e[p[g]] /\ p[g] \in 1..n
  BY <1>1
<1>4. f \in [1..n -> S]
  BY <1>2, <1>3
<1> HIDE DEF f
<1>5. \A i, j \in 1..n : f[i] = f[j] => i = j
  BY <1>1, <1>2, <1>3
<1>6. ASSUME NEW x \in S PROVE \E i \in 1..n : f[i] = x
  <2>1. PICK j \in 1..n : e[j] = x
    BY <1>2
  <2>2. PICK i \in 1..n : p[i] = j
    BY <1>1
  <2> QED
    BY <1>3, <2>1, <2>2
<1>7. f \in Bijection(1..n, S)
  BY <1>4, <1>5, <1>6 DEF Bijection, Injection, Surjection, IsInjective
<1>8. Cardinality(S) = n
  BY FS_CountingElements DEF ExistsBijection
<1> QED
  BY <1>3, <1>7, <1>8 DEF f

-----------------------------------------------------------------------------
(* The rows are sorted and cut.                                            *)

\* The rows in an order that std::sort may leave them in.
LEMMA RowsSorted ==
  ASSUME query \in Queries, table \in Tables, Answer!Promised, query.orderBy # <<>>,
         NEW b, IsBlock(b), Fits("order", b),
         NEW p \in Sortings(b, OrderByColumns(b, query.orderBy))
  PROVE  Fits("limit", PickRows(b, p))
<1> DEFINE by == OrderByColumns(b, query.orderBy)
           c == PickRows(b, p)
           N == Answer!Nodes
<1>1. PICK rows \in Found : Lists(b, rows)
  BY DEF Fits
<1>2. PICK n \in Nat : DOMAIN rows = 1..n
  BY <1>1, RowsOfResult
<1>3. Rows(b) = n
  <2>1. IsSeq(N) /\ Len(N) \in 1..((IntSize \div 2) - 1) /\ DOMAIN N = 1..Len(N)
    BY NodesPromised, SeqFacts
  <2> DEFINE h == IntSize \div 2
             m == Len(N)
  <2>2. m \in 1..(h - 1) /\ h \in Int
    BY <2>1, LettersAssumption
  <2> HIDE DEF h, m
  <2>3. 1 \in 1..m
    BY <2>2
  <2>4. 1 \in DOMAIN b
    BY <1>1, <2>1, <2>3 DEF Lists, m
  <2>5. b # <<>> /\ IsSeq(b[1].data)
    BY <2>4, NoneIsSeq DEF IsBlock
  <2>6. b[1].data = [r \in 1..n |-> rows[r][1]]
    BY <1>1, <1>2, <2>4 DEF Lists
  <2> DEFINE d == b[1].data
  <2>7. d = [r \in 1..n |-> d[r]]
    BY <2>6
  <2> HIDE DEF d
  <2>8. Len(d) = n
    BY <2>7, SeqIf
  <2> QED
    BY <2>5, <2>8 DEF Rows, d
<1>4. /\ p \in Bijection(1..n, 1..n)
      /\ \A i, j \in 1..n : i < j => ~Before(b, by, p[j], p[i])
  BY <1>3 DEF Sortings
<1> DEFINE srt == [r \in 1..n |-> rows[p[r]]]
<1>5. \A r \in 1..n : p[r] \in 1..n /\ srt[r] = rows[p[r]]
  BY <1>4 DEF Bijection, Injection
<1>6. srt \in Answer!Listings
  <2>1. CASE Grouping
    <3>1. PICK e \in Bijection(1..n, Answer!Groups) :
              \A r \in 1..n : rows[r] = Answer!GroupRow(e[r])
      BY <1>1, <1>2, <2>1, RowsOfResult
    <3> DEFINE f == [r \in 1..n |-> e[p[r]]]
    <3>2. f \in Bijection(1..n, Answer!Groups) /\ Cardinality(Answer!Groups) = n
      BY <1>4, Reordered
    <3>3. DOMAIN f = 1..n /\ \A r \in 1..n : f[r] = e[p[r]]
      OBVIOUS
    <3> HIDE DEF f
    <3>4. [r \in DOMAIN f |-> Answer!GroupRow(f[r])] \in Answer!Grouped
      BY <3>2, GroupedIs
    <3>5. \A r \in 1..n : srt[r] = Answer!GroupRow(f[r])
      BY <1>5, <3>1, <3>3
    <3>6. srt = [r \in 1..n |-> Answer!GroupRow(f[r])]
      BY <3>5
    <3> HIDE DEF srt
    <3>7. srt \in Answer!Grouped
      BY <3>3, <3>4, <3>6
    <3> QED
      BY <2>1, <3>7, FoundIs DEF Answer!Listings
  <2>2. CASE ~Grouping
    <3>1. PICK e \in Bijection(1..n, Answer!Matching) :
              \A r \in 1..n : rows[r] = Answer!Tuple(e[r])
      BY <1>1, <1>2, <2>2, RowsOfResult
    <3> DEFINE f == [r \in 1..n |-> e[p[r]]]
    <3>2. f \in Bijection(1..n, Answer!Matching) /\ Cardinality(Answer!Matching) = n
      BY <1>4, Reordered
    <3>3. DOMAIN f = 1..n /\ \A r \in 1..n : f[r] = e[p[r]]
      OBVIOUS
    <3> HIDE DEF f
    <3>4. [r \in DOMAIN f |-> Answer!Tuple(f[r])] \in Answer!InAnyOrder
      BY <3>2, AnyOrderIs
    <3>5. \A r \in 1..n : srt[r] = Answer!Tuple(f[r])
      BY <1>5, <3>1, <3>3
    <3>6. srt = [r \in 1..n |-> Answer!Tuple(f[r])]
      BY <3>5
    <3> HIDE DEF srt
    <3>7. srt \in Answer!InAnyOrder
      BY <3>3, <3>4, <3>6
    <3> QED
      BY <2>2, <3>7, FoundIs DEF Answer!Listings
  <2> QED
    BY <2>1, <2>2
<1>7. DOMAIN srt = 1..n
  OBVIOUS
<1> HIDE DEF srt
<1>8. Answer!Ordered(srt)
  <2> SUFFICES ASSUME NEW i \in 1..n, NEW j \in 1..n, i < j, Answer!Precedes(srt[j], srt[i])
               PROVE  FALSE
    BY <1>7 DEF Answer!Ordered
  <2> DEFINE x == p[j]
             y == p[i]
  <2>1. x \in DOMAIN rows /\ y \in DOMAIN rows /\ Answer!Precedes(rows[x], rows[y])
    BY <1>2, <1>5
  <2> HIDE DEF x, y
  <2>2. Before(b, by, x, y)
    BY <1>1, <2>1, PrecedesIsBefore
  <2> QED
    BY <1>4, <2>2 DEF x, y
<1>9. Lists(c, srt)
  <2>1. DOMAIN p = 1..n
    BY <1>4 DEF Bijection, Injection
  <2>2. /\ DOMAIN c = DOMAIN b
        /\ \A j \in DOMAIN b :
              /\ c[j].data = [k \in 1..n |-> b[j].data[p[k]]]
              /\ c[j].name = b[j].name /\ c[j].alias = b[j].alias
    BY <2>1, PickedRows
  <2>3. ASSUME NEW j \in DOMAIN b
        PROVE  /\ c[j].name = N[j].name /\ c[j].alias = N[j].alias
               /\ c[j].data = [r \in DOMAIN srt |-> srt[r][j]]
    <3> HIDE DEF c
    <3>1. c[j].data = [k \in 1..n |-> b[j].data[p[k]]]
      BY <2>2
    <3>2. c[j].name = b[j].name /\ c[j].alias = b[j].alias
      BY <2>2
    <3>3. b[j].name = N[j].name /\ b[j].alias = N[j].alias
      BY <1>1 DEF Lists
    <3>4. b[j].data = [r \in 1..n |-> rows[r][j]]
      BY <1>1, <1>2 DEF Lists
    <3> HIDE DEF N
    <3>5. \A k \in 1..n : b[j].data[p[k]] = srt[k][j]
      BY <1>5, <3>4
    <3> QED
      BY <1>7, <3>1, <3>2, <3>3, <3>5
  <2>4. DOMAIN b = DOMAIN N
    BY <1>1 DEF Lists
  <2> HIDE DEF c, N
  <2> QED
    BY <2>2, <2>3, <2>4 DEF Lists, N
<1> QED
  BY <1>6, <1>8, <1>9 DEF Fits

\* The first limit values of columns that are not shorter.
LEMMA CutToSize ==
  ASSUME NEW b, IsBlock(b), b # <<>>, NEW n \in Nat, Rows(b) = n,
         \A j \in DOMAIN b : Len(b[j].data) = n,
         NEW limit \in 0..n
  PROVE  /\ DOMAIN CutBlock(b, limit) = DOMAIN b
         /\ \A j \in DOMAIN b :
               /\ CutBlock(b, limit)[j].data = [i \in 1..limit |-> b[j].data[i]]
               /\ CutBlock(b, limit)[j].name = b[j].name
               /\ CutBlock(b, limit)[j].alias = b[j].alias
<1> DEFINE D == [j \in DOMAIN b |-> [i \in 1..limit |->
                    IF i <= Len(b[j].data) THEN b[j].data[i] ELSE IntCell(0)]]
           c == CutBlock(b, limit)
<1>1. ~(b = <<>> \/ limit < 0 \/ Rows(b) < limit)
  OBVIOUS
<1>2. c = Refilled(b, D)
  BY <1>1 DEF CutBlock, Map, Refilled
<1>3. \A j \in DOMAIN b : IsSeq(D[j])
  BY SeqIf
<1>4. \A j \in DOMAIN b : D[j] = [i \in 1..limit |-> b[j].data[i]]
  <2> SUFFICES ASSUME NEW j \in DOMAIN b PROVE D[j] = [i \in 1..limit |-> b[j].data[i]]
    OBVIOUS
  <2>1. \A i \in 1..limit : i <= Len(b[j].data)
    OBVIOUS
  <2> QED
    BY <2>1
<1> HIDE DEF c, D
<1>5. /\ DOMAIN c = DOMAIN b
      /\ \A j \in DOMAIN b : c[j].data = D[j] /\ c[j].name = b[j].name /\ c[j].alias = b[j].alias
  BY <1>2, <1>3, OtherData
<1> QED
  BY <1>4, <1>5 DEF c

\* The rows that LIMIT leaves.
LEMMA RowsCut ==
  ASSUME query \in Queries, table \in Tables, Answer!Promised, query.limit.kind = "integer",
         NEW b, IsBlock(b), Fits("limit", b)
  PROVE  Fits("print", CutBlock(b, GetInt(query.limit.value)))
<1> DEFINE v == query.limit.value
           c == CutBlock(b, GetInt(v))
           N == Answer!Nodes
           h == IntSize \div 2
<1>1. PICK rows \in Answer!Listings : Answer!Ordered(rows) /\ Lists(b, rows)
  BY DEF Fits
<1>2. PICK n \in Nat : DOMAIN rows = 1..n /\ n <= Answer!Size
  BY <1>1, RowsOfResult
<1>3. rows = [r \in 1..n |-> rows[r]]
  BY <1>1, <1>2, RowsOfResult
<1>4. IsSeq(rows) /\ Len(rows) = n
  BY <1>3, SeqIf
<1>5. n < h /\ h \in Int
  <2>1. Answer!Size \in Nat /\ Answer!Size < h /\ h \in Int
    BY TablePromised, LettersAssumption
  <2> HIDE DEF h
  <2> QED
    BY <1>2, <2>1
<1>6. v \in 0..(IntSize - 1) /\ query.limit # Answer!None
  BY DEF Answer!Promised, Answer!PromisedLimit, Answer!None
<1>7. Rows(b) = n /\ b # <<>> /\ DOMAIN b = DOMAIN N
  <2>1. IsSeq(N) /\ Len(N) \in 1..(h - 1) /\ DOMAIN N = 1..Len(N)
    BY NodesPromised, SeqFacts
  <2> DEFINE m == Len(N)
  <2>2. m \in 1..(h - 1)
    BY <2>1
  <2> HIDE DEF h, m
  <2>3. 1 \in 1..m
    BY <1>5, <2>2
  <2>4. 1 \in DOMAIN b /\ DOMAIN b = DOMAIN N
    BY <1>1, <2>1, <2>3 DEF Lists, m
  <2>5. b # <<>>
    BY <2>4, NoneIsSeq
  <2>6. b[1].data = [r \in 1..n |-> rows[r][1]]
    BY <1>1, <1>2, <2>4 DEF Lists
  <2> DEFINE d == b[1].data
  <2>7. d = [r \in 1..n |-> d[r]]
    BY <2>6
  <2> HIDE DEF d
  <2>8. Len(d) = n
    BY <2>7, SeqIf
  <2> QED
    BY <2>4, <2>5, <2>8 DEF Rows, d
<1>8. Answer!FirstRows(rows) = IF n <= v THEN rows ELSE SubSeq(rows, 1, v)
  BY <1>4, <1>6 DEF Answer!FirstRows
<1>9. v < h => GetInt(v) = v
  BY <1>6, IntAsIs
<1>10. v >= h => GetInt(v) < 0
  <2> DEFINE z == IntSize
  <2>1. z \in Nat /\ h \in Int /\ v % z = v
    <3>1. z \in Nat \ {0} /\ v \in 0..(z - 1) /\ h \in Int
      BY <1>6, LettersAssumption
    <3> HIDE DEF z, v, h
    <3>2. v % z = v
      BY <3>1
    <3> QED
      BY <3>1, <3>2
  <2>2. v >= h => GetInt(v) = v - z
    BY <2>1 DEF GetInt
  <2>3. v - z < 0
    <3> HIDE DEF v
    <3> QED
      BY <1>6, <2>1
  <2> HIDE DEF h, v, z
  <2> QED
    BY <2>2, <2>3
<1>11. Answer!IsAnswer(Answer!FirstRows(rows))
  BY <1>1 DEF Answer!IsAnswer
<1>12. CASE v > n
  <2>1. Answer!FirstRows(rows) = rows
    BY <1>6, <1>8, <1>12
  <2>2. GetInt(v) < 0 \/ n < GetInt(v)
    <3> HIDE DEF v, h
    <3>1. v \in Int
      BY <1>6
    <3> QED
      BY <1>5, <1>9, <1>10, <1>12, <3>1
  <2>3. c = b
    BY <1>7, <2>2 DEF CutBlock
  <2> QED
    BY <1>1, <1>11, <2>1, <2>3 DEF Fits
<1>13. CASE v <= n
  <2> DEFINE cut == SubSeq(rows, 1, v)
  <2>1. v \in Nat /\ v \in 0..n /\ GetInt(v) = v
    <3> HIDE DEF v, h
    <3>1. v \in Nat /\ v < h
      BY <1>2, <1>5, <1>6, <1>13
    <3> QED
      BY <1>9, <1>13, <3>1
  <2>2. cut = [r \in 1..v |-> rows[r]]
    <3> HIDE DEF v
    <3> QED
      BY <1>2, <1>4, <2>1
  <2>3. Answer!FirstRows(rows) = cut
    <3>1. CASE n <= v
      <4>1. n = v
        <5> HIDE DEF v
        <5> QED
          BY <1>2, <2>1, <3>1
      <4>2. cut = rows
        BY <1>3, <2>2, <4>1
      <4> QED
        BY <1>8, <3>1, <4>2
    <3>2. CASE ~(n <= v)
      BY <1>8, <3>2
    <3> QED
      BY <3>1, <3>2
  <2>4. \A j \in DOMAIN b : IsSeq(b[j].data) /\ Len(b[j].data) = n
    <3> SUFFICES ASSUME NEW j \in DOMAIN b PROVE IsSeq(b[j].data) /\ Len(b[j].data) = n
      OBVIOUS
    <3> DEFINE d == b[j].data
    <3>1. d = [r \in 1..n |-> rows[r][j]]
      BY <1>1, <1>2 DEF Lists
    <3>2. d = [r \in 1..n |-> d[r]]
      BY <3>1
    <3> HIDE DEF d
    <3>3. IsSeq(d) /\ Len(d) = n
      BY <3>2, SeqIf
    <3> QED
      BY <3>3 DEF d
  <2>5. /\ DOMAIN c = DOMAIN b
        /\ \A j \in DOMAIN b :
              /\ c[j].data = [i \in 1..v |-> b[j].data[i]]
              /\ c[j].name = b[j].name /\ c[j].alias = b[j].alias
    <3> HIDE DEF v
    <3>1. ~(b = <<>> \/ v < 0 \/ Rows(b) < v)
      BY <1>2, <1>7, <2>1
    <3> QED
      BY <1>2, <1>7, <2>1, <2>4, <3>1, CutToSize
  <2>6. ASSUME NEW j \in DOMAIN b
        PROVE  /\ c[j].name = N[j].name /\ c[j].alias = N[j].alias
               /\ c[j].data = [r \in DOMAIN cut |-> cut[r][j]]
    <3> HIDE DEF c
    <3>1. c[j].data = [i \in 1..v |-> b[j].data[i]]
      BY <2>5
    <3>2. c[j].name = b[j].name /\ c[j].alias = b[j].alias
      BY <2>5
    <3>3. b[j].name = N[j].name /\ b[j].alias = N[j].alias
      BY <1>1 DEF Lists
    <3>4. b[j].data = [r \in 1..n |-> rows[r][j]]
      BY <1>1, <1>2 DEF Lists
    <3>5. DOMAIN cut = 1..v /\ \A r \in 1..v : cut[r] = rows[r]
      BY <2>2
    <3> HIDE DEF v, cut, N
    <3>6. \A r \in 1..v : b[j].data[r] = cut[r][j]
      BY <1>2, <2>1, <3>4, <3>5
    <3> QED
      BY <3>1, <3>2, <3>3, <3>5, <3>6
  <2>7. Lists(c, cut)
    <3> HIDE DEF c, cut, N
    <3> QED
      BY <1>7, <2>5, <2>6 DEF Lists, N
  <2> HIDE DEF c, cut
  <2> QED
    BY <1>11, <2>3, <2>7 DEF Fits, c
<1> QED
  <2> HIDE DEF v
  <2>1. v > n \/ v <= n
    BY <1>2, <1>6
  <2> QED
    BY <1>12, <1>13, <2>1 DEF v

-----------------------------------------------------------------------------
(* The block that is printed, and the steps that a query does without.     *)

\* The block without its temporary columns.
LEMMA ColumnsDropped ==
  ASSUME NEW b, Fits("drop", b)
  PROVE  Fits("order", DropTmpColumns(b))
BY DEF Fits

\* A row of an answer has one value for each column.
LEMMA RowsOfAnswer ==
  ASSUME query \in Queries, table \in Tables, Answer!Promised, NEW rows, Answer!IsAnswer(rows)
  PROVE  \E n \in Nat : rows = [r \in 1..n |-> [j \in DOMAIN Answer!Nodes |-> rows[r][j]]]
<1> DEFINE N == DOMAIN Answer!Nodes
           v == query.limit.value
<1>1. PICK all \in Answer!Listings : rows = Answer!FirstRows(all)
  BY DEF Answer!IsAnswer
<1>2. PICK n \in Nat : DOMAIN all = 1..n
  BY <1>1, RowsOfResult
<1>3. all = [r \in 1..n |-> all[r]]
  BY <1>1, <1>2, RowsOfResult
<1>4. \A r \in 1..n : all[r] = [j \in N |-> all[r][j]]
  BY <1>1, <1>2, CellsOfRow
<1> HIDE DEF N
<1>5. CASE rows = all
  BY <1>3, <1>4, <1>5 DEF N
<1>6. CASE rows # all
  <2>1. rows = SubSeq(all, 1, v) /\ query.limit # Answer!None /\ ~(Len(all) <= v)
    BY <1>1, <1>6 DEF Answer!FirstRows
  <2>2. IsSeq(all) /\ Len(all) = n
    BY <1>3, SeqIf
  <2>3. v \in 0..(IntSize - 1) /\ IntSize \in Nat
    BY <2>1, LettersAssumption DEF Answer!Promised, Answer!PromisedLimit
  <2>4. v \in 0..n
    <3> HIDE DEF v
    <3> QED
      BY <1>2, <2>1, <2>2, <2>3
  <2> HIDE DEF v
  <2>5. SubSeq(all, 1, v) = [r \in 1..v |-> all[r]]
    BY <1>2, <2>2, <2>4
  <2>6. \A r \in 1..v : rows[r] = all[r] /\ r \in 1..n
    BY <1>2, <2>1, <2>4, <2>5
  <2>7. rows = [r \in 1..v |-> [j \in N |-> rows[r][j]]]
    BY <1>4, <2>1, <2>5, <2>6
  <2> QED
    BY <2>3, <2>7 DEF N
<1> QED
  BY <1>5, <1>6

LEMMA HasColumns ==
  ASSUME query \in Queries, Answer!Promised, NEW s \in Working, NEW b, Fits(s, b)
  PROVE  b # <<>>
<1> DEFINE N == Answer!Nodes
           h == IntSize \div 2
           m == Len(N)
<1>1. DOMAIN N = 1..m /\ m \in 1..(h - 1) /\ h \in Int
  BY NodesPromised, SeqFacts, LettersAssumption
<1>2. 1 \in DOMAIN N
  <2> HIDE DEF h, m, N
  <2> QED
    BY <1>1
<1>3. AllColumns # <<>> /\ IsSeq(AllColumns)
  BY ColumnsPromised DEF IsBlock
<1>4. DOMAIN AllColumns # {}
  BY <1>3, SeqFacts
<1>5. CASE s \in {"filter", "group"}
  BY <1>4, <1>5, NoneIsSeq DEF Fits, Reads, HasColumnsRead
<1>6. CASE s \in {"order", "limit", "print"}
  BY <1>2, <1>6, NoneIsSeq DEF Fits, Lists
<1>7. CASE s = "drop"
  <2>1. DropTmpColumns(b) # <<>>
    BY <1>2, <1>7, NoneIsSeq DEF Fits, Lists
  <2>3. DropTmpColumns(<<>>) = AtPlaces(<<>>, {i \in DOMAIN <<>> : ~<<>>[i].tmp})
    BY Zenon DEF DropTmpColumns, Keep
  <2>4. {i \in DOMAIN <<>> : ~<<>>[i].tmp} = {}
    BY NoneIsSeq
  <2>5. DropTmpColumns(<<>>) = <<>>
    BY <2>3, <2>4, NoneKept
  <2> QED
    BY <2>1, <2>5
<1> QED
  BY <1>5, <1>6, <1>7 DEF Working

\* What is printed of the last block.
LEMMA RowsPrinted ==
  ASSUME query \in Queries, table \in Tables, Answer!Promised,
         NEW b, IsBlock(b), Fits("print", b)
  PROVE  /\ Map(LAMBDA c : IF c.alias = <<>> THEN c.name ELSE c.alias, b) = Answer!Header
         /\ Answer!IsAnswer([i \in 1..Rows(b) |-> [j \in DOMAIN b |-> b[j].data[i]]])
<1> DEFINE N == Answer!Nodes
           w == [i \in 1..Rows(b) |-> [j \in DOMAIN b |-> b[j].data[i]]]
           h == Map(LAMBDA c : IF c.alias = <<>> THEN c.name ELSE c.alias, b)
<1>1. PICK rows : Answer!IsAnswer(rows) /\ Lists(b, rows)
  BY DEF Fits
<1>2. PICK n \in Nat : rows = [r \in 1..n |-> [j \in DOMAIN N |-> rows[r][j]]]
  BY <1>1, RowsOfAnswer
<1>3. DOMAIN b = DOMAIN N
  BY <1>1 DEF Lists
<1>4. h = Answer!Header
  <2>1. h = [j \in DOMAIN b |-> IF b[j].alias = <<>> THEN b[j].name ELSE b[j].alias]
    BY Zenon DEF Map
  <2>2. \A j \in DOMAIN b : b[j].name = N[j].name /\ b[j].alias = N[j].alias
    BY <1>1 DEF Lists
  <2>3. Answer!Header = [j \in DOMAIN N |-> IF N[j].alias = <<>> THEN N[j].name ELSE N[j].alias]
    <3>1. Answer!Header = [j \in DOMAIN N |-> Answer!Title(N[j])]
      BY Zenon DEF Answer!Header, Answer!Map
    <3>2. \A j \in DOMAIN N : Answer!Title(N[j]) = IF N[j].alias = <<>> THEN N[j].name ELSE N[j].alias
      BY DEF Answer!Title
    <3> HIDE DEF N
    <3> QED
      BY <3>1, <3>2
  <2> HIDE DEF h, N
  <2> QED
    BY <1>3, <2>1, <2>2, <2>3
<1>5. DOMAIN rows = 1..n
  BY <1>2
<1>6. \A j \in DOMAIN b : b[j].data = [r \in 1..n |-> rows[r][j]]
  BY <1>1, <1>5 DEF Lists
<1>7. Rows(b) = n
  <2>1. b # <<>> /\ IsSeq(b)
    BY HasColumns DEF Working, IsBlock
  <2>2. 1 \in DOMAIN b
    BY <2>1, SeqFacts
  <2> DEFINE d == b[1].data
  <2>3. d = [r \in 1..n |-> rows[r][1]]
    BY <1>6, <2>2
  <2>4. d = [r \in 1..n |-> d[r]]
    BY <2>3
  <2> HIDE DEF d
  <2>5. Len(d) = n
    BY <2>4, SeqIf
  <2> QED
    BY <2>1, <2>5 DEF Rows, d
<1>8. w = rows
  <2>1. w = [i \in 1..n |-> [j \in DOMAIN N |-> b[j].data[i]]]
    BY <1>3, <1>7
  <2>2. \A i \in 1..n, j \in DOMAIN N : b[j].data[i] = rows[i][j]
    BY <1>3, <1>6
  <2> HIDE DEF w, N
  <2> QED
    BY <1>2, <2>1, <2>2 DEF N
<1> QED
  BY <1>1, <1>4, <1>8

\* A block passes the steps that a query does not need.
LEMMA FitsOn ==
  ASSUME query \in Queries, table \in Tables, Answer!Promised, NEW b, IsBlock(b),
         NEW s \in {"interpret", "filter", "group", "drop", "order", "limit"},
         Fits(Behind(s), b)
  PROVE  Fits(After(s), b)
<1>1. PICK n \in 1..6 : InTurn[n] = s /\ InTurn[n + 1] = Behind(s)
  <2>1. /\ InTurn[1] = "interpret" /\ InTurn[1 + 1] = Behind("interpret")
        /\ InTurn[2] = "filter" /\ InTurn[2 + 1] = Behind("filter")
        /\ InTurn[3] = "group" /\ InTurn[3 + 1] = Behind("group")
        /\ InTurn[4] = "drop" /\ InTurn[4 + 1] = Behind("drop")
        /\ InTurn[5] = "order" /\ InTurn[5 + 1] = Behind("order")
        /\ InTurn[6] = "limit" /\ InTurn[6 + 1] = Behind("limit")
    <3>1. 1 + 1 = 2 /\ 2 + 1 = 3 /\ 3 + 1 = 4 /\ 4 + 1 = 5 /\ 5 + 1 = 6 /\ 6 + 1 = 7
      OBVIOUS
    <3> QED
      BY <3>1, StepsInTurn DEF Behind
  <2>2. 1 \in 1..6 /\ 2 \in 1..6 /\ 3 \in 1..6 /\ 4 \in 1..6 /\ 5 \in 1..6 /\ 6 \in 1..6
    OBVIOUS
  <2> QED
    BY <2>1, <2>2
<1>2. PICK i \in (n + 1)..7 : /\ After(InTurn[n]) = InTurn[i]
                              /\ \A k \in (n + 1)..(i - 1) : ~Planned(InTurn[k])
  BY AfterStep
<1> DEFINE T == {k \in (n + 1)..i : ~Fits(InTurn[k], b)}
<1>3. T = {}
  <2> SUFFICES ASSUME T # {} PROVE FALSE
    OBVIOUS
  <2>1. T \in SUBSET Nat
    BY <1>2
  <2>2. PICK k \in T : \A l \in T : k <= l
    <3> HIDE DEF T
    <3> QED
      BY <2>1, LeastOf
  <2>3. k \in (n + 1)..i /\ ~Fits(InTurn[k], b)
    BY <2>2
  <2>4. k # n + 1
    BY <1>1, <2>3
  <2> DEFINE l == k - 1
  <2>5. l \in (n + 1)..(i - 1) /\ l \in 2..6 /\ l + 1 = k /\ l \in (n + 1)..i /\ ~(k <= l)
    BY <1>2, <2>3, <2>4
  <2> HIDE DEF l
  <2>6. Fits(InTurn[l], b)
    BY <2>2, <2>5
  <2>7. ~Planned(InTurn[l])
    BY <1>2, <2>5
  <2>8. Fits(InTurn[l + 1], b)
    BY <2>5, <2>6, <2>7, PassedOn
  <2> QED
    BY <2>3, <2>5, <2>8
<1>4. i \in (n + 1)..i
  BY <1>2
<1>5. Fits(InTurn[i], b)
  BY <1>3, <1>4
<1> QED
  BY <1>1, <1>2, <1>5

-----------------------------------------------------------------------------
(* The query and the table stay, and with them what is promised.           *)

\* As long as the query and the table stay, so does what is promised.
LEMMA SameSelect ==
  ASSUME UNCHANGED <<query, table>>
  PROVE  /\ Answer!Idents' = Answer!Idents /\ Answer!Counts' = Answer!Counts
         /\ Answer!Nodes' = Answer!Nodes /\ Answer!Header' = Answer!Header
         /\ Answer!Aggregate' = Answer!Aggregate /\ Answer!Titles' = Answer!Titles
         /\ Answer!Size' = Answer!Size
<1>1. Answer!Idents' = Answer!Idents /\ Answer!Counts' = Answer!Counts
  BY DEF Answer!Idents, Answer!Counts
<1>2. Answer!Nodes' = Answer!Nodes
  BY <1>1 DEF Answer!Nodes
<1>3. Answer!Header' = Answer!Header
  BY <1>2 DEF Answer!Header
<1>4. Answer!Titles' = Answer!Titles
  BY <1>3 DEF Answer!Titles
<1>5. Answer!Size' = Answer!Size
  BY DEF Answer!Size
<1> QED
  BY <1>1, <1>2, <1>3, <1>4, <1>5 DEF Answer!Aggregate

LEMMA SameRows ==
  ASSUME UNCHANGED <<query, table>>
  PROVE  /\ \A n : Answer!ColumnNamed(n)' = Answer!ColumnNamed(n)
         /\ Answer!Matching' = Answer!Matching
         /\ \A i : Answer!Tuple(i)' = Answer!Tuple(i)
         /\ Answer!Groups' = Answer!Groups
         /\ \A g : Answer!GroupRow(g)' = Answer!GroupRow(g)
<1>1. \A n : Answer!ColumnNamed(n)' = Answer!ColumnNamed(n)
  BY SameSelect DEF Answer!ColumnNamed
<1>2. \A i : Answer!Matches(i)' <=> Answer!Matches(i)
  <2>1. Answer!ColumnNamed(query.where.args[1].name)' = Answer!ColumnNamed(query.where.args[1].name)
    BY <1>1
  <2> QED
    BY <2>1 DEF Answer!Matches
<1>3. Answer!Matching' = Answer!Matching
  BY <1>2, SameSelect DEF Answer!Matching
<1>4. \A i : Answer!Tuple(i)' = Answer!Tuple(i)
  <2>1. \A i : Answer!Tuple(i) = [j \in DOMAIN Answer!Idents |-> table[Answer!Idents[j].name][i]]
    BY TupleIs
  <2>2. \A i : Answer!Tuple(i)' = [j \in DOMAIN Answer!Idents' |-> table'[Answer!Idents'[j].name][i]]
    BY Zenon DEF Answer!Tuple, Answer!Map
  <2> QED
    BY <2>1, <2>2, SameSelect
<1>5. Answer!Groups' = Answer!Groups
  BY <1>3, <1>4 DEF Answer!Groups
<1>6. \A g : Answer!GroupRow(g)' = Answer!GroupRow(g)
  BY <1>3, <1>4 DEF Answer!GroupRow
<1> QED
  BY <1>1, <1>3, <1>4, <1>5, <1>6

LEMMA SameListings ==
  ASSUME UNCHANGED <<query, table>>
  PROVE  /\ Answer!InFileOrder' = Answer!InFileOrder
         /\ Answer!InAnyOrder' = Answer!InAnyOrder
         /\ Answer!Grouped' = Answer!Grouped
         /\ Answer!Listings' = Answer!Listings
         /\ \A rows : Answer!Ordered(rows)' <=> Answer!Ordered(rows)
         /\ \A rows : Answer!IsAnswer(rows)' <=> Answer!IsAnswer(rows)
<1>1. \A e : Answer!Map(Answer!Tuple, e)' = Answer!Map(Answer!Tuple, e)
  BY SameRows DEF Answer!Map
<1>2. \A e : Answer!Map(Answer!GroupRow, e)' = Answer!Map(Answer!GroupRow, e)
  BY SameRows DEF Answer!Map
<1>3. Answer!InFileOrder' = Answer!InFileOrder
  BY <1>1, SameRows DEF Answer!InFileOrder
<1>4. Answer!InAnyOrder' = Answer!InAnyOrder
  BY <1>1, SameRows DEF Answer!InAnyOrder
<1>5. Answer!Grouped' = Answer!Grouped
  BY <1>2, SameRows DEF Answer!Grouped
<1>6. Answer!Listings' = Answer!Listings
  BY <1>3, <1>4, <1>5, SameSelect DEF Answer!Listings
<1>7. \A node : Answer!OrderPosition(node)' = Answer!OrderPosition(node)
  BY SameSelect DEF Answer!OrderPosition
<1>8. \A v, w : Answer!Precedes(v, w)' <=> Answer!Precedes(v, w)
  BY <1>7 DEF Answer!Precedes
<1>9. \A rows : Answer!Ordered(rows)' <=> Answer!Ordered(rows)
  BY <1>8 DEF Answer!Ordered
<1>10. \A rows : Answer!FirstRows(rows)' = Answer!FirstRows(rows)
  BY DEF Answer!FirstRows
<1>11. \A rows : Answer!IsAnswer(rows)' <=> Answer!IsAnswer(rows)
  BY <1>6, <1>9, <1>10 DEF Answer!IsAnswer
<1> QED
  BY <1>3, <1>4, <1>5, <1>6, <1>9, <1>11

LEMMA SamePromise ==
  ASSUME UNCHANGED <<query, table>>
  PROVE  Answer!Promised' <=> Answer!Promised
<1>1. \A id : Answer!KnownId(id)' <=> Answer!KnownId(id)
  BY DEF Answer!KnownId
<1>2. Answer!PromisedNames' <=> Answer!PromisedNames
  BY <1>1, SameSelect DEF Answer!PromisedNames
<1>3. \A n : Answer!NotAName(n)' <=> Answer!NotAName(n)
  BY SameSelect DEF Answer!NotAName
<1>4. Answer!PromisedFilter' <=> Answer!PromisedFilter
  BY <1>1, <1>3, SameSelect DEF Answer!PromisedFilter
<1>5. Answer!PromisedGroups' <=> Answer!PromisedGroups
  <2>1. \A node : Answer!GroupedName(node)' = Answer!GroupedName(node)
    BY SameSelect, SameRows DEF Answer!GroupedName
  <2>2. \A node, i : Answer!NamesColumn(node, i)' <=> Answer!NamesColumn(node, i)
    BY SameSelect DEF Answer!NamesColumn
  <2>3. ({Answer!GroupedName(query.groupBy[k]) : k \in DOMAIN query.groupBy}
             = {Answer!Idents[i].name : i \in DOMAIN Answer!Idents})'
        <=> {Answer!GroupedName(query.groupBy[k]) : k \in DOMAIN query.groupBy}
             = {Answer!Idents[i].name : i \in DOMAIN Answer!Idents}
    BY <2>1, SameSelect
  <2>4. (\A i \in DOMAIN Answer!Idents : \E k \in DOMAIN query.groupBy :
             Answer!NamesColumn(query.groupBy[k], i))'
        <=> \A i \in DOMAIN Answer!Idents : \E k \in DOMAIN query.groupBy :
             Answer!NamesColumn(query.groupBy[k], i)
    BY <2>2, SameSelect
  <2>5. (\A g, h \in Answer!Groups : Answer!Joined(g) = Answer!Joined(h) => g = h)'
        <=> \A g, h \in Answer!Groups : Answer!Joined(g) = Answer!Joined(h) => g = h
    BY SameRows
  <2>6. (\A k \in DOMAIN query.groupBy :
            \/ Answer!IsIdentifier(query.groupBy[k])
            \/ query.groupBy[k].kind = "integer" /\ query.groupBy[k].value \in DOMAIN Answer!Idents)'
        <=> \A k \in DOMAIN query.groupBy :
            \/ Answer!IsIdentifier(query.groupBy[k])
            \/ query.groupBy[k].kind = "integer" /\ query.groupBy[k].value \in DOMAIN Answer!Idents
    BY SameSelect
  <2>7. (Answer!Aggregate' <=> Answer!Aggregate) /\ Answer!Counts' = Answer!Counts
        /\ query'.groupBy = query.groupBy
    BY SameSelect
  <2> QED
    BY <2>3, <2>4, <2>5, <2>6, <2>7, Zenon DEF Answer!PromisedGroups
<1>6. Answer!PromisedOrder' <=> Answer!PromisedOrder
  BY SameSelect DEF Answer!PromisedOrder
<1>7. Answer!PromisedLimit' <=> Answer!PromisedLimit
  BY DEF Answer!PromisedLimit
<1> QED
  BY <1>2, <1>4, <1>5, <1>6, <1>7, SameSelect DEF Answer!Promised

LEMMA StillFits ==
  ASSUME UNCHANGED <<query, table>>
  PROVE  /\ \A s, b : Fits(s, b)' <=> Fits(s, b)
         /\ \A b : HasColumnsRead(b)' <=> HasColumnsRead(b)
         /\ \A r : GroupsFound(r)' <=> GroupsFound(r)
<1>1. AllColumns' = AllColumns /\ Functions' = Functions /\ (Filtering' <=> Filtering)
  BY DEF Functions, Filter, Filtering, AllColumns, Selected
<1>2. Grouping' <=> Grouping
  BY <1>1 DEF Grouping
<1>3. \A b : HasColumnsRead(b)' <=> HasColumnsRead(b)
  BY <1>1 DEF HasColumnsRead
<1>4. \A b, is : Reads(b, is)' <=> Reads(b, is)
  BY <1>1, <1>3 DEF Reads
<1>5. \A b, rows : Lists(b, rows)' <=> Lists(b, rows)
  BY SameSelect DEF Lists
<1>6. AllRows' = AllRows /\ MatchingPlaces' = MatchingPlaces
  BY SameSelect, SameRows DEF AllRows, MatchingPlaces
<1>7. Found' = Found
  BY <1>2, SameListings DEF Found
<1>8. \A s : Planned(s)' <=> Planned(s)
  BY <1>1, <1>2 DEF Planned
<1>9. \A s, b : Fits(s, b)' <=> Fits(s, b)
  BY <1>4, <1>5, <1>6, <1>7, <1>8, SameListings DEF Fits
<1>10. \A r : GroupsFound(r)' <=> GroupsFound(r)
  <2> DEFINE C(g) == Cardinality({i \in Answer!Matching : Answer!Tuple(i) = g})
  <2>1. \A g : C(g)' = C(g)
    BY SameRows
  <2>2. \A r : GroupsFound(r) <=>
            \E e \in Bijection(DOMAIN r, Answer!Groups) : \A g \in DOMAIN r :
                (\A j \in DOMAIN Answer!Idents : r[g].row[j] = e[g][j]) /\ r[g].count = C(e[g])
    BY DEF GroupsFound
  <2>3. \A r : GroupsFound(r)' <=>
            \E e \in Bijection(DOMAIN r, Answer!Groups') : \A g \in DOMAIN r :
                (\A j \in DOMAIN Answer!Idents' : r[g].row[j] = e[g][j]) /\ r[g].count = C(e[g])'
    BY DEF GroupsFound
  <2> HIDE DEF C
  <2> QED
    BY <2>1, <2>2, <2>3, SameSelect, SameRows
<1> QED
  BY <1>3, <1>9, <1>10

-----------------------------------------------------------------------------
(* AnswerInv is inductive, with PipeInv.                                   *)

\* A step that goes on with its block.
LEMMA FitsGoOn ==
  ASSUME PipeInv, AnswerInv, Answer!Promised, step \in {"filter", "drop", "order", "limit"},
         Take(step), NEW b, GoodBlock(b, table), Fits(step, Block) => Fits(Behind(step), b),
         out' = Push(out, b),
         UNCHANGED <<query, table, step, results, reply>>
  PROVE  AnswerInv'
<1>1. in.blocks # <<>> /\ in' = [in EXCEPT !.blocks = Tail(@)]
  BY DEF Take
<1>2. /\ One(in) /\ Fits(step, in.blocks[1]) /\ out.blocks = <<>>
      /\ reply' = <<>> /\ (step = "filter" => results' = <<>>)
  BY <1>1 DEF AnswerInv, Working
<1>3. GoodStream(in, table) /\ GoodStream(out, table)
  BY DEF PipeInv, Working
<1>4. Block = in.blocks[1] /\ in'.blocks = <<>>
  BY <1>1, <1>2, <1>3, LoneTaken DEF Block
<1>5. Fits(Behind(step), b)
  BY <1>2, <1>4
<1>6. One(out') /\ out'.blocks[1] = b
  BY <1>2, <1>3, LonePushed
<1> DEFINE n == Behind(step)
<1>7. Behind(step)' = n
  BY DEF Behind
<1>8. Fits(n, b)'
  <2>1. PICK m : m = n
    OBVIOUS
  <2>2. Fits(m, b)'
    BY <1>5, <2>1, StillFits
  <2> QED
    BY <1>7, <2>1, <2>2
<1>9. Fits(Behind(step), out.blocks[1])'
  BY <1>6, <1>8
<1> QED
  BY <1>2, <1>4, <1>6, <1>9 DEF AnswerInv, Final, One

\* A step that hands its block on.
LEMMA FitsHandedOn ==
  ASSUME query \in Queries, table \in Tables, Answer!Promised,
         step \in {"interpret", "filter", "group", "drop", "order", "limit"}, reply = <<>>,
         step \in {"interpret", "filter"} => results = <<>>,
         NEW s, GoodStream(s, table), One(s), Fits(Behind(step), s.blocks[1]),
         in' = Close(s), out' = EmptyStream, step' = After(step),
         UNCHANGED <<query, table, results, reply>>
  PROVE  AnswerInv'
<1>1. After(step) \in Working
  BY NextStep
<1>2. After(step) \in {"filter", "group"} => results = <<>>
  BY NextStep
<1>3. IsBlock(s.blocks[1])
  <2>1. 1 \in DOMAIN s.blocks
    BY SeqFacts DEF GoodStream, One
  <2> QED
    BY <2>1 DEF GoodStream, GoodBlock
<1>4. Fits(After(step), s.blocks[1])
  BY <1>3, FitsOn
<1>5. One(in') /\ in'.blocks[1] = s.blocks[1] /\ out'.blocks = <<>>
  BY Closed DEF One, EmptyStream
<1>6. Fits(step, in.blocks[1])'
  <2>1. PICK m : m = After(step)
    OBVIOUS
  <2>2. Fits(m, s.blocks[1])'
    BY <1>4, <2>1, StillFits
  <2> QED
    BY <1>5, <2>1, <2>2
<1>7. step' \in Working /\ reply' = <<>> /\ (step' \in {"filter", "group"} => results' = <<>>)
  BY <1>1, <1>2
<1>8. step' # "interpret" /\ step' \notin Final
  BY <1>7 DEF Working, Final
<1> QED
  BY <1>5, <1>6, <1>7, <1>8 DEF AnswerInv, One

LEMMA AnswerInterpreted ==
  ASSUME PipeInv, AnswerInv, Interpret
  PROVE  AnswerInv'
<1>1. step = "interpret" /\ UNCHANGED <<query, table>> /\ query \in Queries /\ table \in Tables
  BY DEF Interpret, Stop, PipeInv
<1> SUFFICES ASSUME Answer!Promised PROVE AnswerInv'
  BY <1>1, SamePromise DEF AnswerInv
<1>2. /\ ~SelectFails
      /\ in' = Close(Push(EmptyStream, ReadColumns(table, AllColumns)))
      /\ step' = After(step) /\ UNCHANGED <<query, table, out, results, reply>>
  BY <1>1, QueryRuns DEF Interpret
<1> DEFINE b == ReadColumns(table, AllColumns)
           s == Push(EmptyStream, b)
<1>3. GoodBlock(b, table)
  BY <1>1, <1>2, FirstBlock
<1>4. Fits(Behind(step), b)
  <2>1. Behind(step) = "filter"
    BY <1>1 DEF Behind
  <2>2. Reads(b, AllRows)
    BY <1>1, RowsRead
  <2> QED
    BY <2>1, <2>2 DEF Fits
<1> HIDE DEF b
<1>5. One(s) /\ s.blocks[1] = b /\ GoodStream(s, table)
  BY <1>3, EmptyIsGood, LonePushed, Pushed
<1>6. in' = Close(s)
  BY <1>2 DEF b
<1>7. results = <<>> /\ reply = <<>> /\ out' = EmptyStream
  BY <1>1, <1>2 DEF AnswerInv, PipeInv
<1>8. Fits(Behind(step), s.blocks[1])
  BY <1>4, <1>5
<1> HIDE DEF s
<1> QED
  BY <1>1, <1>2, <1>5, <1>6, <1>7, <1>8, FitsHandedOn

LEMMA AnswerFiltered ==
  ASSUME PipeInv, AnswerInv, FilterNext
  PROVE  AnswerInv'
<1>1. /\ step = "filter" /\ Take(step) /\ in.blocks # <<>>
      /\ FilterDefined(Block, Filter) /\ ~FilterFails(Block, Filter)
      /\ out' = Push(out, FilterBlock(Block, Filter))
      /\ UNCHANGED <<query, table, step, results, reply>>
  BY DEF FilterNext, HasWork, Take
<1> SUFFICES ASSUME Answer!Promised PROVE AnswerInv'
  BY <1>1, SamePromise DEF AnswerInv
<1>2. /\ GoodBlock(Block, table) /\ query \in Queries /\ table \in Tables /\ Filtering
      /\ step \in Working
  BY <1>1, BlockAtHand DEF PipeInv, Planned, Working
<1>3. FilterColumn(Block, Filter.args[1]) \in DOMAIN Block
  BY <1>1, <1>2, FilterColumnFound DEF GoodBlock
<1>4. GoodBlock(FilterBlock(Block, Filter), table)
  BY <1>2, <1>3, FilteredBlock DEF GoodBlock
<1>5. Fits(step, Block) => Fits(Behind(step), FilterBlock(Block, Filter))
  <2>1. Behind(step) = "group"
    BY <1>1 DEF Behind
  <2>2. Fits(step, Block) => Reads(Block, AllRows)
    BY <1>1 DEF Fits
  <2>3. Reads(Block, AllRows) => Reads(FilterBlock(Block, Filter), MatchingPlaces)
    BY <1>2, FilterAtHand DEF GoodBlock
  <2> QED
    BY <2>1, <2>2, <2>3 DEF Fits
<1> QED
  BY <1>1, <1>4, <1>5, FitsGoOn

LEMMA AnswerGrouped ==
  ASSUME PipeInv, AnswerInv, GroupNext
  PROVE  AnswerInv'
<1>1. /\ step = "group" /\ step' = "group" /\ UNCHANGED <<query, table, out, reply>>
      /\ in.blocks # <<>> /\ in' = [in EXCEPT !.blocks = Tail(@)]
      /\ template' = CloneWithoutData(Block)
      /\ results' = GroupBlock(results, Block, Functions)
  BY DEF GroupNext, HasWork, Take
<1> SUFFICES ASSUME Answer!Promised PROVE AnswerInv'
  BY <1>1, SamePromise DEF AnswerInv
<1>2. /\ One(in) /\ Fits(step, in.blocks[1]) /\ results = <<>> /\ out.blocks = <<>>
      /\ reply' = <<>>
  BY <1>1 DEF AnswerInv, Working
<1>3. /\ GoodStream(in, table) /\ step \in Working /\ query \in Queries /\ table \in Tables
      /\ Grouping
  BY <1>1 DEF PipeInv, Working, Planned
<1>4. Block = in.blocks[1] /\ in'.blocks = <<>>
  BY <1>1, <1>2, <1>3, LoneTaken DEF Block
<1>5. IsBlock(Block) /\ Reads(Block, MatchingPlaces) /\ HasColumnsRead(Block)
  BY <1>1, <1>2, <1>3, <1>4, BlockAtHand DEF GoodBlock, Fits, Reads
<1>6. GroupsFound(GroupBlock(<<>>, Block, Functions))
  BY <1>3, <1>5, GroupsAtHand
<1>7. HasColumnsRead(CloneWithoutData(Block))
  BY <1>5, ClonedColumns
<1>8. HasColumnsRead(template)'
  <2>1. PICK t : t = CloneWithoutData(Block)
    OBVIOUS
  <2>2. HasColumnsRead(t)'
    BY <1>1, <1>7, <2>1, StillFits
  <2> QED
    BY <1>1, <2>1, <2>2
<1>9. GroupsFound(results)'
  <2>1. PICK r : r = GroupBlock(<<>>, Block, Functions)
    OBVIOUS
  <2>2. GroupsFound(r)'
    BY <1>1, <1>6, <2>1, StillFits
  <2> QED
    BY <1>1, <1>2, <2>1, <2>2
<1> QED
  BY <1>1, <1>2, <1>4, <1>8, <1>9 DEF AnswerInv, Final

LEMMA AnswerPassesDrop ==
  ASSUME PipeInv, AnswerInv, DropNext
  PROVE  AnswerInv'
<1>1. /\ step = "drop" /\ in.blocks # <<>> /\ Take(step)
      /\ out' = Push(out, DropTmpColumns(Block))
      /\ UNCHANGED <<query, table, step, results, reply>>
  BY DEF DropNext, HasWork
<1> SUFFICES ASSUME Answer!Promised PROVE AnswerInv'
  BY <1>1, SamePromise DEF AnswerInv
<1>2. GoodBlock(DropTmpColumns(Block), table)
  BY <1>1, BlockAtHand, DroppedColumns DEF GoodBlock, Working
<1>3. Fits(step, Block) => Fits(Behind(step), DropTmpColumns(Block))
  BY <1>1, ColumnsDropped DEF Behind
<1> QED
  BY <1>1, <1>2, <1>3, FitsGoOn

LEMMA AnswerSorted ==
  ASSUME PipeInv, AnswerInv, OrderNext
  PROVE  AnswerInv'
<1>1. /\ step = "order" /\ in.blocks # <<>> /\ Take(step) /\ Block # <<>>
      /\ UNCHANGED <<query, table, step, results, reply>>
  BY DEF OrderNext, HasWork
<1>2. PICK p \in Sortings(Block, OrderByColumns(Block, query.orderBy)) :
          out' = Push(out, PickRows(Block, p))
  BY DEF OrderNext
<1> SUFFICES ASSUME Answer!Promised PROVE AnswerInv'
  BY <1>1, SamePromise DEF AnswerInv
<1>3. /\ GoodBlock(Block, table) /\ step \in Working /\ query \in Queries /\ table \in Tables
      /\ query.orderBy # <<>>
  BY <1>1, BlockAtHand DEF Working, PipeInv, Planned
<1>4. p \in Bijection(1..Rows(Block), 1..Rows(Block))
  BY <1>2 DEF Sortings
<1>5. Rows(Block) \in Nat /\ DOMAIN p = 1..Rows(Block)
  <2>1. 1 \in DOMAIN Block
    BY <1>1, <1>3, SeqFacts DEF GoodBlock, IsBlock
  <2> QED
    BY <1>1, <1>3, <1>4, <2>1, SeqFacts DEF GoodBlock, IsBlock, Rows, Bijection, Injection
<1>6. GoodBlock(PickRows(Block, p), table)
  BY <1>3, <1>5, PickedRows DEF GoodBlock
<1>7. Fits(step, Block) => Fits(Behind(step), PickRows(Block, p))
  <2>1. step = "order" /\ Behind(step) = "limit"
    BY <1>1 DEF Behind
  <2>2. Fits("order", Block) => Fits("limit", PickRows(Block, p))
    BY <1>2, <1>3, RowsSorted DEF GoodBlock
  <2> QED
    BY <2>1, <2>2
<1> QED
  BY <1>1, <1>2, <1>6, <1>7, FitsGoOn

LEMMA AnswerCut ==
  ASSUME PipeInv, AnswerInv, LimitNext
  PROVE  AnswerInv'
<1>1. /\ step = "limit" /\ in.blocks # <<>> /\ Take(step)
      /\ out' = Push(out, CutBlock(Block, GetInt(query.limit.value)))
      /\ UNCHANGED <<query, table, step, results, reply>>
  BY DEF LimitNext, HasWork
<1> SUFFICES ASSUME Answer!Promised PROVE AnswerInv'
  BY <1>1, SamePromise DEF AnswerInv
<1>2. /\ GoodBlock(Block, table) /\ query \in Queries /\ table \in Tables
      /\ query.limit.kind = "integer"
  BY <1>1, BlockAtHand DEF Working, PipeInv, Planned
<1>3. GetInt(query.limit.value) \in Int
  BY <1>2, QueriesAssumption, IntRead
<1>4. GoodBlock(CutBlock(Block, GetInt(query.limit.value)), table)
  BY <1>2, <1>3, CutColumns DEF GoodBlock
<1>5. Fits(step, Block) => Fits(Behind(step), CutBlock(Block, GetInt(query.limit.value)))
  <2>1. step = "limit" /\ Behind(step) = "print"
    BY <1>1 DEF Behind
  <2>2. Fits("limit", Block) => Fits("print", CutBlock(Block, GetInt(query.limit.value)))
    BY <1>2, RowsCut DEF GoodBlock
  <2> QED
    BY <2>1, <2>2
<1> QED
  BY <1>1, <1>4, <1>5, FitsGoOn

LEMMA AnswerEndStep ==
  ASSUME PipeInv, AnswerInv, EndStep
  PROVE  AnswerInv'
<1>1. PICK s \in {"filter", "drop", "order", "limit"} : Handover(s, out)
  BY DEF EndStep
<1>2. /\ step = s /\ in' = Close(out) /\ out' = EmptyStream /\ step' = After(step)
      /\ UNCHANGED <<query, table, results, reply>> /\ in.blocks = <<>>
  BY <1>1 DEF Handover, EndStep, More
<1> SUFFICES ASSUME Answer!Promised PROVE AnswerInv'
  BY <1>2, SamePromise DEF AnswerInv
<1>3. GoodStream(out, table) /\ query \in Queries /\ table \in Tables
  BY <1>2 DEF PipeInv, Working
<1>4. ~One(in)
  BY <1>2, NoneIsSeq DEF One
<1>5. /\ One(out) /\ Fits(Behind(step), out.blocks[1]) /\ reply = <<>>
      /\ step = "filter" => results = <<>>
  BY <1>2, <1>4 DEF AnswerInv, Working
<1>6. step \in {"interpret", "filter"} => results = <<>>
  BY <1>2, <1>5
<1>7. step \in {"interpret", "filter", "group", "drop", "order", "limit"}
  BY <1>2
<1> QED
  BY <1>2, <1>3, <1>5, <1>6, <1>7, FitsHandedOn

LEMMA AnswerEndGroup ==
  ASSUME PipeInv, AnswerInv, EndGroup
  PROVE  AnswerInv'
<1>1. PICK p \in Bijection(DOMAIN results, DOMAIN results) :
          Handover("group", Push(out, GroupColumns(template,
                       [g \in DOMAIN results |-> results[p[g]]], Functions)))
  BY DEF EndGroup
<1> DEFINE c == GroupColumns(template, [g \in DOMAIN results |-> results[p[g]]], Functions)
           s == Push(out, c)
<1>2. /\ step = "group" /\ in' = Close(s) /\ out' = EmptyStream
      /\ step' = After(step) /\ UNCHANGED <<query, table, results, template, reply>>
      /\ in.blocks = <<>>
  BY <1>1 DEF Handover, EndGroup, More
<1> SUFFICES ASSUME Answer!Promised PROVE AnswerInv'
  BY <1>2, SamePromise DEF AnswerInv
<1>3. /\ query \in Queries /\ table \in Tables /\ GoodStream(out, table)
      /\ IsGroups(results) /\ IsBlock(template) /\ Grouping
  BY <1>2 DEF PipeInv, Working, Planned
<1>4. /\ HasColumnsRead(template) /\ GroupsFound(results)
      /\ out.blocks = <<>> /\ reply = <<>>
  <2>1. ~One(in)
    BY <1>2, NoneIsSeq DEF One
  <2> QED
    BY <1>2, <2>1 DEF AnswerInv, Working
<1>5. Fits("drop", c)
  BY <1>3, <1>4, GroupsHandedOn
<1>6. GoodBlock(c, table)
  <2> DEFINE rs == [g \in DOMAIN results |-> results[p[g]]]
  <2>1. DOMAIN rs = 1..Len(results) /\ Len(results) \in Nat
    BY <1>3, SeqFacts DEF IsGroups
  <2>2. c = GroupColumns(template, rs, Functions) /\ IsSeq(Functions)
    BY <1>3, NodesPromised
  <2> HIDE DEF rs, c
  <2> QED
    BY <1>3, <2>1, <2>2, GroupedColumns DEF GoodBlock
<1> HIDE DEF c
<1>7. GoodStream(s, table) /\ One(s) /\ s.blocks[1] = c
  BY <1>3, <1>4, <1>6, Pushed, LonePushed
<1>8. Behind(step) = "drop"
  BY <1>2 DEF Behind
<1>9. Fits(Behind(step), s.blocks[1])
  BY <1>5, <1>7, <1>8
<1> HIDE DEF s
<1>10. /\ step \in {"interpret", "filter", "group", "drop", "order", "limit"}
       /\ step \notin {"interpret", "filter"}
  BY <1>2
<1> QED
  BY <1>2, <1>3, <1>4, <1>7, <1>9, <1>10, FitsHandedOn

\* The one block is printed.
LEMMA AnswerShown ==
  ASSUME PipeInv, AnswerInv, PrintBlock
  PROVE  AnswerInv'
<1> DEFINE h == Map(LAMBDA c : IF c.alias = <<>> THEN c.name ELSE c.alias, Block)
           w == [i \in 1..Rows(Block) |-> [j \in DOMAIN Block |-> Block[j].data[i]]]
           x == [header |-> h, rows |-> w]
<1>1. /\ step = "print" /\ step' = "print" /\ UNCHANGED <<query, table, out, results>>
      /\ in.blocks # <<>> /\ in' = [in EXCEPT !.blocks = Tail(@)]
      /\ reply' = Append(reply, x)
  BY DEF PrintBlock, HasWork, Take
<1> SUFFICES ASSUME Answer!Promised PROVE AnswerInv'
  BY <1>1, SamePromise DEF AnswerInv
<1>2. One(in) /\ Fits(step, in.blocks[1]) /\ reply = <<>>
  BY <1>1 DEF AnswerInv
<1>3. GoodStream(in, table) /\ step \in Working /\ query \in Queries /\ table \in Tables
  BY <1>1 DEF PipeInv, Working
<1>4. Block = in.blocks[1] /\ in'.blocks = <<>>
  BY <1>1, <1>2, <1>3, LoneTaken DEF Block
<1>5. IsBlock(Block) /\ Fits("print", Block)
  BY <1>1, <1>2, <1>3, <1>4, BlockAtHand DEF GoodBlock
<1>6. h = Answer!Header /\ Answer!IsAnswer(w)
  BY <1>3, <1>5, RowsPrinted
<1> HIDE DEF h, w
<1>7. x.header = h /\ x.rows = w
  OBVIOUS
<1> HIDE DEF x
<1>8. Len(reply') = 1 /\ reply'[1] = x
  <2>1. Append(<<>>, x)[Len(<<>>) + 1] = x /\ Len(Append(<<>>, x)) = Len(<<>>) + 1
    BY NoneIsSeq, AppendToSeq
  <2> QED
    BY <1>1, <1>2, <2>1, NoneIsSeq
<1>9. Answered'
  <2>1. reply'[1].header = Answer!Header' /\ reply'[1].rows = w
    BY <1>1, <1>6, <1>7, <1>8, SameSelect
  <2>2. PICK y : y = w
    OBVIOUS
  <2>3. Answer!IsAnswer(y)'
    BY <1>1, <1>6, <2>2, SameListings
  <2>4. Answer!IsAnswer(reply[1].rows)'
    BY <2>1, <2>2, <2>3
  <2> QED
    BY <1>8, <2>1, <2>4 DEF Answered
<1> QED
  BY <1>1, <1>4, <1>9 DEF AnswerInv, Working, Final

LEMMA StillAnswered ==
  ASSUME UNCHANGED <<query, table, reply>>
  PROVE  Answered' <=> Answered
<1>1. Answer!Header' = Answer!Header
  BY SameSelect
<1>2. PICK y : y = reply[1].rows
  OBVIOUS
<1>3. Answer!IsAnswer(y)' <=> Answer!IsAnswer(y)
  BY SameListings
<1>4. Answer!IsAnswer(reply[1].rows)' <=> Answer!IsAnswer(reply[1].rows)
  BY <1>2, <1>3
<1> QED
  BY <1>1, <1>4 DEF Answered

LEMMA AnswerEndPrint ==
  ASSUME PipeInv, AnswerInv, EndPrint
  PROVE  AnswerInv'
<1>1. /\ step = "print" /\ step' = "ok" /\ UNCHANGED <<query, table, reply>>
      /\ in.blocks = <<>> \/ Block = <<>>
  BY DEF EndPrint, Stop, More
<1> SUFFICES ASSUME Answer!Promised PROVE AnswerInv'
  BY <1>1, SamePromise DEF AnswerInv
<1>2. GoodStream(in, table) /\ query \in Queries /\ step \in Working
  BY <1>1 DEF PipeInv, Working
<1>3. ~(One(in) /\ Fits(step, in.blocks[1]))
  <2> SUFFICES ASSUME One(in), Fits(step, in.blocks[1]) PROVE FALSE
    OBVIOUS
  <2>1. in.blocks # <<>> /\ Block = in.blocks[1]
    BY <1>2, LoneTaken DEF Block
  <2>2. in.blocks[1] # <<>>
    BY <1>2, HasColumns
  <2> QED
    BY <1>1, <2>1, <2>2
<1>4. Answered
  BY <1>1, <1>3 DEF AnswerInv
<1>5. Answered'
  BY <1>1, <1>4, StillAnswered
<1> QED
  BY <1>1, <1>5 DEF AnswerInv, Working

\* A promised query has no block without columns, and no step that fails.
LEMMA AnswerNotSkipped ==
  ASSUME PipeInv, AnswerInv, SkipEmptyBlock
  PROVE  AnswerInv'
<1>1. PICK s \in {"filter", "group", "drop", "order", "limit"} : Take(s)
  BY DEF SkipEmptyBlock
<1>2. /\ step = s /\ in.blocks # <<>> /\ Block = <<>> /\ UNCHANGED <<query, table>>
  BY <1>1 DEF Take, SkipEmptyBlock
<1> SUFFICES ASSUME Answer!Promised PROVE FALSE
  BY <1>2, SamePromise DEF AnswerInv
<1>3. step \in Working /\ GoodStream(in, table) /\ query \in Queries
  BY <1>2 DEF Working, PipeInv
<1>4. One(in) /\ Fits(step, in.blocks[1])
  BY <1>2 DEF AnswerInv
<1>5. Block = in.blocks[1]
  BY <1>3, <1>4, LoneTaken DEF Block
<1> QED
  BY <1>2, <1>3, <1>4, <1>5, HasColumns

LEMMA AnswerNotFailed ==
  ASSUME PipeInv, AnswerInv, Fail
  PROVE  AnswerInv'
<1>1. /\ UNCHANGED <<query, table>>
      /\ \/ step = "filter" /\ FilterFails(Block, Filter)
         \/ step = "group" /\ NotInGroupBy(Block, GroupNames)
         \/ step = "order" /\ OrderByFails(Block, query.orderBy)
      /\ in.blocks # <<>>
  BY DEF Fail, Stop, HasWork
<1> SUFFICES ASSUME Answer!Promised PROVE FALSE
  BY <1>1, SamePromise DEF AnswerInv
<1>2. /\ step \in Working /\ GoodStream(in, table) /\ query \in Queries /\ table \in Tables
      /\ Planned(step)
  BY <1>1 DEF Working, PipeInv
<1>3. One(in) /\ Fits(step, in.blocks[1])
  BY <1>1 DEF AnswerInv
<1>4. Block = in.blocks[1] /\ IsBlock(Block)
  BY <1>1, <1>2, <1>3, LoneTaken, BlockAtHand DEF Block, GoodBlock
<1>5. Fits(step, Block)
  BY <1>3, <1>4
<1>6. CASE step = "filter"
  <2>1. Reads(Block, AllRows) /\ Filtering
    BY <1>2, <1>5, <1>6 DEF Fits, Planned
  <2>2. ~FilterFails(Block, Filter)
    BY <1>2, <1>4, <2>1, FilterAtHand
  <2> QED
    BY <1>1, <1>6, <2>2
<1>7. CASE step = "group"
  <2>1. HasColumnsRead(Block) /\ Grouping
    BY <1>2, <1>5, <1>7 DEF Fits, Planned, Reads
  <2>2. ~NotInGroupBy(Block, GroupNames)
    BY <1>2, <1>4, <2>1, GroupingPromised
  <2> QED
    BY <1>1, <1>7, <2>2
<1>8. CASE step = "order"
  <2>1. PICK rows \in Found : Lists(Block, rows)
    BY <1>5, <1>8 DEF Fits
  <2>2. ~OrderByFails(Block, query.orderBy)
    BY <1>2, <1>4, <2>1, OrderByAll
  <2> QED
    BY <1>1, <1>8, <2>2
<1> QED
  BY <1>1, <1>6, <1>7, <1>8

LEMMA AnswerNotUndefined ==
  ASSUME PipeInv, AnswerInv, GoUndefined
  PROVE  AnswerInv'
<1>1. step' = "undefined" /\ UNCHANGED <<query, table>>
  BY DEF GoUndefined, Stop
<1> SUFFICES ASSUME Answer!Promised PROVE FALSE
  BY <1>1, SamePromise DEF AnswerInv
<1>2. ~(Rectangular /\ SoundQuery)'
  BY <1>1, UndefinedKeeps DEF PipeInv
<1>3. (Rectangular' <=> Rectangular) /\ (SoundQuery' <=> SoundQuery)
  BY <1>1 DEF Rectangular, SoundQuery
<1>4. Rectangular /\ SoundQuery
  BY TablePromised DEF PipeInv
<1> QED
  BY <1>2, <1>3, <1>4

\* The query is not answered before the last step, and it and the table stay.
LEMMA RunningSteps ==
  ASSUME Next
  PROVE  UNCHANGED <<query, table>> /\ step \notin Final
<1>1. CASE Interpret
  BY <1>1 DEF Interpret, Stop, Final
<1>2. CASE SkipEmptyBlock
  BY <1>2 DEF SkipEmptyBlock, Take, Final
<1>3. CASE FilterNext \/ GroupNext \/ DropNext \/ OrderNext \/ LimitNext \/ PrintBlock
  BY <1>3 DEF FilterNext, GroupNext, DropNext, OrderNext, LimitNext, PrintBlock, HasWork, Final
<1>4. CASE Fail \/ GoUndefined
  BY <1>4 DEF Fail, GoUndefined, Stop, HasWork, Final
<1>5. CASE EndStep \/ EndGroup
  BY <1>5 DEF EndStep, EndGroup, Handover, Final
<1>6. CASE EndPrint
  BY <1>6 DEF EndPrint, Stop, Final
<1> QED
  BY <1>1, <1>2, <1>3, <1>4, <1>5, <1>6 DEF Next

\* For every promised query there is one reply, with the header and the rows that
\* SelectAnswer gives: the pipeline of InterpreterSelectQuery::execute implements it, whatever
\* steps the query needs, in whatever order the groups leave their table and std::sort puts
\* equal rows (src/Interpreters/InterpreterSelectQuery.cpp, src/Processors).
THEOREM PromiseKept == Spec => AnswersAsPromised
<1>1. Init => AnswerInv
  BY DEF Init, AnswerInv, Working, Final
<1>2. PipeInv /\ AnswerInv /\ [Next]_vars => AnswerInv'
  <2> SUFFICES ASSUME PipeInv, AnswerInv, [Next]_vars PROVE AnswerInv'
    OBVIOUS
  <2>1. CASE UNCHANGED vars
    <3>1. UNCHANGED <<query, table, step, in, out, results, template, reply>>
      BY <2>1 DEF vars
    <3>2. Answered' <=> Answered
      BY <3>1, StillAnswered
    <3>3. PICK s, b, c, n, t, r :
             /\ s = step /\ b = in.blocks[1] /\ c = out.blocks[1] /\ n = Behind(step)
             /\ t = template /\ r = results
      OBVIOUS
    <3>4. Behind(step)' = n
      BY <3>1, <3>3 DEF Behind
    <3>5. Fits(s, b)' <=> Fits(s, b)
      BY <3>1, StillFits
    <3>6. Fits(n, c)' <=> Fits(n, c)
      BY <3>1, StillFits
    <3>7. (HasColumnsRead(t)' <=> HasColumnsRead(t)) /\ (GroupsFound(r)' <=> GroupsFound(r))
      BY <3>1, StillFits
    <3>8. Fits(step, in.blocks[1])' <=> Fits(step, in.blocks[1])
      BY <3>1, <3>3, <3>5
    <3>9. Fits(Behind(step), out.blocks[1])' <=> Fits(Behind(step), out.blocks[1])
      BY <3>1, <3>3, <3>4, <3>6
    <3>10. HasColumnsRead(template)' <=> HasColumnsRead(template)
      BY <3>1, <3>3, <3>7
    <3>11. GroupsFound(results)' <=> GroupsFound(results)
      BY <3>1, <3>3, <3>7
    <3> QED
      BY <3>1, <3>2, <3>8, <3>9, <3>10, <3>11, SamePromise DEF AnswerInv, One
  <2> QED
    BY <2>1, AnswerInterpreted, AnswerNotSkipped, AnswerFiltered, AnswerGrouped,
       AnswerPassesDrop, AnswerSorted, AnswerCut, AnswerNotFailed, AnswerNotUndefined,
       AnswerEndStep, AnswerEndGroup, AnswerShown, AnswerEndPrint DEF Next
<1>3. Init => Answer!Init
  BY DEF Init, Answer!Init, Final
<1>4. AnswerInv' /\ [Next]_vars => [Answer!Reply]_(Answer!vars)
  <2> SUFFICES ASSUME AnswerInv', [Next]_vars
               PROVE  Answer!Reply \/ UNCHANGED (Answer!vars)
    OBVIOUS
  <2>1. CASE UNCHANGED vars
    BY <2>1 DEF vars, Answer!vars
  <2>2. CASE Next /\ step' \notin Final
    BY <2>2, RunningSteps DEF Answer!vars
  <2>3. CASE Next /\ step' \in Final
    <3> DEFINE a == <<step, reply>>
               b == <<step', reply'>>
    <3>1. UNCHANGED <<query, table>> /\ step \notin Final
      BY <2>3, RunningSteps
    <3>2. Answer!Promised => step' = "ok" /\ Answered'
      BY <2>3, <3>1, SamePromise DEF AnswerInv
    <3>3. PICK y : y = reply'[1].rows
      OBVIOUS
    <3>4. Answer!IsAnswer(y)' <=> Answer!IsAnswer(y)
      BY <3>1, SameListings
    <3>5. Answer!Promised => /\ b[1] = "ok" /\ Len(b[2]) = 1
                            /\ b[2][1].header = Answer!Header /\ Answer!IsAnswer(b[2][1].rows)
      <4> SUFFICES ASSUME Answer!Promised
                   PROVE  /\ b[1] = "ok" /\ Len(b[2]) = 1
                          /\ b[2][1].header = Answer!Header /\ Answer!IsAnswer(b[2][1].rows)
        OBVIOUS
      <4>1. /\ Len(reply') = 1 /\ reply'[1].header = Answer!Header'
            /\ Answer!IsAnswer(reply[1].rows)'
        BY <3>2 DEF Answered
      <4>2. Answer!IsAnswer(y)'
        BY <3>3, <4>1
      <4> QED
        BY <3>1, <3>2, <3>3, <3>4, <4>1, <4>2, SameSelect
    <3>6. b # <<>>
      OBVIOUS
    <3> QED
      BY <2>3, <3>1, <3>5, <3>6 DEF Answer!Reply
  <2> QED
    BY <2>1, <2>2, <2>3
<1> QED
  BY <1>1, <1>2, <1>3, <1>4, PipelineInvariant, PTL DEF Spec, AnswersAsPromised, Answer!Spec
=============================================================================
