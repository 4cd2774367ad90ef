---------------------------- MODULE SelectAnswer ----------------------------
(***************************************************************************)
(* What a client may expect of a query: one reply, and for a query that is *)
(* within the promise the rows that the relational reading of SELECT gives.*)
(* There are no blocks here, no steps and no temporary columns.            *)
(***************************************************************************)
EXTENDS SelectQuery

CONSTANTS
    Queries, Tables, TableName, DefaultDB

VARIABLES
    query, table,
    answer  \* <<>> as long as there is none

vars == <<query, table, answer>>

-----------------------------------------------------------------------------
Idents == Keep(query.select, IsIdentifier)
Counts == Keep(query.select, IsFunction)
Nodes == Idents \o Counts
Aggregate == Counts # <<>>

\* How a column of the result is called.
Title(node) == IF node.alias = <<>> THEN node.name ELSE node.alias
Header == Map(Title, Nodes)

Size == Len(table[CHOOSE c \in DOMAIN table : TRUE])

\* The column of the table that a name means in WHERE, GROUP BY and ORDER BY.
ColumnNamed(n) ==
    LET renamed == {i \in DOMAIN Idents : Idents[i].alias = n}
    IN  IF n # <<>> /\ renamed # {} THEN Idents[CHOOSE i \in renamed : TRUE].name ELSE n

Wanted(node) == IF node.kind = "string" THEN node.value ELSE node.name

Matches(i) ==
    \/ query.where = None
    \/ table[ColumnNamed(query.where.args[1].name)][i] = Wanted(query.where.args[2])

Matching == {i \in 1..Size : Matches(i)}

\* The selected values of row i of the table.
Tuple(i) == Map(LAMBDA id : table[id.name][i], Idents)

\* The different ones among them, and the row for one of these with the number of rows
\* that have it.
Groups == {Tuple(i) : i \in Matching}
GroupRow(g) == Append(g, IntCell(Cardinality({i \in Matching : Tuple(i) = g})))

\* All that the result may be without ORDER BY and LIMIT: the rows in the order of the
\* file, the groups in any order.  With ORDER BY the order of the file does not count.
InFileOrder == {Map(Tuple, Increasing(Matching))}
InAnyOrder == {Map(Tuple, e) : e \in Bijection(1..Cardinality(Matching), Matching)}
Grouped == {Map(GroupRow, e) : e \in Bijection(1..Cardinality(Groups), Groups)}

Listings ==
    IF Aggregate THEN Grouped ELSE IF query.orderBy = <<>> THEN InFileOrder ELSE InAnyOrder

-----------------------------------------------------------------------------
\* The column of the result that an element of ORDER BY means.
OrderPosition(node) ==
    IF node.kind = "integer" THEN node.value
    ELSE CHOOSE j \in DOMAIN Nodes : node.name \in {Header[j], Nodes[j].name}

LexLess(v, w) ==
    \/ Len(v) < Len(w) /\ IsPrefix(v, w)
    \/ \E n \in DOMAIN v \cap DOMAIN w :
        v[n] < w[n] /\ SubSeq(v, 1, n - 1) = SubSeq(w, 1, n - 1)

\* Row v must not come after row w.
Precedes(v, w) ==
    \E k \in DOMAIN query.orderBy :
        /\ LET j == OrderPosition(query.orderBy[k].node)
           IN  IF query.orderBy[k].direction > 0 THEN LexLess(v[j], w[j])
               ELSE LexLess(w[j], v[j])
        /\ \A l \in 1..(k - 1) : LET j == OrderPosition(query.orderBy[l].node)
                                 IN  v[j] = w[j]

Ordered(rows) == \A i, j \in DOMAIN rows : i < j => ~Precedes(rows[j], rows[i])

FirstRows(rows) ==
    IF query.limit = None \/ Len(rows) <= query.limit.value THEN rows
    ELSE SubSeq(rows, 1, query.limit.value)

\* Any order of rows that ORDER BY does not tell apart will do.
IsAnswer(rows) == \E all \in Listings : Ordered(all) /\ rows = FirstRows(all)

-----------------------------------------------------------------------------
(* The promise: a table whose columns have the same length, columns that it *)
(* has, names that mean one thing, at most one count, and only then GROUP BY *)
(* by the selected columns, whose values must not join to the same key,     *)
(* equality with a string in WHERE, and a limit below IntSize.             *)
KnownId(id) ==
    /\ id.name \in DOMAIN table \ {<<>>}
    /\ id.qualifier \in {<<>>, TableName, query.table.alias}

Titles == {Header[j] : j \in DOMAIN Header}

PromisedNames ==
    /\ query.table.kind = "identifier"
    /\ query.table.name = TableName
    /\ query.table.qualifier \in {<<>>, DefaultDB}
    /\ query.select # <<>> /\ Nodes = query.select
    /\ Len(Nodes) < IntSize \div 2
    /\ \A i \in DOMAIN Idents : KnownId(Idents[i])
    /\ \A i, j \in DOMAIN Header : Header[i] = Header[j] => i = j
    /\ \A j \in DOMAIN Nodes : Nodes[j].alias \notin DOMAIN table \union {CountName}
    /\ CountName \notin DOMAIN table

\* A column whose name looks like a name with its table, or is called that, would be
\* taken for it.
NotAName(n) == n \notin DOMAIN table \union Titles \union {<<>>}

PromisedFilter ==
    \/ query.where = None /\ Idents # <<>>
    \/ /\ IsFunction(query.where)
       /\ query.where.name = EqualsName
       /\ Len(query.where.args) = 2
       /\ IsIdentifier(query.where.args[1])
       /\ \/ /\ KnownId(query.where.args[1])
             /\ Compound(query.where.args[1]) => NotAName(FullName(query.where.args[1]))
          \/ /\ query.where.args[1].name \in {Title(Idents[i]) : i \in DOMAIN Idents}
             /\ ~Compound(query.where.args[1])
       /\ \/ query.where.args[2].kind = "string"
          \/ IsIdentifier(query.where.args[2]) /\ ~Compound(query.where.args[2])

GroupedName(node) ==
    IF IsIdentifier(node) THEN ColumnNamed(node.name)
    ELSE Idents[node.value].name

\* A selected column is named by its own name, its alias or its position.
NamesColumn(node, i) ==
    LET n == IF IsIdentifier(node) THEN node.name ELSE Idents[node.value].name
    IN  n \in {Idents[i].name, Idents[i].alias}

PromisedGroups ==
    IF ~Aggregate THEN query.groupBy = <<>>
    ELSE
        /\ Len(Counts) = 1
        /\ Counts[1].name = CountName
        /\ \A k \in DOMAIN query.groupBy :
            \/ IsIdentifier(query.groupBy[k])
            \/ query.groupBy[k].kind = "integer" /\ query.groupBy[k].value \in DOMAIN Idents
        /\ {GroupedName(query.groupBy[k]) : k \in DOMAIN query.groupBy}
                = {Idents[i].name : i \in DOMAIN Idents}
        /\ \A i \in DOMAIN Idents : \E k \in DOMAIN query.groupBy : NamesColumn(query.groupBy[k], i)
        /\ \A g, h \in Groups : Joined(g) = Joined(h) => g = h

PromisedOrder ==
    \A k \in DOMAIN query.orderBy :
        LET node == query.orderBy[k].node
        IN  \/ node.kind = "integer" /\ node.value \in DOMAIN Nodes
            \/ IsIdentifier(node) /\ \E j \in DOMAIN Nodes : node.name \in {Header[j], Nodes[j].name}

PromisedLimit ==
    \/ query.limit = None
    \/ query.limit.kind = "integer" /\ query.limit.value \in 0..(IntSize - 1)

Promised ==
    /\ \A c \in DOMAIN table : Len(table[c]) = Size
    /\ Size < IntSize \div 2
    /\ PromisedNames
    /\ PromisedFilter
    /\ PromisedGroups
    /\ PromisedOrder
    /\ PromisedLimit

-----------------------------------------------------------------------------
Init ==
    /\ query \in Queries
    /\ table \in Tables
    /\ answer = <<>>

Reply ==
    /\ answer = <<>>
    /\ answer' # <<>>
    /\ Promised => /\ answer'[1] = "ok"
                   /\ Len(answer'[2]) = 1
                   /\ answer'[2][1].header = Header
                   /\ IsAnswer(answer'[2][1].rows)
    /\ UNCHANGED <<query, table>>

Spec == Init /\ [][Reply]_vars
=============================================================================
