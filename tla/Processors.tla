----------------------------- MODULE Processors -----------------------------
(***************************************************************************)
(* What the steps of a query do to one block (src/Processors).  A block is *)
(* the sequence of its columns.  Reading past the end of a column is        *)
(* undefined, and so is using a null pointer; the operators named ...Defined*)
(* say when a step stays clear of that.                                     *)
(***************************************************************************)
EXTENDS SelectQuery

Rows(b) == IF b = <<>> THEN 0 ELSE Len(b[1].data)

CloneWithoutData(b) == Map(LAMBDA c : [c EXCEPT !.data = <<>>], b)

\* The rows at the positions is, in that order.
PickRows(b, is) == Map(LAMBDA c : [c EXCEPT !.data = [k \in DOMAIN is |-> @[is[k]]]], b)

\* Every column can be read at every position of is.
Readable(b, is) == \A j \in DOMAIN b : \A i \in is : i <= Len(b[j].data)

\* Every column has at least as many values as the first.
RowsReadable(b) == Readable(b, 1..Rows(b))

-----------------------------------------------------------------------------
\* SelectStep: the values of the files, row by row until a file has ended; in
\* the last row the values of the longer ones move to the left.
ReadColumns(files, cols) ==
    LET lens   == {Len(files[cols[k].name]) : k \in DOMAIN cols}
        all    == Min(lens)
        longer == Increasing({k \in DOMAIN cols : Len(files[cols[k].name]) > all})
    IN  [k \in DOMAIN cols |->
            [cols[k] EXCEPT !.data =
                SubSeq(files[cols[k].name], 1, all) \o
                IF k \in DOMAIN longer
                THEN <<files[cols[longer[k]].name][all + 1]>> ELSE <<>>]]

-----------------------------------------------------------------------------
\* FilterBlock: the columns that the left side of = can mean, of which the first
\* one is taken.
FilterColumns(b, id) ==
    {i \in DOMAIN b : \/ b[i].name \in {FullName(id), id.name}
                      \/ b[i].alias = FullName(id)}

FilterColumn(b, id) == Min(FilterColumns(b, id))

\* The right side: a string, or an identifier taken as one, which is how a string
\* in double quotes comes out of the parser; the empty string for anything else.
FilterValue(node) ==
    CASE node.kind = "string"     -> node.value
      [] node.kind = "identifier" -> node.name
      [] OTHER                    -> <<>>

FilterFails(b, filter) ==
    \/ IsIdentifier(filter.args[2]) /\ Compound(filter.args[2])
    \/ IsIdentifier(filter.args[1]) /\ FilterColumns(b, filter.args[1]) = {}

Hits(b, filter) ==
    LET c == b[FilterColumn(b, filter.args[1])]
    IN  {i \in DOMAIN c.data : c.data[i] = FilterValue(filter.args[2])}

\* The left side must be an identifier, a literal on the right a string.
FilterDefined(b, filter) ==
    /\ filter.args[2].kind \notin {"integer", "number"}
    /\ \/ IsIdentifier(filter.args[2]) /\ Compound(filter.args[2])
       \/ /\ IsIdentifier(filter.args[1])
          /\ FilterFails(b, filter) \/ Readable(b, Hits(b, filter))

\* A filter that leaves the temporary columns as they are.
FilterBlock_OnlySelected(b, filter) ==
    LET kept == PickRows(b, Increasing(Hits(b, filter)))
    IN  [j \in DOMAIN b |-> IF b[j].tmp THEN CloneWithoutData(b)[j] ELSE kept[j]]

FilterBlock(b, filter) == PickRows(b, Increasing(Hits(b, filter)))

-----------------------------------------------------------------------------
\* GroupByStep.  results is the table of the groups met so far, in the order in
\* which they were met.
NotInGroupBy(b, names) ==
    \E j \in DOMAIN b : ~b[j].tmp /\ {b[j].name, b[j].alias} \cap names = {}

DropTmpColumns(b) == Keep(b, LAMBDA c : ~c.tmp)

\* The key of a row joins its values, but for those of temporary columns.
Key(b, i) == Joined(Map(LAMBDA c : c.data[i], DropTmpColumns(b)))

\* A new group whose counter does not count the row that it was made for.
Visit_FromZero(results, b, i, functions) ==
    LET same == {g \in DOMAIN results : results[g].key = Key(b, i)}
    IN  IF same = {}
        THEN Append(results, [key   |-> Key(b, i),
                              row   |-> [j \in DOMAIN b |-> b[j].data[i]],
                              count |-> 0])
        ELSE [results EXCEPT ![Min(same)].count = @ + 1]

\* What one of the functions does with a row: a group that is met for the first
\* time is counted once for every function; a known one has only one counter, the
\* functions all being called count.
Visit(results, b, i, functions) ==
    LET same == {g \in DOMAIN results : results[g].key = Key(b, i)}
    IN  IF same = {}
        THEN Append(results, [key   |-> Key(b, i),
                              row   |-> [j \in DOMAIN b |-> b[j].data[i]],
                              count |-> Len(functions)])
        ELSE [results EXCEPT ![Min(same)].count = @ + 1]

\* Row after row, and for each row one function after the other: the groups after k visits.
GroupBlock(results, b, functions) ==
    LET n == Len(functions)
        met[k \in 0..(Rows(b) * n)] ==
            IF k = 0 THEN results
            ELSE Visit(met[k - 1], b, ((k - 1) \div n) + 1, functions)
    IN  met[Rows(b) * n]

\* The block of the results: the columns of the last block, then the functions.
GroupColumns(template, results, functions) ==
    [j \in DOMAIN template |->
        [template[j] EXCEPT !.data = [g \in DOMAIN results |-> results[g].row[j]]]]
    \o
    [f \in DOMAIN functions |->
        Column(functions[f].name, functions[f].alias, <<>>, FALSE,
               [g \in DOMAIN results |-> IntCell(results[g].count)])]

-----------------------------------------------------------------------------
\* getOrderByColumns: of several columns of one name, or of one alias, the last
\* is meant; names come before aliases.
Named(b, n)   == {j \in DOMAIN b : b[j].name = n}
Aliased(b, n) == {j \in DOMAIN b : b[j].alias # <<>> /\ b[j].alias = n}

OrderElementFails(b, node) ==
    \/ node.kind = "integer" /\ GetInt(node.value) \notin 1..Len(b)
    \/ IsIdentifier(node) /\ Named(b, node.name) \union Aliased(b, node.name) = {}

OrderByFails(b, orderBy) ==
    \E k \in DOMAIN orderBy : OrderElementFails(b, orderBy[k].node)

OrderColumn(b, node) ==
    IF node.kind = "integer" THEN GetInt(node.value)
    ELSE IF Named(b, node.name) # {} THEN Max(Named(b, node.name))
    ELSE Max(Aliased(b, node.name))

OrderByColumns(b, orderBy) ==
    LET used == Keep(orderBy, LAMBDA e : e.node.kind = "integer" \/ IsIdentifier(e.node))
    IN  Map(LAMBDA e : [column |-> OrderColumn(b, e.node), direction |-> e.direction], used)

\* std::string and boost::variant compare letter by letter.
Less(v, w) ==
    LET n == Min({Len(v), Len(w)})
        differ == {i \in 1..n : v[i] # w[i]}
    IN  IF differ = {} THEN Len(v) < Len(w)
        ELSE v[Min(differ)] < w[Min(differ)]

\* The comparison that sortBlock gives to std::sort: the first column in which
\* rows i and j differ decides.
Before(b, by, i, j) ==
    LET Value(k, r) == b[by[k].column].data[r]
        differ == {k \in DOMAIN by : Value(k, i) # Value(k, j)}
    IN  /\ differ # {}
        /\ LET k == Min(differ)
           IN  IF by[k].direction > 0 THEN Less(Value(k, i), Value(k, j))
               ELSE Less(Value(k, j), Value(k, i))

\* std::sort may leave rows that compare equal in any order.
Sortings(b, by) ==
    {p \in Bijection(1..Rows(b), 1..Rows(b)) :
        \A i, j \in 1..Rows(b) : i < j => ~Before(b, by, p[j], p[i])}

-----------------------------------------------------------------------------
\* CutBlockIfNeeded with a comparison of signed numbers.
CutBlock_Signed(b, limit) ==
    IF b = <<>> \/ Rows(b) < limit THEN b
    ELSE Map(LAMBDA c : [c EXCEPT !.data =
                [i \in 1..limit |-> IF i <= Len(@) THEN @[i] ELSE IntCell(0)]], b)

\* CutBlockIfNeeded.  The comparison is one of unsigned numbers, in which a
\* negative limit is larger than the size of any column; a column that is shorter
\* than the first is padded with integers.
CutBlock(b, limit) ==
    IF b = <<>> \/ limit < 0 \/ Rows(b) < limit THEN b
    ELSE Map(LAMBDA c : [c EXCEPT !.data =
                [i \in 1..limit |-> IF i <= Len(@) THEN @[i] ELSE IntCell(0)]], b)
=============================================================================
