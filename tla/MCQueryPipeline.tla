-------------------------- MODULE MCQueryPipeline ---------------------------
(* Small instances of QueryPipeline: a table with two columns and every    *)
(* combination of some select lists, filters, groups, orders and limits,   *)
(* and queries that are wrong in one place each.                           *)
EXTENDS QueryPipeline

a == <<1>>
b == <<2>>
c == <<3>>
t == <<4>>
db == <<5>>
MCCount == <<9>>
MCEquals == <<8>>

Id(n) == Identifier(n, <<>>, <<>>)
Num(n) == IntegerLiteral(n)
Star == <<OtherNode>>
CountStar == Function(MCCount, Star, <<>>)
Equals(left, right) == Function(MCEquals, <<left, right>>, <<>>)

MCTables == {
    (a :> <<<<1>>, <<2>>, <<1>>>> @@ b :> <<<<2>>, <<1>>, <<2>>>>),
    (a :> <<<<1, 1>>, <<1>>>> @@ b :> <<<<2>>, <<1, 2>>>>),
    (a :> <<<<1>>, <<2>>>> @@ b :> <<<<1>>>>),
    (a :> <<>> @@ b :> <<>>)}

Base == [select |-> <<Id(a)>>, table |-> Id(t), where |-> None,
         groupBy |-> <<>>, orderBy |-> <<>>, limit |-> None]

SelectLists == {
    <<Id(a)>>,
    <<Identifier(a, <<>>, c), Id(b)>>,
    <<CountStar>>,
    <<Identifier(a, t, c), CountStar>>,
    <<Id(a), Id(b), Function(MCCount, Star, c)>>}

Filters == {None, Equals(Id(b), StringLiteral(<<2>>)), Equals(Id(c), Id(<<1>>))}

GroupLists == {<<>>, <<Num(1)>>, <<Id(a), Identifier(b, t, <<>>)>>}

OrderLists == {
    <<>>,
    <<[node |-> Num(1), direction |-> -1]>>,
    <<[node |-> Num(2), direction |-> -1], [node |-> Id(c), direction |-> 1]>>}

Limits == {None, Num(1), Num(9), Num(17)}

Good == [select : SelectLists, table : {Id(t), Identifier(t, db, c)}, where : Filters,
         groupBy : GroupLists, orderBy : OrderLists, limit : Limits]

Odd == {
    [Base EXCEPT !.select = <<OtherNode>>],
    [Base EXCEPT !.select = <<OtherNode>>, !.where = Equals(Id(b), StringLiteral(<<2>>))],
    [Base EXCEPT !.select = <<OtherNode>>, !.where = Equals(Id(b), StringLiteral(<<2>>)),
                 !.limit = Num(1)],
    [Base EXCEPT !.select = <<Id(a), Id(a)>>],
    [Base EXCEPT !.select = <<Id(c)>>],
    [Base EXCEPT !.select = <<Identifier(a, c, <<>>)>>],
    [Base EXCEPT !.select = <<Function(<<7>>, Star, <<>>)>>],
    [Base EXCEPT !.table = None],
    [Base EXCEPT !.table = OtherNode],
    [Base EXCEPT !.table = Id(c)],
    [Base EXCEPT !.table = Identifier(t, c, <<>>)],
    [Base EXCEPT !.where = Id(b)],
    [Base EXCEPT !.where = Equals(Id(b), Num(1))],
    [Base EXCEPT !.where = Equals(Id(b), OtherNode)],
    [Base EXCEPT !.where = Equals(Id(b), Identifier(a, b, <<>>))],
    [Base EXCEPT !.where = Equals(StringLiteral(b), Id(b))],
    [Base EXCEPT !.where = Equals(Identifier(b, t, <<>>), Id(<<2>>))],
    [Base EXCEPT !.where = Function(MCEquals, <<Id(b)>>, <<>>)],
    [Base EXCEPT !.where = Function(<<7>>, <<Id(b), Id(b)>>, <<>>)],
    [Base EXCEPT !.groupBy = <<Num(2)>>],
    [Base EXCEPT !.orderBy = <<[node |-> Id(b), direction |-> 1]>>],
    [Base EXCEPT !.orderBy = <<[node |-> Num(2), direction |-> 1]>>],
    [Base EXCEPT !.orderBy = <<[node |-> OtherNode, direction |-> 1],
                               [node |-> Id(a), direction |-> 1]>>],
    [Base EXCEPT !.limit = OtherNode]}

MCQueries == Good \union Odd

ManyCounts == {
    [Base EXCEPT !.select = <<Id(a), CountStar, Function(MCCount, Star, c)>>,
                 !.groupBy = <<Id(a)>>]}
=============================================================================
