--------------------------- MODULE MCExecuteQuery ----------------------------
(***************************************************************************)
(* Queries for ExecuteQuery that are written from trees.  A phrase is a     *)
(* piece of text together with the tree that it means and the level of its  *)
(* outermost operator; larger phrases are put together from smaller ones,   *)
(* with brackets around those that bind too weakly.                         *)
(***************************************************************************)
EXTENDS ExecuteQuery

VARIABLE meant \* the tree that the text was written for, Null if there is none

MCWords == Restricted \union {"SELECT", "a", "b", "t", "f", "AS", "AND", "OR", "BY", "TIES",
    "DATE", "TIMESTAMP", "LOCAL", "OUTER", "IS", "NULL", "NULLS", "IN", "DESC", "DISTINCT", "toDate", "count"}
MCQuoted   == ("\"q\"" :> "q")
MCIntegral == ("1" :> 1) @@ ("2" :> 2)
MCStrings  == {"'s'"}
MCBareDates == {<<"1", "-", "1", "-", "1">>}

-----------------------------------------------------------------------------
\* Levels of the grammar, the weakest first.
Phrase(tokens, meaning, level) == [tokens |-> tokens, tree |-> meaning, level |-> level]

OfLambda == 0
OfTernary == 1
OfOr == 2
OfAnd == 3
OfNot == 4
OfNull == 5
OfComparison == 6
OfBetween == 7
OfConcat == 8
OfSum == 9
OfCast == 10
OfProduct == 11
OfMinus == 12
OfAccess == 13
OfElement == 14

\* The tokens of p where the grammar asks for something of a level or stronger.
In(p, level) == IF p.level >= level THEN p.tokens ELSE <<"(">> \o p.tokens \o <<")">>

a == Identifier(<<"a">>)
b == Identifier(<<"b">>)
Integer(n) == Literal("integer", n)
S == Literal("string", "'s'")

Elements == {
    Phrase(<<"a">>, a, OfElement),
    Phrase(<<"1">>, Integer(1), OfElement),
    Phrase(<<"'s'">>, S, OfElement),
    Phrase(<<"t", ".", "\"q\"">>, Identifier(<<"t", "q">>), OfElement)}

Few == {Phrase(<<"a">>, a, OfElement), Phrase(<<"2">>, Integer(2), OfElement)}

\* The binary operators: level of the phrase, of its left and of its right operand.

Binary == {
    [op |-> <<"+">>, f |-> "plus", at |-> OfSum, left |-> OfSum, right |-> OfCast],
    [op |-> <<"-">>, f |-> "minus", at |-> OfSum, left |-> OfSum, right |-> OfCast],
    [op |-> <<"*">>, f |-> "multiply", at |-> OfProduct, left |-> OfProduct, right |-> OfMinus],
    [op |-> <<"%">>, f |-> "modulo", at |-> OfProduct, left |-> OfProduct, right |-> OfMinus],
    [op |-> <<"=">>, f |-> "equals", at |-> OfComparison, left |-> OfComparison, right |-> OfBetween],
    [op |-> <<"<=">>, f |-> "lessOrEquals", at |-> OfComparison, left |-> OfComparison, right |-> OfBetween],
    [op |-> <<"NOT", "LIKE">>, f |-> "notLike", at |-> OfComparison, left |-> OfComparison, right |-> OfBetween],
    [op |-> <<"||">>, f |-> "concat", at |-> OfConcat, left |-> OfSum, right |-> OfSum],
    [op |-> <<"AND">>, f |-> "and", at |-> OfAnd, left |-> OfNot, right |-> OfNot],
    [op |-> <<"OR">>, f |-> "or", at |-> OfOr, left |-> OfAnd, right |-> OfAnd]}

Unary == {
    [before |-> <<"NOT">>, after |-> <<>>, f |-> "not", at |-> OfNot, of |-> OfNull],
    [before |-> <<"NOT", "NOT", "NOT">>, after |-> <<>>, f |-> "not", at |-> OfNot, of |-> OfNull],
    [before |-> <<>>, after |-> <<"IS", "NULL">>, f |-> "isNull", at |-> OfNull, of |-> OfComparison],
    [before |-> <<>>, after |-> <<"IS", "NOT", "NULL">>, f |-> "isNotNull", at |-> OfNull, of |-> OfComparison],
    [before |-> <<"f", "(">>, after |-> <<")">>, f |-> "f", at |-> OfElement, of |-> OfLambda],
    [before |-> <<"(">>, after |-> <<",", ")">>, f |-> "tuple", at |-> OfElement, of |-> OfLambda]}

BinaryPhrases(L, R) ==
    {Phrase(In(l, o.left) \o o.op \o In(r, o.right), Call(o.f, <<l.tree, r.tree>>), o.at) :
        l \in L, r \in R, o \in Binary}

UnaryPhrases(X) ==
    {Phrase(o.before \o In(x, o.of) \o o.after, Call(o.f, <<x.tree>>), o.at) :
        x \in X, o \in Unary}
    \union {Phrase(<<"NOT", "NOT">> \o In(x, OfNull), x.tree, OfNot) : x \in X}
    \union {Phrase(<<"(">> \o x.tokens \o <<")">>, x.tree, OfElement) : x \in X}
    \* a minus before a number is the sign of the number
    \union {Phrase(<<"-">> \o In(x, OfAccess), Call("negate", <<x.tree>>), OfMinus) :
                x \in {y \in X : y.level < OfAccess \/ y.tree.kind \in {"identifier", "function"}}}
    \union {Phrase(<<"a", "[">> \o x.tokens \o <<"]">>, Call("arrayElement", <<a, x.tree>>), OfAccess) :
                x \in X}
    \union {Phrase(<<"(", "a", ",", "b", ")", "->">> \o In(x, OfTernary),
                   Call("lambda", <<Call("tuple", <<a, b>>), x.tree>>), OfLambda) : x \in X}

TernaryPhrases(X, Y, Z) ==
    {Phrase(In(x, OfOr) \o <<"?">> \o In(y, OfOr) \o <<":">> \o In(z, OfOr),
            Call("if", <<x.tree, y.tree, z.tree>>), OfTernary) : x \in X, y \in Y, z \in Z}
    \union
    {Phrase(In(x, OfConcat) \o <<"BETWEEN">> \o In(y, OfConcat) \o <<"AND">> \o In(z, OfConcat),
            Call("and", <<Call("greaterOrEquals", <<x.tree, y.tree>>),
                          Call("lessOrEquals", <<x.tree, z.tree>>)>>), OfBetween) :
        x \in X, y \in Y, z \in Z}
    \union
    {Phrase(In(x, OfConcat) \o <<"NOT", "BETWEEN">> \o In(y, OfConcat) \o <<"AND">> \o In(z, OfConcat),
            Call("or", <<Call("less", <<x.tree, y.tree>>),
                         Call("greater", <<x.tree, z.tree>>)>>), OfBetween) :
        x \in X, y \in Y, z \in Z}
    \union
    {Phrase(In(x, OfNot) \o <<"AND">> \o In(y, OfNot) \o <<"AND">> \o In(z, OfNot),
            Call("and", <<x.tree, y.tree, z.tree>>), OfAnd) : x \in X, y \in Y, z \in Z}

Casts == {Phrase(<<"DATE", "'s'">>, Call("toDate", <<S>>), OfCast),
          Phrase(<<"TIMESTAMP", "'s'">>, Call("toDateTime", <<S>>), OfCast)}

Composed(X, Y) == BinaryPhrases(X, Y) \union BinaryPhrases(Y, X) \union UnaryPhrases(X)
                  \union TernaryPhrases(X, Y, Y) \union TernaryPhrases(Y, X, Y)
                  \union TernaryPhrases(Y, Y, X)

One == {Phrase(<<"a">>, a, OfElement)}
Inner == Casts \union Composed(One, One)

Small      == Elements \union Casts \union Composed(Elements, Few)
Conditions == UNION {Small, Composed(Inner, One), BinaryPhrases(Inner, Inner)}

-----------------------------------------------------------------------------
\* Clauses of a query, each with the value of its field.
Part(tokens, value) == [tokens |-> tokens, value |-> value]
Missing == Part(<<>>, Null)

As(node, name) == [node EXCEPT !.alias = name]
t == Identifier(<<"t">>)
Count == Call("count", <<Null>>)

Selects == {
    Part(<<"a">>, Nodes(<<a>>)),
    Part(<<"a", "AS", "b", ",", "count", "(", "*", ")">>, Nodes(<<As(a, "b"), Count>>)),
    Part(<<"count", "(", "DISTINCT", "a", ")", "b">>,
         Nodes(<<As(Call("countDistinct", <<a>>), "b")>>)),
    Part(<<"1", "\"q\"", ",", "t", ".", "b">>,
         Nodes(<<As(Integer(1), "q"), Identifier(<<"t", "b">>)>>))}

\* FROM first, and tables that are joined to it.
TablesOf(first, joined) ==
    Nodes(<<ASTTablesInSelectQueryElement(first, Null)>> \o
          [i \in DOMAIN joined |-> ASTTablesInSelectQueryElement(b, joined[i])])

AsComma == [ASTTableJoin EXCEPT !.kind = "COMMA"]
UsingA  == [ASTTableJoin EXCEPT !.condition = Nodes(<<a>>)]

Froms == {
    Missing,
    Part(<<"FROM", "t">>, TablesOf(t, <<>>)),
    Part(<<"FROM", "t", "a">>, TablesOf(As(t, "a"), <<>>)),
    Part(<<"FROM", "b", ".", "t", "AS", "\"q\"">>, TablesOf(As(Identifier(<<"b", "t">>), "q"), <<>>)),
    Part(<<"FROM", "t", ",", "b">>, TablesOf(t, <<AsComma>>)),
    Part(<<"FROM", "t", "LEFT", "JOIN", "b", "USING", "(", "a", ")">>,
         TablesOf(t, <<[UsingA EXCEPT !.kind = "LEFT"]>>))}

\* The words of a join, with the strictness before the kind, behind it, or on both sides,
\* where the second one counts.
Word(w)  == IF w = "" THEN <<>> ELSE <<w>>
Named(w) == CASE w = "" -> "unspecified" [] w = "ONLY" -> "ANTI" [] OTHER -> w
Semi(w)  == w \in {"SEMI", "ONLY"}
Sided == {"LEFT", "RIGHT"}

JoinWords ==
    {w \in [place : {"", "GLOBAL", "LOCAL"}, before : {"", "ANY", "ONLY"},
            kind : {"", "INNER", "LEFT", "RIGHT", "FULL"}, behind : {"", "ASOF", "SEMI"},
            outer : {"", "OUTER"}] :
        LET strict == IF w.behind = "" THEN w.before ELSE w.behind
        IN  /\ w.outer # "" => w.kind \in Sided \union {"FULL"}
            /\ Semi(strict) => w.kind \in Sided \union {""}}

JoinMeant(w) ==
    LET strict == IF w.behind = "" THEN w.before ELSE w.behind
    IN  [UsingA EXCEPT
            !.locality = Named(w.place), !.strictness = Named(strict),
            !.kind = IF w.kind # "" THEN w.kind ELSE IF Semi(strict) THEN "LEFT" ELSE "INNER"]

\* LOCAL is not among the words that cannot be an alias: behind FROM t it is one.
JoinParts ==
    {Part(<<"FROM", "t", "AS", "a">> \o Word(w.place) \o Word(w.before) \o Word(w.kind) \o Word(w.behind)
                \o Word(w.outer) \o <<"JOIN", "b", "USING", "a">>,
          TablesOf(As(t, "a"), <<JoinMeant(w)>>)) : w \in JoinWords}
    \union
    {Part(<<"FROM", "t", "CROSS", "JOIN", "b">>,
          TablesOf(t, <<[ASTTableJoin EXCEPT !.kind = "CROSS"]>>)),
     Part(<<"FROM", "t", "JOIN", "b", "ON", "a", "OR", "a">>,
          TablesOf(t, <<[ASTTableJoin EXCEPT !.condition = Call("or", <<a, a>>)]>>)),
     Part(<<"FROM", "t", "LEFT", "ARRAY", "JOIN", "a", "AS", "b">>,
          Nodes(<<ASTTablesInSelectQueryElement(t, Null), ASTArrayJoin("LEFT", Nodes(<<As(a, "b")>>))>>))}

Groups == {Missing, Part(<<"GROUP", "BY", "a", ",", "2">>, Nodes(<<a, Integer(2)>>))}

Orders == {
    Missing,
    Part(<<"ORDER", "BY", "1", "DESC", ",", "a", "NULLS", "LAST">>,
         Nodes(<<ASTOrderByElement(Integer(1), -1), ASTOrderByElement(a, 1)>>))}

Unlimited == Part(<<>>, NoLimit)
LimitParts == {
    Unlimited,
    Part(<<"LIMIT", "1">>, [NoLimit EXCEPT !.length = Integer(1)]),
    Part(<<"LIMIT", "2", "WITH", "TIES">>, [NoLimit EXCEPT !.length = Integer(2), !.ties = TRUE]),
    Part(<<"LIMIT", "1", "BY", "a">>,
         [NoLimit EXCEPT !.byLength = Integer(1), !.by = Nodes(<<a>>)])}

Query(s, f, w, g, o, l) ==
    [tokens |-> <<"SELECT">> \o s.tokens \o f.tokens \o w.tokens \o g.tokens \o o.tokens \o l.tokens,
     tree |-> [select |-> s.value, tables |-> f.value, where |-> w.value,
               groupBy |-> g.value, orderBy |-> o.value, limit |-> l.value]]

WhereOf(p) == Part(<<"WHERE">> \o p.tokens, p.tree)
ItemOf(p)  == Part(p.tokens \o <<"b">>, Nodes(<<As(p.tree, "b")>>))
Plainest(X) == CHOOSE x \in X : x.tokens \in {<<"a">>, <<"FROM", "t">>}

Wheres == {Missing, Part(<<"WHERE", "a", "=", "'s'">>, Call("equals", <<a, S>>))}

Plain(where) == Query(Plainest(Selects), Plainest(Froms), where, Missing, Missing, Unlimited)

Combinations ==
    {q \in {Query(s, f, w, g, o, l) : s \in Selects, f \in Froms, w \in Wheres,
                g \in Groups, o \in Orders, l \in LimitParts} :
        \* WITH TIES is refused without ORDER BY
        q.tree.limit.ties => q.tree.orderBy # Null}

Filters == {Plain(WhereOf(p)) : p \in Conditions}
Joined == {Query(Plainest(Selects), f, Missing, Missing, Missing, Unlimited) : f \in JoinParts}
Items == {Query(ItemOf(p), Plainest(Froms), Missing, Missing, Missing, Unlimited) : p \in Small}

MCTexts == Seq(STRING)

Asks(q) == text = q.tokens /\ meant = q.tree /\ Init

WrittenInit ==
    \/ \E q \in Filters : Asks(q)
    \/ \E q \in Items : Asks(q)
    \/ \E q \in Combinations : Asks(q)
    \/ \E q \in Joined : Asks(q)

MCNext == Next /\ UNCHANGED meant

-----------------------------------------------------------------------------
\* What the interpreter finds in the node.
ClausesOf(node) ==
    [select  |-> GetExpression(node, "SELECT"),
     tables  |-> GetExpression(node, "TABLES"),
     where   |-> GetExpression(node, "WHERE"),
     groupBy |-> GetExpression(node, "GROUP_BY"),
     orderBy |-> GetExpression(node, "ORDER_BY"),
     limit   |-> [length   |-> GetExpression(node, "LIMIT_LENGTH"),
                  offset   |-> GetExpression(node, "LIMIT_OFFSET"),
                  byLength |-> GetExpression(node, "LIMIT_BY_LENGTH"),
                  byOffset |-> GetExpression(node, "LIMIT_BY_OFFSET"),
                  by       |-> GetExpression(node, "LIMIT_BY"),
                  ties     |-> node.limit_with_ties]]

\* A query that was written from a tree, with brackets only where the levels ask
\* for them, is parsed back into that tree: precedence, associativity, the
\* rewriting of BETWEEN, NOT, DATE and of a minus before a number, aliases and
\* the order of clauses (ExpressionListParsers.cpp, ParserSelectQuery.cpp).
SpelledQueriesComeBack ==
    clause \in Outcomes /\ meant # Null => clause = "interpreted" /\ ClausesOf(tree) = meant
=============================================================================
