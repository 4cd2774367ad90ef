--------------------------- MODULE SelectGrammar ----------------------------
(***************************************************************************)
(* The grammar of SELECT: ExpressionElementParsers, ExpressionListParsers,  *)
(* ParserTablesInSelectQuery and ParserSelectQuery of src/Parser, one      *)
(* operator for each parser class.                                         *)
(***************************************************************************)
EXTENDS Parsers

\* The parser of a class at a position, see below.
RECURSIVE Parse(_, _)

Op(tokens, f) == [op |-> tokens, f |-> f]

\* The words that cannot be an alias without AS.
Restricted == {"FROM", "FINAL", "SAMPLE", "ARRAY", "LEFT", "RIGHT", "INNER", "FULL",
    "CROSS", "JOIN", "GLOBAL", "ANY", "ALL", "ASOF", "SEMI", "ANTI", "ONLY", "ON",
    "USING", "PREWHERE", "WHERE", "GROUP", "WITH", "HAVING", "ORDER", "LIMIT",
    "OFFSET", "SETTINGS", "FORMAT", "UNION", "INTO", "NOT", "BETWEEN", "LIKE", "ILIKE"}

-----------------------------------------------------------------------------
\* Lists and chains of operators

\* ParserList::parseUtil, behind the first element: a separator after which no element
\* follows is left unread.
ListItems(elem, separator, first) ==
    LET RECURSIVE Loop(_)
        Loop(r) ==
            LET e == IF TokenAt(r.pos) = separator THEN Parse(elem, Advance(r.pos, 1)) ELSE No
            IN  CASE e.ok -> Loop(Yes(e.pos, Append(r.node, e.node)))
                  [] e.failed -> r
                  [] OTHER         -> e
    IN  Loop(Yes(first.pos, <<first.node>>))

List(p, elem, separator, allowEmpty) ==
    LET first == Parse(elem, p)
    IN  IF first.failed THEN Require(allowEmpty, Yes(p, Nodes(<<>>)))
        ELSE Then(first, LAMBDA f :
                Then(ListItems(elem, separator, f), LAMBDA r : Yes(r.pos, Nodes(r.node))))

\* ParserLeftAssociativeBinaryOperatorList: ((a + b) + c), every operator one
\* level deeper.
LeftAssociative(p, ops, first, rest) ==
    LET RECURSIVE Loop(_)
        Loop(r) ==
            LET hit == OperatorAt(r.pos, ops)
            IN  IF hit.failed THEN [r EXCEPT !.pos.depth = DepthBehind(p.depth, @)]
                ELSE Then(Parse(rest, hit.pos), LAMBDA e :
                    LET closing == IF hit.node.op = <<"[">> THEN <<"]">> ELSE <<>>
                    IN  IF ~There(e.pos, closing) THEN No
                        ELSE IF e.pos.depth = MaxDepth THEN Thrown
                        ELSE Loop(Yes(Down(Advance(e.pos, Len(closing)), 1),
                                      Call(hit.node.f, <<r.node, e.node>>))))
    IN  Then(Parse(first, p), Loop)

\* ParserVariableArityOperatorList: a AND b AND c is one call.
VariableArity(p, o, elem) ==
    LET RECURSIVE Loop(_)
        Loop(r) ==
            IF There(r.pos, o.op)
            THEN Then(Parse(elem, Advance(r.pos, Len(o.op))), LAMBDA e :
                      Loop(Yes(e.pos, Append(r.node, e.node))))
            ELSE Yes(r.pos, IF Len(r.node) = 1 THEN r.node[1] ELSE Call(o.f, r.node))
    IN  Then(Parse(elem, p), LAMBDA r : Loop(Yes(r.pos, <<r.node>>)))

\* ParserPrefixUnaryOperatorExpression: one minus, or any number of NOTs, of
\* which an even number counts as none.
Prefix(p, o, elem) ==
    LET n == IF o.op = <<"NOT">> THEN Repeated(p, o) ELSE Min({Repeated(p, o), 1})
    IN  Then(Parse(elem, Advance(p, n)), LAMBDA r :
            Yes(r.pos, IF Negates(n) THEN Call(o.f, <<r.node>>) ELSE r.node))

-----------------------------------------------------------------------------
\* Elements of expressions

ParserIdentifier(p) ==
    LET t == TokenAt(p)
        name == IF t \in DOMAIN Quoted THEN Quoted[t] ELSE t
    IN  Require(t \in Words \union DOMAIN Quoted /\ name # "",
                Yes(Advance(p, 1), Identifier(<<name>>)))

CompoundIdentifier(p) ==
    Then(List(p, "Identifier", ".", FALSE), LAMBDA r :
        Yes(r.pos, Identifier([i \in DOMAIN r.node.items |-> GetIdentifierName(r.node.items[i])])))

Alias(p, free) ==
    LET as == There(p, <<"AS">>)
        id == Parse("Identifier", Skip(p, <<"AS">>))
    IN  IF ~as /\ ~free THEN No
        ELSE Then(id, LAMBDA r : Require(as \/ GetIdentifierName(r.node) \notin Restricted, r))

WithOptionalAlias(p, elem, free) ==
    Then(Parse(elem, p), LAMBDA r :
        LET a == Parse(IF free /\ ~IsNamed(r.node, "FROM") THEN "FreeAlias" ELSE "Alias", r.pos)
        IN  CASE a.ok -> Require(r.node.kind \in ASTWithAlias,
                            Yes(a.pos, SetAlias(r.node, GetIdentifierName(a.node))))
              [] a.failed -> r
              [] OTHER         -> a)

ExpressionList(p, elem) == List(p, elem, ",", TRUE)

NotEmptyExpressionList(p, list) ==
    Then(Parse(list, p), LAMBDA r : Require(r.node.items # <<>>, r))

\* (a) is a, and (a, b) and (a,) are tuples.
ParenthesisExpression(p) ==
    IF TokenAt(p) # "(" THEN No
    ELSE Then(Parse("ExpressionList", Advance(p, 1)), LAMBDA r :
        LET comma == There(r.pos, <<",">>)
            close == Skip(r.pos, <<",">>)
            items == r.node.items
        IN  Require(TokenAt(close) = ")" /\ items # <<>>,
                Yes(Advance(close, 1),
                    IF Len(items) = 1 /\ ~comma THEN items[1] ELSE Call("tuple", items))))

\* [DISTINCT] list ), the opening bracket being read.
Arguments(pos) ==
    LET begin == Skip(pos, <<"DISTINCT">>)
    IN  Then(Parse("ExpressionList", begin), LAMBDA r :
            Require(TokenAt(r.pos) = ")",
                Yes(Advance(r.pos, 1),
                    [items    |-> r.node.items,
                     distinct |-> begin # pos,
                     spelling |-> SubSeq(text, begin.at, r.pos.at - 1)])))

ParserFunction(p) ==
    Then(Parse("Identifier", p), LAMBDA id :
        LET name == GetIdentifierName(id.node)
            Named(args) == Call(IF args.distinct THEN name \o "Distinct" ELSE name, args.items)
        IN  IF TokenAt(id.pos) # "(" THEN No
            ELSE Then(Arguments(Advance(id.pos, 1)), LAMBDA r :
                IF name = "toDate" /\ r.node.spelling \in BareDates THEN Thrown
                ELSE IF TokenAt(r.pos) # "(" THEN Yes(r.pos, Named(r.node))
                ELSE IF r.node.distinct THEN No
                ELSE Then(Arguments(Advance(r.pos, 1)), LAMBDA s :
                    Yes(s.pos, [Named(s.node) EXCEPT !.params = r.node.items]))))

\* Any token that strtod reads to its end is a number, whatever its type.  A
\* negative integer n is kept as 2 ^ 64 + n, which GetInt does not tell from n.
Number(p) ==
    LET sign == TokenAt(p)
        at == IF sign \in {"-", "+"} THEN Advance(p, 1) ELSE p
        t == TokenAt(at)
        n == Integral[t]
    IN  Require(t \in DOMAIN Integral \union Fractional,
            Yes(Advance(at, 1),
                IF t \in DOMAIN Integral THEN Literal("integer", IF sign = "-" THEN -n ELSE n)
                ELSE Literal("number", t)))

StringLiteral(p) ==
    Require(TokenAt(p) \in Strings, Yes(Advance(p, 1), Literal("string", TokenAt(p))))

ParserLiteral(p) == OrElse(Parse("Number", p), Parse("StringLiteral", p))

\* These succeed and leave the node null.
Asterisk(p) == Require(TokenAt(p) = "*", Yes(Advance(p, 1), Null))
Substitution(p) == Require(TokenAt(p) = "{", Yes(Advance(p, 1), Null))
UnsignedInteger(p) == Yes(p, Null)

ExpressionElement(p) ==
    OrElse(Parse("ParenthesisExpression", p),
    OrElse(Parse("Literal", p),
    OrElse(Parse("Function", p),
    OrElse(Parse("Asterisk", p),
    OrElse(Parse("CompoundIdentifier", p),
           Parse("Substitution", p))))))

-----------------------------------------------------------------------------
\* Operators, the strongest first

Indexing       == <<Op(<<"[">>, "arrayElement")>>
Membership     == <<Op(<<".">>, "tupleElement")>>
Multiplication == <<Op(<<"*">>, "multiply"), Op(<<"/">>, "divide"), Op(<<"%">>, "modulo")>>
Addition       == <<Op(<<"+">>, "plus"), Op(<<"-">>, "minus")>>
Negation       == Op(<<"-">>, "negate")
Concatenation  == Op(<<"||">>, "concat")

UnaryMinus(p) ==
    OrElse(IF TokenAt(p) = "-" THEN Parse("Literal", p) ELSE No, Parse("Negation", p))

\* A cast that forgets to go back in front of its keyword if no string follows.
GoBack_Forgotten(begin, pos) == pos

GoBack(begin, pos) == begin

\* DATE '...' and TIMESTAMP '...'; the keyword alone is a name.
Cast(p, keyword, f, otherwise) ==
    LET literal == IF There(p, keyword) THEN Parse("StringLiteral", Skip(p, keyword)) ELSE No
    IN  IF literal.failed THEN Parse(otherwise, GoBack(p, Skip(p, keyword)))
        ELSE Then(literal, LAMBDA r : Yes(r.pos, Call(f, <<r.node>>)))

\* The word INTERVAL is the whole expression, and its node is null.
IntervalOperator(p) ==
    IF There(p, <<"INTERVAL">>) THEN Yes(Advance(p, 1), Null) ELSE Parse("TimestampOperator", p)

Between(p) ==
    Then(Parse("Concat", p), LAMBDA subject :
        LET negative == There(subject.pos, <<"NOT">>)
            between == Skip(subject.pos, <<"NOT">>)
            Combined(f, l, lf, r, rf) ==
                Call(f, <<Call(lf, <<subject.node, l>>), Call(rf, <<subject.node, r>>)>>)
        IN  IF ~There(between, <<"BETWEEN">>) THEN subject
            ELSE Then(Parse("Concat", Advance(between, 1)), LAMBDA l :
                IF ~There(l.pos, <<"AND">>) THEN No
                ELSE Then(Parse("Concat", Advance(l.pos, 1)), LAMBDA r :
                    Yes(r.pos, IF negative
                               THEN Combined("or", l.node, "less", r.node, "greater")
                               ELSE Combined("and", l.node, "greaterOrEquals",
                                             r.node, "lessOrEquals")))))

Comparisons == <<
    Op(<<"==">>, "equals"), Op(<<"!=">>, "notEquals"), Op(<<"<>">>, "notEquals"),
    Op(<<"<=">>, "lessOrEquals"), Op(<<">=">>, "greaterOrEquals"),
    Op(<<"<">>, "less"), Op(<<">">>, "greater"), Op(<<"=">>, "equals"),
    Op(<<"LIKE">>, "like"), Op(<<"ILIKE">>, "ilike"),
    Op(<<"NOT", "LIKE">>, "notLike"), Op(<<"NOT", "ILIKE">>, "notILike"),
    Op(<<"IN">>, "in"), Op(<<"NOT", "IN">>, "notIn"),
    Op(<<"GLOBAL", "IN">>, "globalIn"), Op(<<"GLOBAL", "NOT", "IN">>, "globalNotIn")>>

NullityChecking(p) ==
    Then(Parse("Comparison", p), LAMBDA r :
        LET not == There(Advance(r.pos, 1), <<"NOT">>)
            null == Skip(Advance(r.pos, 1), <<"NOT">>)
        IN  IF ~There(r.pos, <<"IS">>) THEN r
            ELSE Require(There(null, <<"NULL">>),
                Yes(Advance(null, 1), Call(IF not THEN "isNotNull" ELSE "isNull", <<r.node>>))))

Not == Op(<<"NOT">>, "not")
And == Op(<<"AND">>, "and")
Or  == Op(<<"OR">>, "or")

Ternary(p) ==
    Then(Parse("LogicalOr", p), LAMBDA c :
        IF ~There(c.pos, <<"?">>) THEN c
        ELSE Then(Parse("LogicalOr", Advance(c.pos, 1)), LAMBDA t :
            IF ~There(t.pos, <<":">>) THEN No
            ELSE Then(Parse("LogicalOr", Advance(t.pos, 1)), LAMBDA e :
                Yes(e.pos, Call("if", <<c.node, t.node, e.node>>)))))

\* x -> e and (x, y) -> e, otherwise an expression without arrow.
Lambda(p) ==
    LET opened == There(p, <<"(">>)
        params == Parse("IdentifierList", Skip(p, <<"(">>))
        head == Then(params, LAMBDA r :
                    LET close == IF opened THEN <<")", "->">> ELSE <<"->">>
                    IN  Require(There(r.pos, close), Yes(Advance(r.pos, Len(close)), r.node)))
    IN  CASE head.ok -> Then(Parse("Ternary", head.pos), LAMBDA e :
                Yes(e.pos, Call("lambda", <<Call("tuple", head.node.items), e.node>>)))
          [] head.failed -> Parse("Ternary", p)
          [] OTHER            -> head

-----------------------------------------------------------------------------
\* FROM

\* The first of the words that is there, or none.
Optional(pos, words) ==
    IF TokenAt(pos) \in words THEN Yes(Advance(pos, 1), TokenAt(pos)) ELSE Yes(pos, "")

TableExpression(p) == WithOptionalAlias(p, "CompoundIdentifier", TRUE)

FirstTable(p) ==
    Then(Parse("TableExpression", p), LAMBDA r :
        Yes(r.pos, ASTTablesInSelectQueryElement(r.node, Null)))

ArrayJoin(p) ==
    LET left == There(p, <<"LEFT", "ARRAY", "JOIN">>)
        join == IF left THEN Advance(p, 1) ELSE Skip(p, <<"INNER">>)
    IN  IF ~There(join, <<"ARRAY", "JOIN">>) THEN No
        ELSE Then(Parse("ExpressionList", Advance(join, 2)), LAMBDA r :
                Yes(r.pos, ASTArrayJoin(IF left THEN "LEFT" ELSE "INNER", r.node)))

JoinCondition(pos) ==
    IF There(pos, <<"ON">>) THEN Parse("LogicalOr", Advance(pos, 1))
    ELSE IF ~There(pos, <<"USING">>) THEN No
    ELSE LET opened == At(pos, 1) = "("
         IN  Then(Parse("ExpressionList", Skip(Advance(pos, 1), <<"(">>)), LAMBDA r :
                IF opened THEN Require(TokenAt(r.pos) = ")", Yes(Advance(r.pos, 1), r.node))
                ELSE r)

\* parseJoinStrictness; ONLY is another word for ANTI.
JoinStrictness(pos, otherwise) ==
    LET word == Optional(pos, (Strictnesses \ {"unspecified"}) \union {"ONLY"})
    IN  Yes(word.pos, CASE word.node = ""     -> otherwise
                        [] word.node = "ONLY" -> "ANTI"
                        [] OTHER              -> word.node)

\* The kind of a join and its strictness, which can stand on either side of it.
JoinKind(pos) ==
    LET place  == Optional(pos, Localities \ {"unspecified"})
        left   == JoinStrictness(place.pos, "unspecified")
        kind   == Optional(left.pos, JoinKinds \ {"COMMA"})
        strict == JoinStrictness(kind.pos, left.node)
        outer  == IF kind.node \in {"LEFT", "RIGHT", "FULL"}
                  THEN Skip(strict.pos, <<"OUTER">>) ELSE strict.pos
        semi   == strict.node \in {"SEMI", "ANTI"}
        known  == IF kind.node # "" THEN kind.node ELSE IF semi THEN "LEFT" ELSE "INNER"
        join   == [ASTTableJoin EXCEPT
                    !.locality = IF place.node = "" THEN @ ELSE place.node,
                    !.strictness = strict.node, !.kind = known]
    IN  IF \/ strict.node # "unspecified" /\ known = "CROSS"
           \/ semi /\ known \notin {"LEFT", "RIGHT"}
        THEN Thrown
        ELSE Require(There(outer, <<"JOIN">>), Yes(Advance(outer, 1), join))

\* An element behind the first one.
JoinedTable(p) ==
    LET comma == [ASTTableJoin EXCEPT !.kind = "COMMA"]
        join == IF There(p, <<",">>) THEN Yes(Advance(p, 1), comma) ELSE JoinKind(p)
        joined == Then(join, LAMBDA j : Then(Parse("TableExpression", j.pos), LAMBDA t :
                    LET condition == IF j.node.kind \in {"COMMA", "CROSS"} THEN Yes(t.pos, Null)
                                     ELSE JoinCondition(t.pos)
                    IN  Then(condition, LAMBDA c :
                            Yes(c.pos, ASTTablesInSelectQueryElement(
                                           t.node, [j.node EXCEPT !.condition = c.node])))))
    IN  OrElse(Parse("ArrayJoin", p), joined)

TablesInSelectQuery(p) ==
    LET RECURSIVE Loop(_)
        Loop(r) ==
            LET e == Parse("JoinedTable", r.pos)
            IN  CASE e.ok -> Loop(Yes(e.pos, Nodes(Append(r.node.items, e.node))))
                  [] e.failed -> r
                  [] OTHER         -> e
    IN  Then(Parse("FirstTable", p), LAMBDA r : Loop(Yes(r.pos, Nodes(<<r.node>>))))

-----------------------------------------------------------------------------
\* The query

OrderByElement(p) ==
    Then(Parse("ExpressionWithOptionalAlias", p), LAMBDA e :
        LET direction == Optional(e.pos, {"DESCENDING", "DESC", "ASCENDING", "ASC"})
            nulls == Optional(direction.pos, {"NULLS"})
            last == IF nulls.node = "" THEN nulls ELSE Optional(nulls.pos, {"FIRST", "LAST"})
            collate == IF There(last.pos, <<"COLLATE">>)
                       THEN Parse("StringLiteral", Advance(last.pos, 1)) ELSE last
        IN  IF nulls.node # "" /\ last.node = "" THEN No
            ELSE Then(collate, LAMBDA c :
                Yes(Skip(c.pos, <<"WITH", "FILL">>),
                    ASTOrderByElement(e.node, IF direction.node \in {"DESCENDING", "DESC"} THEN -1 ELSE 1))))

OrderByExpressionList(p) == List(p, "OrderByElement", ",", FALSE)

\* LIMIT n, or LIMIT n followed by a comma or OFFSET, whose second number is not
\* read; then [WITH TIES], then [BY list].
LimitClause(pos) ==
    Then(Parse("ExpressionWithOptionalAlias", pos), LAMBDA n :
        LET comma == There(n.pos, <<",">>)
            offset == ~comma /\ There(n.pos, <<"OFFSET">>)
            at == IF comma \/ offset THEN Advance(n.pos, 1) ELSE n.pos
            ties == ~offset /\ There(at, <<"WITH", "TIES">>)
            by == IF ties THEN Advance(at, 2) ELSE at
            limit == [length |-> n.node, offset |-> IF comma THEN n.node ELSE Null,
                      byLength |-> Null, byOffset |-> Null, by |-> Null, ties |-> ties]
        IN  IF ~There(by, <<"BY">>) THEN Yes(by, limit)
            ELSE IF ties THEN Thrown
            ELSE Then(Parse("NotEmptyExpressionList", Advance(by, 1)), LAMBDA l :
                Yes(l.pos, [length |-> Null, offset |-> Null, byLength |-> limit.length,
                            byOffset |-> limit.offset, by |-> l.node, ties |-> FALSE])))

-----------------------------------------------------------------------------
\* The levels that a class takes: its own and those of the list, operator or
\* alias parser that it only passes on to.
Levels(class) ==
    IF class \in {"CompoundIdentifier", "ExpressionWithOptionalAlias", "FreelyAliasedExpression",
                  "ExpressionList", "FreelyAliasedList", "TableExpression", "OrderByExpressionList",
                  "ArrayElement", "TupleElement", "Multiplicative", "Additive", "Concat",
                  "Comparison", "LogicalNot", "LogicalAnd", "LogicalOr"}
    THEN 2 ELSE 1

\* Which class stands on which: the expressions of ExpressionListParsers.h, the strongest
\* operators first.
OperatorClass(class, p) ==
    CASE class = "ArrayElement"      -> LeftAssociative(p, Indexing, "ExpressionElement",
                                                        "ExpressionWithOptionalAlias")
      [] class = "TupleElement"      -> LeftAssociative(p, Membership, "ArrayElement",
                                                        "UnsignedInteger")
      [] class = "Negation"          -> Prefix(p, Negation, "TupleElement")
      [] class = "UnaryMinus"        -> UnaryMinus(p)
      [] class = "Multiplicative"    -> LeftAssociative(p, Multiplication, "UnaryMinus", "UnaryMinus")
      [] class = "DateOperator"      -> Cast(p, <<"DATE">>, "toDate", "Multiplicative")
      [] class = "TimestampOperator" -> Cast(p, <<"TIMESTAMP">>, "toDateTime", "DateOperator")
      [] class = "IntervalOperator"  -> IntervalOperator(p)
      [] class = "Additive"          -> LeftAssociative(p, Addition, "IntervalOperator",
                                                        "IntervalOperator")
      [] class = "Concat"            -> VariableArity(p, Concatenation, "Additive")
      [] class = "Between"           -> Between(p)
      [] class = "Comparison"        -> LeftAssociative(p, Comparisons, "Between", "Between")
      [] class = "NullityChecking"   -> NullityChecking(p)
      [] class = "LogicalNot"        -> Prefix(p, Not, "NullityChecking")
      [] class = "LogicalAnd"        -> VariableArity(p, And, "LogicalNot")
      [] class = "LogicalOr"         -> VariableArity(p, Or, "LogicalAnd")
      [] class = "Ternary"           -> Ternary(p)
      [] class = "Lambda"            -> Lambda(p)

\* Only the select list and FROM let an alias stand without AS.
ListClass(class, p) ==
    CASE class = "ExpressionWithOptionalAlias" -> WithOptionalAlias(p, "Lambda", FALSE)
      [] class = "FreelyAliasedExpression"     -> WithOptionalAlias(p, "Lambda", TRUE)
      [] class = "ExpressionList"              -> ExpressionList(p, "ExpressionWithOptionalAlias")
      [] class = "FreelyAliasedList"           -> ExpressionList(p, "FreelyAliasedExpression")
      [] class = "NotEmptyExpressionList"      -> NotEmptyExpressionList(p, "ExpressionList")
      [] class = "SelectExpressionList"        -> NotEmptyExpressionList(p, "FreelyAliasedList")
      [] class = "OrderByExpressionList"       -> OrderByExpressionList(p)

TableClass(class, p) ==
    CASE class = "TableExpression"     -> TableExpression(p)
      [] class = "FirstTable"          -> FirstTable(p)
      [] class = "JoinedTable"         -> JoinedTable(p)
      [] class = "ArrayJoin"           -> ArrayJoin(p)
      [] class = "TablesInSelectQuery" -> TablesInSelectQuery(p)

ElementClass(class, p) ==
    CASE class = "ExpressionElement"     -> ExpressionElement(p)
      [] class = "ParenthesisExpression" -> ParenthesisExpression(p)
      [] class = "Literal"               -> ParserLiteral(p)
      [] class = "Number"                -> Number(p)
      [] class = "StringLiteral"         -> StringLiteral(p)
      [] class = "UnsignedInteger"       -> UnsignedInteger(p)
      [] class = "Function"              -> ParserFunction(p)
      [] class = "Asterisk"              -> Asterisk(p)
      [] class = "CompoundIdentifier"    -> CompoundIdentifier(p)
      [] class = "Identifier"            -> ParserIdentifier(p)
      [] class = "IdentifierList"        -> List(p, "Identifier", ",", TRUE)
      [] class = "Substitution"          -> Substitution(p)
      [] class = "Alias"                 -> Alias(p, FALSE)
      [] class = "FreeAlias"             -> Alias(p, TRUE)
      [] class = "OrderByElement"        -> OrderByElement(p)

OperatorClasses ==
    {"ArrayElement", "TupleElement", "Negation", "UnaryMinus", "Multiplicative", "DateOperator",
     "TimestampOperator", "IntervalOperator", "Additive", "Concat", "Between", "Comparison",
     "NullityChecking", "LogicalNot", "LogicalAnd", "LogicalOr", "Ternary", "Lambda"}
ListClasses ==
    {"ExpressionWithOptionalAlias", "FreelyAliasedExpression", "ExpressionList",
     "FreelyAliasedList", "NotEmptyExpressionList", "SelectExpressionList",
     "OrderByExpressionList"}
TableClasses == {"TableExpression", "FirstTable", "JoinedTable", "ArrayJoin", "TablesInSelectQuery"}

\* IParserBase::parse, some levels deeper and back.
Parse(class, pos) ==
    LET p == Down(pos, Levels(class)) IN
    [CASE p.depth > MaxDepth       -> Thrown
       [] class \in OperatorClasses -> OperatorClass(class, p)
       [] class \in ListClasses     -> ListClass(class, p)
       [] class \in TableClasses    -> TableClass(class, p)
       [] OTHER                     -> ElementClass(class, p)
     EXCEPT !.pos = Up(@, Levels(class))]
=============================================================================
