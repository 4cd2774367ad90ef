---------------------------- MODULE MCQueryTokens ----------------------------
(***************************************************************************)
(* Arbitrary token sequences for ExecuteQuery: everything that can be put  *)
(* together from a small vocabulary, and queries that break off or are      *)
(* refused in each of their clauses.                                        *)
(***************************************************************************)
EXTENDS MCExecuteQuery

CONSTANTS
    Vocabulary, \* the tokens behind SELECT
    MaxLength   \* the longest sequence of them

Soup == {<<"SELECT">> \o w : w \in SeqOf(Vocabulary, MaxLength)}

Brackets(n) == [i \in 1..n |-> "("] \o <<"a">> \o [i \in 1..n |-> ")"]

SelectA == <<"SELECT", "a">>
FromT   == <<"FROM", "t">>

\* Queries that fail and that throw in every clause, and one that breaks off in
\* the middle of a keyword.
Odd ==
    {SelectA \o w : w \in {
        <<"FROM">>, <<"FROM", "t", "CROSS", "ANY", "JOIN", "t">>, FromT \o <<"SEMI", "JOIN", "t">>,
        <<"WHERE">>, <<"WHERE">> \o Brackets(3),
        <<"GROUP", "BY">>, <<"GROUP", "BY">> \o Brackets(2),
        <<"ORDER", "BY">>, <<"ORDER", "BY", "a", "NULLS">>, <<"ORDER", "BY">> \o Brackets(2),
        <<"ORDER", "BY", "a", "WITH">>,
        <<"LIMIT">>, <<"OFFSET", "1">>, <<"LIMIT", "1", "BY", "a", "LIMIT", "1">>,
        <<"LIMIT", "1", "WITH", "TIES", "BY", "a">>, <<"LIMIT", "1", "WITH", "TIES">>}}
    \union {<<"a">>, <<"SELECT">> \o Brackets(2),
            <<"SELECT", "toDate", "(", "1", "-", "1", "-", "1", ")">>}

AsksOneOf(texts) == text \in texts /\ meant = Null /\ Init

MCSpec     == (WrittenInit \/ AsksOneOf(Soup) \/ AsksOneOf(Odd)) /\ [][MCNext]_<<vars, meant>>
OddSpec    == AsksOneOf(Odd) /\ [][MCNext]_<<vars, meant>>

-----------------------------------------------------------------------------
Operands == {"a", "1", "'s'", "DATE"}

\* The operands and aliases of a tree in the order they were written in.
RECURSIVE Leaves(_)
Leaves(node) ==
    LET All(nodes) == FlattenSeq([i \in DOMAIN nodes |-> Leaves(nodes[i])])
        Of(words) == SelectSeq(words, LAMBDA w : w \in Operands)
    IN  CASE node.kind = "identifier" -> Of(Append(node.parts, node.alias))
          [] node.kind = "integer"    -> Of(<<"1", node.alias>>)
          [] node.kind = "string"     -> Of(<<node.value, node.alias>>)
          [] node.kind = "function"   -> Of(<<node.name>>) \o All(node.params) \o All(node.args)
                                            \o Of(<<node.alias>>)
          [] node.kind = "list"       -> All(node.items)
          [] OTHER                    -> <<>>

\* The operands among the tokens up to the iterator.  DATE before a string is an
\* operator, and a name otherwise.
OperandsRead ==
    LET Read == 1..(pos.at - 1)
        Operand(i) == /\ text[i] \in Operands
                      /\ ~(text[i] = "DATE" /\ i + 1 \in Read /\ text[i + 1] = "'s'")
        places == {i \in Read : Operand(i)}
    IN  [k \in 1..Cardinality(places) |->
            text[CHOOSE i \in places : Cardinality({j \in places : j <= i}) = k]]

\* However the parser tries one alternative after another and goes back, the tree
\* that it returns has every operand of the text that it has gone over once, in
\* order, and no other (IParserBase.h:10-34, ExpressionListParsers.cpp:591-621).
OperandsKept ==
    clause = "interpreted" /\ text \in Soup => Leaves(GetExpression(tree, "SELECT")) = OperandsRead

\* "failed to parse query" is what the caller is told of a query that is not
\* parsed (executeQuery.cpp:31), and a parser that fails does not give a node.
FailedParseIsReported == failure # "none" => clause # "undefined"
=============================================================================
