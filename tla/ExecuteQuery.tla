---------------------------- MODULE ExecuteQuery -----------------------------
(***************************************************************************)
(* executeQuery (src/Interpreters/executeQuery.cpp): the text of a query   *)
(* through ParserSelectQuery, clause by clause, and on to the interpreter   *)
(* or to the exception that the server reports.                             *)
(***************************************************************************)
EXTENDS SelectGrammar

CONSTANT Texts \* the token sequences that are asked

VARIABLES
    clause,  \* the clause that ParserSelectQuery tries next, or the stage behind it
    pos,     \* the token iterator with its depth
    query,   \* the local variables of ParserSelectQuery::parseImpl
    failure, \* what ended the parse: "none", "no" or "thrown"
    tree     \* res of executeQuery

vars == <<text, clause, pos, query, failure, tree>>

Clauses == <<"select", "from", "where", "group", "order", "limit", "end">>
Parsing == clause \in Range(Clauses)

\* What becomes of the text: handed to the interpreter as a tree, answered with
\* an error, or undefined.
Outcomes == {"interpreted", "error", "undefined"}

NoLimit == [length |-> Null, offset |-> Null, byLength |-> Null, byOffset |-> Null,
            by |-> Null, ties |-> FALSE]
NoClause == [select |-> Null, tables |-> Null, where |-> Null, groupBy |-> Null,
             orderBy |-> Null, limit |-> NoLimit]

Init ==
    /\ text \in Texts
    /\ clause = "begin"
    /\ pos = Start
    /\ query = NoClause
    /\ failure = "none"
    /\ tree = Null

-----------------------------------------------------------------------------
\* The node is there before anything is parsed.
Begin ==
    /\ clause = "begin"
    /\ clause' = "select"
    /\ pos' = Down(pos, 1)
    /\ tree' = ASTSelectQuery
    /\ UNCHANGED <<text, query, failure>>

Succeed(p, field, node, next) ==
    /\ clause' = next
    /\ pos' = p
    /\ query' = [query EXCEPT ![field] = node]
    /\ UNCHANGED <<text, failure, tree>>

\* parse() puts the iterator back and clears the node, an exception does neither.
Fail ==
    /\ clause' = "answer"
    /\ pos' = Start
    /\ failure' = "no"
    /\ tree' = Null
    /\ UNCHANGED <<text, query>>

Throw ==
    /\ clause' = "answer"
    /\ failure' = "thrown"
    /\ UNCHANGED <<text, pos, query, tree>>

Follow(r, field, next) ==
    \/ r.ok /\ Succeed(r.pos, field, r.node, next)
    \/ r.failed /\ Fail
    \/ ~(r.ok \/ r.failed) /\ Throw

\* A clause that may be missing; r is what its parser makes of the rest.
Optionally(c, keyword, r, field, next) ==
    /\ clause = c
    /\ IF There(pos, keyword) THEN Follow(r, field, next)
       ELSE Succeed(pos, field, query[field], next)

Behind(words) == Advance(pos, words)

SelectList ==
    /\ clause = "select"
    /\ Follow(Require(There(pos, <<"SELECT">>), Parse("SelectExpressionList", Behind(1))),
              "select", "from")

From    == Optionally("from", <<"FROM">>, Parse("TablesInSelectQuery", Behind(1)),
                      "tables", "where")
Where   == Optionally("where", <<"WHERE">>, Parse("ExpressionWithOptionalAlias", Behind(1)),
                      "where", "group")
GroupBy == Optionally("group", <<"GROUP", "BY">>, Parse("NotEmptyExpressionList", Behind(2)),
                      "groupBy", "order")
OrderBy == Optionally("order", <<"ORDER", "BY">>, Parse("OrderByExpressionList", Behind(2)),
                      "orderBy", "limit")

\* OFFSET without LIMIT is refused.
Limit ==
    \/ /\ ~There(pos, <<"OFFSET">>)
       /\ Optionally("limit", <<"LIMIT">>, LimitClause(Behind(1)), "limit", "end")
    \/ clause = "limit" /\ There(pos, <<"OFFSET">>) /\ Fail

\* The arguments of setExpression at the end of parseImpl.
ClauseFor(e) ==
    CASE e = "SELECT"          -> query.select
      [] e = "TABLES"          -> query.tables
      [] e = "WHERE"           -> query.where
      [] e = "GROUP_BY"        -> query.groupBy
      [] e = "ORDER_BY"        -> query.orderBy
      [] e = "LIMIT_BY_OFFSET" -> query.limit.byOffset
      [] e = "LIMIT_BY_LENGTH" -> query.limit.byLength
      [] e = "LIMIT_BY"        -> query.limit.by
      [] e = "LIMIT_OFFSET"    -> query.limit.offset
      [] e = "LIMIT_LENGTH"    -> query.limit.length
      [] e \in {"WITH", "PREWHERE", "HAVING", "SETTINGS"} -> Null

InTheirOrder == <<"WITH", "SELECT", "TABLES", "PREWHERE", "WHERE", "GROUP_BY", "HAVING",
    "ORDER_BY", "LIMIT_BY_OFFSET", "LIMIT_BY_LENGTH", "LIMIT_BY", "LIMIT_OFFSET", "LIMIT_LENGTH",
    "SETTINGS">>

\* A second LIMIT is refused; the rest of the text is not looked at.  The clauses are put
\* into the node last.
Finish ==
    /\ clause = "end"
    /\ IF There(pos, <<"LIMIT">>) THEN Fail
       ELSE IF query.limit.ties /\ query.orderBy = Null THEN Throw
       ELSE /\ clause' = "answer"
            /\ pos' = Up(pos, 1)
            /\ tree' = FoldLeft(LAMBDA node, e : SetExpression(node, e, ClauseFor(e)),
                                [tree EXCEPT !.limit_with_ties = query.limit.ties], InTheirOrder)
            /\ UNCHANGED <<text, query, failure>>

\* An exception of the parser is printed and forgotten; what counts is the node.
\* The interpreter reads its select list without looking whether there is one.
Answer ==
    /\ clause = "answer"
    /\ clause' = IF tree = Null THEN "error"
                 ELSE IF GetExpression(tree, "SELECT") = Null THEN "undefined"
                 ELSE "interpreted"
    /\ UNCHANGED <<text, pos, query, failure, tree>>

Next == \/ Begin \/ SelectList \/ From \/ Where \/ GroupBy \/ OrderBy \/ Limit
        \/ Finish \/ Answer

Spec == Init /\ [][Next]_vars

-----------------------------------------------------------------------------
\* The iterator stays inside the text or right behind it; the node is the empty one until
\* all clauses are there, and then has exactly these, each in a place of its own.
TypeOK ==
    /\ text \in Texts
    /\ clause \in Range(Clauses) \union {"begin", "answer"} \union Outcomes
    /\ pos.at \in 1..(Len(text) + 1)
    /\ failure \in {"none", "no", "thrown"}
    /\ tree \notin {Null, ASTSelectQuery} =>
          /\ \A e \in Expressions : GetExpression(tree, e) = ClauseFor(e)
          /\ Range(tree.children) = {ClauseFor(e) : e \in Expressions} \ {Null}
    /\ Parsing => tree = ASTSelectQuery

\* Every parser and every operator of a chain gives back the levels it took: the
\* parser of the query finds the iterator one level deep between its clauses and
\* leaves it at level 0 (IParserBase.h, ExpressionListParsers.cpp).
DepthBalanced ==
    failure # "thrown" => pos.depth = IF Parsing THEN 1 ELSE 0
=============================================================================
