----------------------------- MODULE SyntaxTree -----------------------------
(***************************************************************************)
(* The nodes that the parser makes (src/Parser/AST*.h).                     *)
(*                                                                         *)
(* The node of a SELECT keeps the clauses that are there, one behind the    *)
(* other, in children, and knows by positions which of them is which: 0     *)
(* stands for a clause that is not there.                                   *)
(***************************************************************************)
EXTENDS Integers, SequencesExt

Null == [kind |-> "none"]

Identifier(parts)  == [kind |-> "identifier", parts |-> parts, alias |-> ""]
Literal(kind, v)   == [kind |-> kind, value |-> v, alias |-> ""]
Call(name, args)   == [kind |-> "function", name |-> name, params |-> <<>>,
                       args |-> args, alias |-> ""]
Nodes(items)       == [kind |-> "list", items |-> items]
ASTOrderByElement(node, direction) ==
    [kind |-> "order", node |-> node, direction |-> direction]

\* A table of FROM, with how it is joined to those before it; an array that is joined
\* stands in the place of a table.
Localities   == {"unspecified", "LOCAL", "GLOBAL"}
Strictnesses == {"unspecified", "ANY", "ALL", "ASOF", "SEMI", "ANTI"}
JoinKinds    == {"INNER", "LEFT", "RIGHT", "FULL", "CROSS", "COMMA"}

ASTTableJoin == [locality |-> "unspecified", strictness |-> "unspecified", kind |-> "INNER",
                 condition |-> Null]
ASTArrayJoin(kind, list) == [kind |-> "array", join |-> kind, list |-> list]
ASTTablesInSelectQueryElement(table, join) ==
    [kind |-> "table", table |-> table, join |-> join]

\* Only these can carry an alias.
ASTWithAlias == {"identifier", "function", "string", "integer", "number"}

SetAlias(node, alias) == [node EXCEPT !.alias = alias]

IsNamed(node, name) == node.kind = "identifier" /\ node.parts = <<name>>

\* The name of an identifier that has one part.
GetIdentifierName(node) == node.parts[1]

-----------------------------------------------------------------------------
Expressions ==
    {"WITH", "SELECT", "TABLES", "PREWHERE", "WHERE", "GROUP_BY", "HAVING", "ORDER_BY",
     "LIMIT_BY_OFFSET", "LIMIT_BY_LENGTH", "LIMIT_BY", "LIMIT_OFFSET", "LIMIT_LENGTH",
     "SETTINGS"}

ASTSelectQuery ==
    [children |-> <<>>, positions |-> [e \in Expressions |-> 0], limit_with_ties |-> FALSE]

Put(q, e, ast) ==
    IF q.positions[e] # 0
    THEN [q EXCEPT !.children[q.positions[e]] = ast]
    ELSE [q EXCEPT !.children = Append(@, ast), !.positions[e] = Len(q.children) + 1]

\* The clauses behind one that is taken away move up.
Erase(q, e) ==
    LET at == q.positions[e]
    IN  IF at = 0 THEN q
        ELSE [q EXCEPT !.children = RemoveAt(@, at),
                       !.positions = [x \in Expressions |->
                           IF x = e THEN 0 ELSE IF @[x] > at THEN @[x] - 1 ELSE @[x]]]

SetExpression(q, e, ast) == IF ast # Null THEN Put(q, e, ast) ELSE Erase(q, e)

\* What select(), tables(), where() and so on give.
GetExpression(q, e) == IF q.positions[e] = 0 THEN Null ELSE q.children[q.positions[e]]
=============================================================================
