--------------------------- MODULE QueryPipeline ----------------------------
(***************************************************************************)
(* One query from its tree to the text of the reply: processQueryRequest   *)
(* (src/Server/Server.cpp), InterpreterSelectQuery::execute and the steps   *)
(* it strings together (src/Processors).  Each step drains its input       *)
(* stream into its output stream and closes that, all on the thread that   *)
(* serves the request; a pop from an open, empty stream would wait for     *)
(* ever.                                                                    *)
(*                                                                         *)
(* The reading of the files is in TableFiles; here they stand still.        *)
(***************************************************************************)
EXTENDS Processors

CONSTANTS
    Queries,   \* trees of queries
    Tables,    \* contents of the table
    TableName, \* its name
    DefaultDB  \* Server::defaultDB

ASSUME QueriesAssumption ==
    \A q \in Queries :
        /\ q.select \in Seq(Range(q.select)) /\ q.orderBy \in Seq(Range(q.orderBy))
        /\ q.limit.kind = "integer" => q.limit.value \in Int

ASSUME TablesAssumption ==
    \A t \in Tables : \A c \in DOMAIN t : t[c] \in Seq(Seq(Nat \ {0}))

VARIABLES
    query,    \* the query
    table,    \* the content of the table: a function from column names
    step,     \* what the thread does next
    in,       \* the input stream of the step
    out,      \* its output stream
    results,  \* GroupByStep: the groups
    template, \* GroupByStep: lastBlock
    reply     \* the blocks printed: a header and rows each

vars == <<query, table, step, in, out, results, template, reply>>

\* The step "undefined" stands for whatever happens after undefined behaviour.
Final == {"ok", "error", "undefined"}
Steps == {"interpret", "filter", "group", "drop", "order", "limit", "print"} \union Final

EmptyStream == [blocks |-> <<>>, closed |-> FALSE]
NoBlock == <<>>

Push(stream, b) == [stream EXCEPT !.blocks = Append(@, b)]
Close(stream)   == [stream EXCEPT !.closed = TRUE]

\* operator bool
More(stream) == ~stream.closed \/ stream.blocks # <<>>

-----------------------------------------------------------------------------
Selected  == GetColumns(query.select)
Functions == GetAgrFunctions(query.select)
Filter    == GetFilter(query.where)
Filtering == Filter # None
Grouping  == Functions # <<>>

AllColumns == CombineColumns(Selected, GetFilterColumns(query.where))

GroupNames == GroupByNames(Selected, query.groupBy)

\* SelectStep throws: a wrong schema, a table or a column that is not there, no
\* columns at all.
SelectFails ==
    \/ Compound(query.table) /\ query.table.qualifier # DefaultDB
    \/ query.table.name # TableName
    \/ AllColumns = <<>>
    \/ \E k \in DOMAIN AllColumns :
        LET c == AllColumns[k]
        IN  \/ Compound(c) /\ c.qualifier \notin {query.table.name, query.table.alias}
            \/ c.name \notin DOMAIN table

\* The steps that execute strings together, in order.  LimitStep hands its input
\* on untouched if the limit is not an integer.
InTurn == <<"interpret", "filter", "group", "drop", "order", "limit", "print">>

Planned(s) ==
    \/ s = "filter" /\ Filtering
    \/ s = "group"  /\ Grouping
    \/ s = "drop"   /\ (Filtering \/ Grouping)
    \/ s = "order"  /\ query.orderBy # <<>>
    \/ s = "limit"  /\ query.limit.kind = "integer"
    \/ s = "print"

\* The next planned step behind s.
After(s) ==
    InTurn[Min({i \in DOMAIN InTurn : /\ \E k \in 1..(i - 1) : InTurn[k] = s
                                      /\ Planned(InTurn[i])})]

-----------------------------------------------------------------------------
Init ==
    /\ query \in Queries
    /\ table \in Tables
    /\ step = "interpret"
    /\ in = EmptyStream
    /\ out = EmptyStream
    /\ results = <<>>
    /\ template = NoBlock
    /\ reply = <<>>

Stop(outcome) ==
    /\ step' = outcome
    /\ UNCHANGED <<query, table, in, out, results, template, reply>>

\* execute up to SelectStep, in the order of the code: the functions, the filter,
\* the table (without FROM there is no list of tables to look into, with another
\* thing than a name there is no table), the groups, the files.
Interpret ==
    /\ step = "interpret"
    /\ IF WrongFunction(query.select) \/ WrongFilter(query.where) THEN Stop("error")
       ELSE IF query.table.kind = "none" THEN Stop("undefined")
       ELSE IF WrongPosition(Selected, query.groupBy) THEN Stop("error")
       ELSE IF query.table.kind = "other" THEN Stop("undefined")
       ELSE IF SelectFails THEN Stop("error")
       ELSE /\ in' = Close(Push(EmptyStream, ReadColumns(table, AllColumns)))
            /\ step' = After("interpret")
            /\ UNCHANGED <<query, table, out, results, template, reply>>

\* The step s takes a block, and has something to do with it unless it has no
\* columns.
Take(s) ==
    /\ step = s
    /\ in.blocks # <<>>
    /\ in' = [in EXCEPT !.blocks = Tail(@)]

Block == Head(in.blocks)

SkipEmptyBlock ==
    /\ \E s \in {"filter", "group", "drop", "order", "limit"} : Take(s)
    /\ Block = <<>>
    /\ UNCHANGED <<query, table, step, out, results, template, reply>>

\* The step s has a block with columns to work on.
HasWork(s) == step = s /\ in.blocks # <<>> /\ Block # <<>>

FilterNext ==
    /\ HasWork("filter")
    /\ FilterDefined(Block, Filter)
    /\ ~FilterFails(Block, Filter)
    /\ Take("filter")
    /\ out' = Push(out, FilterBlock(Block, Filter))
    /\ UNCHANGED <<query, table, step, results, template, reply>>

GroupNext ==
    /\ HasWork("group")
    /\ ~NotInGroupBy(Block, GroupNames)
    /\ RowsReadable(Block)
    /\ Take("group")
    /\ template' = CloneWithoutData(Block)
    /\ results' = GroupBlock(results, Block, Functions)
    /\ UNCHANGED <<query, table, step, out, reply>>

DropNext ==
    /\ HasWork("drop")
    /\ Take("drop")
    /\ out' = Push(out, DropTmpColumns(Block))
    /\ UNCHANGED <<query, table, step, results, template, reply>>

OrderNext ==
    /\ HasWork("order")
    /\ ~OrderByFails(Block, query.orderBy)
    /\ RowsReadable(Block)
    /\ Take("order")
    /\ \E p \in Sortings(Block, OrderByColumns(Block, query.orderBy)) :
        out' = Push(out, PickRows(Block, p))
    /\ UNCHANGED <<query, table, step, results, template, reply>>

LimitNext ==
    /\ HasWork("limit")
    /\ Take("limit")
    /\ out' = Push(out, CutBlock(Block, GetInt(query.limit.value)))
    /\ UNCHANGED <<query, table, step, results, template, reply>>

Fail ==
    /\ \/ HasWork("filter") /\ FilterDefined(Block, Filter) /\ FilterFails(Block, Filter)
       \/ HasWork("group") /\ NotInGroupBy(Block, GroupNames)
       \/ HasWork("order") /\ OrderByFails(Block, query.orderBy)
    /\ Stop("error")

GoUndefined ==
    /\ \/ HasWork("filter") /\ ~FilterDefined(Block, Filter)
       \/ HasWork("group") /\ ~NotInGroupBy(Block, GroupNames) /\ ~RowsReadable(Block)
       \/ HasWork("order") /\ ~OrderByFails(Block, query.orderBy) /\ ~RowsReadable(Block)
       \/ HasWork("print") /\ ~RowsReadable(Block)
    /\ Stop("undefined")

-----------------------------------------------------------------------------
\* The input is closed and drained: the output is closed and becomes the input of
\* the next step.
Handover(s, stream) ==
    /\ step = s
    /\ in' = Close(stream)
    /\ out' = EmptyStream
    /\ step' = After(s)

\* Steps that do not close their output.
EndStep_LeavesOpen ==
    /\ \E s \in {"filter", "drop", "order", "limit"} :
        step = s /\ in' = out /\ out' = EmptyStream /\ step' = After(s)
    /\ ~More(in)
    /\ UNCHANGED <<query, table, results, template, reply>>

EndStep ==
    /\ \E s \in {"filter", "drop", "order", "limit"} : Handover(s, out)
    /\ ~More(in)
    /\ UNCHANGED <<query, table, results, template, reply>>

\* The groups leave their hash table in any order.
EndGroup ==
    /\ ~More(in)
    /\ \E p \in Bijection(DOMAIN results, DOMAIN results) :
        Handover("group", Push(out, GroupColumns(template,
                            [g \in DOMAIN results |-> results[p[g]]], Functions)))
    /\ UNCHANGED <<query, table, results, template, reply>>

\* processQueryRequest prints the block, as many rows as its first column has.
PrintBlock ==
    /\ HasWork("print")
    /\ RowsReadable(Block)
    /\ Take("print")
    /\ reply' = Append(reply,
            [header |-> Map(LAMBDA c : IF c.alias = <<>> THEN c.name ELSE c.alias, Block),
             rows   |-> [i \in 1..Rows(Block) |-> [j \in DOMAIN Block |-> Block[j].data[i]]]])
    /\ UNCHANGED <<query, table, step, out, results, template>>

\* The stream is at its end, or a block without columns is met.
EndPrint ==
    /\ step = "print"
    /\ \/ ~More(in)
       \/ in.blocks # <<>> /\ Block = <<>>
    /\ Stop("ok")

Next ==
    \/ Interpret
    \/ SkipEmptyBlock
    \/ FilterNext
    \/ GroupNext
    \/ DropNext
    \/ OrderNext
    \/ LimitNext
    \/ Fail
    \/ GoUndefined
    \/ EndStep
    \/ EndGroup
    \/ PrintBlock
    \/ EndPrint

(* The thread that serves the request runs on.                             *)
Spec == Init /\ [][Next]_vars /\ WF_vars(Next)

-----------------------------------------------------------------------------
(* All steps index the columns of a block by the length of one of them.    *)
(* That stays inside the columns, and no null pointer is used, for every   *)
(* query that names a table and compares a column with a string in WHERE,  *)
(* if the columns of the table have the same length.  And whatever the     *)
(* table, the statement after the loop of GroupByStep, which uses the      *)
(* block that the loop has seen last, finds one, even if no row came       *)
(* through the filter.                                                     *)
Rectangular == \A c, d \in DOMAIN table : Len(table[c]) = Len(table[d])

SoundQuery ==
    /\ query.table.kind = "identifier"
    /\ IsFunction(query.where) =>
        /\ Len(query.where.args) = 2 => /\ IsIdentifier(query.where.args[1])
                                        /\ query.where.args[2].kind \notin {"integer", "number"}

StaysDefined ==
    /\ Rectangular /\ SoundQuery => step # "undefined"
    /\ step = "group" /\ ~More(in) => template # NoBlock

(* The groups' counts add up to the number of rows that passed the filter, *)
(* also when different rows are taken for one group because their values   *)
(* join to the same key.                                                   *)
MatchingRows ==
    IF Filtering THEN Cardinality(Hits(ReadColumns(table, AllColumns), Filter))
    ELSE Rows(ReadColumns(table, AllColumns))

CountColumns == {j \in DOMAIN reply[1].header : j > Len(reply[1].header) - Len(Functions)}

SumOf(s) ==
    LET upTo[k \in 0..Len(s)] == IF k = 0 THEN 0 ELSE upTo[k - 1] + s[k]
    IN  upTo[Len(s)]

Total(j) == SumOf([i \in DOMAIN reply[1].rows |-> reply[1].rows[i][j][2]])

OneCountAddsUp ==
    step = "ok" /\ Len(Functions) = 1 /\ query.limit = None =>
        \A j \in CountColumns : Total(j) = MatchingRows

(* "count can be used many times in a select expression"                   *)
(* (src/Processors/GroupByStep.h:16).                                       *)
EveryCountAddsUp ==
    step = "ok" /\ Grouping /\ query.limit = None =>
        \A j \in CountColumns : Total(j) = MatchingRows

(* Every query comes to a reply: no step waits for a block that does not   *)
(* come.                                                                   *)
QueryEnds == <>(step \in Final)

(* The pipeline answers as the relational reading of SELECT says.          *)
Answer == INSTANCE SelectAnswer WITH
    answer <- IF step \in Final THEN <<step, reply>> ELSE <<>>

AnswersAsPromised == Answer!Spec
=============================================================================
