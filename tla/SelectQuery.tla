----------------------------- MODULE SelectQuery ----------------------------
(***************************************************************************)
(* The tree of a SELECT as the parser hands it to InterpreterSelectQuery,  *)
(* and the column lists that the interpreter takes from it                 *)
(* (src/Interpreters/InterpreterSelectQuery.cpp).                           *)
(*                                                                         *)
(* Names and values are strings, that is sequences of letters, so that     *)
(* they can be compared and joined; a letter is a positive integer.  An    *)
(* integer cell n is <<0, n>>, which sorts before every string that is not *)
(* empty, as boost::variant<int, std::string> does.                        *)
(***************************************************************************)
EXTENDS Integers, SequencesExt, FiniteSetsExt, Places

CONSTANTS
    CountName,  \* the name of the function count
    EqualsName, \* the name of the function equals
    Dot,        \* the letter between the parts of a compound name
    IntSize     \* how many numbers an int can be, 2^32 in the program

ASSUME LettersAssumption ==
    /\ Dot \in Nat \ {0}
    /\ CountName \in Seq(Nat \ {0})
    /\ EqualsName \in Seq(Nat \ {0})
    /\ IntSize \in Nat \ {0} /\ IntSize % 2 = 0

IntCell(n) == <<0, n>>

None == [kind |-> "none"]

\* ASTIdentifier: the last part of the name, the first one if there are several.
Identifier(name, qualifier, alias) ==
    [kind |-> "identifier", name |-> name, qualifier |-> qualifier, alias |-> alias]
Function(name, args, alias) ==
    [kind |-> "function", name |-> name, args |-> args, alias |-> alias]
StringLiteral(s)  == [kind |-> "string", value |-> s]
IntegerLiteral(n) == [kind |-> "integer", value |-> n]
OtherNode         == [kind |-> "other"]

Compound(id) == id.qualifier # <<>>
FullName(id) == IF Compound(id) THEN id.qualifier \o <<Dot>> \o id.name ELSE id.name

IsIdentifier(node) == node.kind = "identifier"
IsFunction(node)   == node.kind = "function"

\* A column of a block; qualifier is kept for the checks of SelectStep.
Column(name, alias, qualifier, tmp, data) ==
    [name |-> name, alias |-> alias, qualifier |-> qualifier, tmp |-> tmp,
     data |-> data]

ColumnOf(id) == Column(id.name, id.alias, id.qualifier, FALSE, <<>>)

Map(f(_), s) == [i \in DOMAIN s |-> f(s[i])]

Keep(s, Test(_)) == AtPlaces(s, {i \in DOMAIN s : Test(s[i])})

\* One string after the other, with nothing between them.
Joined(values) ==
    LET upTo[k \in 0..Len(values)] == IF k = 0 THEN <<>> ELSE upTo[k - 1] \o values[k]
    IN  upTo[Len(values)]

\* Field::get<int>() of a 64-bit integer: its low bits as a signed number.
GetInt(n) ==
    LET low == n % IntSize
    IN  IF low >= IntSize \div 2 THEN low - IntSize ELSE low

-----------------------------------------------------------------------------
GetColumns(select) == Map(ColumnOf, Keep(select, IsIdentifier))

GetAgrFunctions(select) == Keep(select, IsFunction)

\* Only count may be called.
WrongFunction(select) ==
    \E i \in DOMAIN select : IsFunction(select[i]) /\ select[i].name # CountName

\* The filter is the WHERE expression if that is a call; anything else is
\* dropped without a word.
GetFilter(where) == IF IsFunction(where) THEN where ELSE None

WrongFilter(where) ==
    /\ IsFunction(where)
    /\ where.name # EqualsName \/ Len(where.args) # 2

GetFilterColumns(where) ==
    IF IsFunction(where) /\ IsIdentifier(where.args[1])
    THEN <<ColumnOf(where.args[1])>> ELSE <<>>

\* The column of WHERE is read too, as a temporary one, unless a selected column
\* has that name or alias.
CombineColumns(selected, filtering) ==
    LET Known(c) == \E i \in DOMAIN selected :
                        \/ selected[i].name = c.name
                        \/ selected[i].alias # <<>> /\ selected[i].alias = c.name
        Unknown(c) == ~Known(c)
        Temporary(c) == [c EXCEPT !.tmp = TRUE]
    IN  selected \o Map(Temporary, Keep(filtering, Unknown))

\* GROUP BY names columns, or gives the positions of selected ones; other
\* expressions are dropped.
Positions(groupBy) == {i \in DOMAIN groupBy : groupBy[i].kind = "integer"}

WrongPosition(selected, groupBy) ==
    \E i \in Positions(groupBy) :
        GetInt(groupBy[i].value) \notin 1..Len(selected)

GroupByNames(selected, groupBy) ==
    {groupBy[i].name : i \in {j \in DOMAIN groupBy : IsIdentifier(groupBy[j])}}
    \union {selected[GetInt(groupBy[i].value)].name : i \in Positions(groupBy)}
=============================================================================
