------------------------------ MODULE Parsers -------------------------------
(***************************************************************************)
(* What the recursive-descent parser of src/Parser is put together from:    *)
(* the token iterator and the results of parsers.                           *)
(*                                                                         *)
(* A token is the string that spells it; keywords are in upper case.  A    *)
(* parser goes from a position to a result.  The position and the node of  *)
(* No and Thrown are not looked at: parse() puts the iterator back and     *)
(* clears the node when a parser fails, and Thrown is an exception that    *)
(* leaves all parsers.                                                      *)
(*                                                                         *)
(* Keywords and single tokens are parsers as well in the code, one level    *)
(* below the parser that looks for them.  Wherever one is looked for, a     *)
(* chain of several parsers has to fit below the same level, so that the    *)
(* exception never comes from a keyword alone, and here they are            *)
(* predicates.                                                              *)
(***************************************************************************)
EXTENDS SyntaxTree, FiniteSetsExt

CONSTANTS
    Words,      \* the tokens of type BareWord: keywords and names
    Quoted,     \* the quoted identifiers: a function to the names inside the quotes
    Integral,   \* the tokens that read as an integer: a function to the integers
    Fractional, \* the other tokens that strtod reads to the end
    Strings,    \* the tokens of type StringLiteral
    BareDates,  \* token sequences that spell a date of ten characters
    MaxDepth    \* the limit of the depth, 100 in executeQuery

ASSUME DepthAssumption == MaxDepth \in Nat /\ MaxDepth >= 40

VARIABLE text \* the tokens of the query, white space and comments left out

End == ""

At(pos, i) == IF pos.at + i \in DOMAIN text THEN text[pos.at + i] ELSE End
TokenAt(pos) == At(pos, 0)

Start == [at |-> 1, depth |-> 0]

Advance(pos, n) == [pos EXCEPT !.at = @ + n]

\* A keyword of several words that is recognised by the first of them.
There_FirstWord(pos, words) == words # <<>> => TokenAt(pos) = words[1]

There(pos, words) == \A i \in DOMAIN words : At(pos, i - 1) = words[i]

\* ignore(pos): over the words if they are there.
Skip(pos, words) == IF There(pos, words) THEN Advance(pos, Len(words)) ELSE pos

-----------------------------------------------------------------------------
Yes(pos, node) == [ok |-> TRUE, failed |-> FALSE, pos |-> pos, node |-> node]
No     == [ok |-> FALSE, failed |-> TRUE, pos |-> Start, node |-> Null]
Thrown == [ok |-> FALSE, failed |-> FALSE, pos |-> Start, node |-> Null]

Then(r, F(_))  == IF r.ok THEN F(r) ELSE r
OrElse(r, alt) == IF r.failed THEN alt ELSE r
Require(cond, r) == IF cond THEN r ELSE No

\* increaseDepth and decreaseDepth, once or several times.
Down(pos, levels) == [pos EXCEPT !.depth = @ + levels]
Up(pos, levels)   == [pos EXCEPT !.depth = @ - levels]

-----------------------------------------------------------------------------
\* parseOperator for every operator in turn: the first one that is there.
OperatorAt(pos, ops) ==
    LET hits == {k \in DOMAIN ops : There(pos, ops[k].op)}
    IN  IF hits = {} THEN No
        ELSE LET o == ops[Min(hits)] IN Yes(Advance(pos, Len(o.op)), o)

\* A chain that takes only its own levels back, not those of its operators.
DepthBehind_OwnLevels(before, now) == now

DepthBehind(before, now) == before

\* How many times the operator stands here.
Repeated(pos, o) ==
    CHOOSE n \in 0..Len(text) :
        /\ \A i \in 0..(n - 1) : At(pos, i) = o.op[1]
        /\ At(pos, n) # o.op[1]

\* A prefix that takes any number of NOTs for one.
Negates_AnyNumber(n) == n > 0

Negates(n) == n % 2 = 1
=============================================================================
