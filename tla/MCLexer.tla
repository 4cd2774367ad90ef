------------------------------ MODULE MCLexer -------------------------------
(***************************************************************************)
(* Texts for the lexer: every sequence of a few characters, and texts that *)
(* are written from tokens with something between them.                     *)
(***************************************************************************)
EXTENDS Lexer, SequencesExt

CONSTANT MaxLength \* of the sequences

VARIABLE meant \* the tokens that the text was written from

MCChars == {"0", "1", "a", "e", "x", "p", ".", "-", "'", "\"", "\\", " ", "(", ")", ",", "/", "*",
            "\n", "nbsp", "<", ">", "=", "!", "#"}
MCDigits     == {"0", "1"}
MCHexDigits  == {"0", "1", "a", "e"}
MCWordChars  == {"0", "1", "a", "e", "x", "p", "_"}
MCSpaces     == {" ", "\n"}
MCWideSpaces == {"nbsp"}

\* Numbers and names, quotes, comments and other marks.
Alphabets == <<
    <<"0", "x", "e", ".", "-", "p">>,
    <<"'", "\"", "\\", "a", " ", "(">>,
    <<"-", "/", "*", "\n", "a", "nbsp">>,
    <<"<", ">", "=", "!", "#", "1">>>>

Arbitrary == {[i \in 1..n |-> Alphabets[k][g[i]]] :
            k \in DOMAIN Alphabets, n \in 0..MaxLength, g \in [1..MaxLength -> 1..6]}

-----------------------------------------------------------------------------
W(type, chars) == [type |-> type, chars |-> chars]

Written == {
    W("BareWord", <<"a">>), W("BareWord", <<"e", "1">>),
    W("Number", <<"1">>), W("Number", <<"1", ".", "0">>), W("Number", <<".", "1">>),
    W("Number", <<"1", "e", "-", "0">>), W("Number", <<"0", "x", "a", "p", "1">>),
    W("StringLiteral", <<"'", "a", "'", "'", "\\", "'", "'">>),
    W("QuotedIdentifier", <<"\"", "'", "\"">>),
    W("OpeningRoundBracket", <<"(">>), W("ClosingRoundBracket", <<")">>),
    W("Comma", <<",">>), W("Dot", <<".">>), W("Minus", <<"-">>), W("Arrow", <<"-", ">">>),
    W("Slash", <<"/">>), W("LessOrEquals", <<"<", "=">>), W("NotEquals", <<"<", ">">>)}

Space == W("Whitespace", <<" ">>)
LineEnd == W("Whitespace", <<"\n">>)
Separators == {
    <<Space>>, <<W("Comment", <<"-", "-", "'">>), LineEnd>>, <<W("Comment", <<"/", "*", "'", "*", "/">>)>>}

Alone == {"OpeningRoundBracket", "ClosingRoundBracket", "Comma"}

\* The two may follow each other: nothing stands behind a dot but an index, and a
\* dot that begins a number is not behind what it could be a part of.
MayFollow(v, w) ==
    /\ ~(v.type = "Dot" /\ w.type = "Number" /\ Len(w.chars) > 1)
    /\ ~(v.type \in DotBehind /\ w.type = "Number" /\ w.chars[1] = ".")

MayTouch(v, w) == v.type \in Alone \/ w.type \in Alone

\* An index behind an index, as in x.1.1.
Index  == <<W("Dot", <<".">>), W("Number", <<"1">>)>>
Spaced(ws) == [i \in 1..(2 * Len(ws) - 1) |-> IF i % 2 = 1 THEN ws[(i + 1) \div 2] ELSE Space]
Chains == {<<v>> \o Index \o Index : v \in {w \in Written : w.type \in DotBehind /\ w.type # "Number"}}

\* A comment right behind a minus or a slash would begin with it.
Between(v) == IF v.type \in {"Minus", "Slash"} THEN {<<Space>>} ELSE Separators

\* A dot at the beginning of the text is no dot.
Sentences ==
    UNION {{<<v>> \o s \o <<w>> : s \in Between(v)} \union (IF MayTouch(v, w) THEN {<<v, w>>} ELSE {}) :
               v \in {x \in Written : x.type # "Dot"}, w \in Written}

Legal == {ws \in Sentences : MayFollow(Head(ws), Last(ws))} \union Chains \union {Spaced(c) : c \in Chains}

CharsOf(ws) == FlattenSeq([i \in DOMAIN ws |-> ws[i].chars])

\* Where each of them is to be found.
TokensOf(ws) ==
    [i \in DOMAIN ws |->
        LET from == Len(CharsOf(SubSeq(ws, 1, i - 1))) + 1
            to == from + Len(ws[i].chars)
        IN  [type |-> IF to - 1 > MaxQuerySize THEN "ErrorMaxQuerySizeExceeded" ELSE ws[i].type,
             from |-> from, to |-> to]]

MCInit ==
    /\ \/ text \in Arbitrary /\ meant = <<>>
       \/ \E ws \in Legal : text = CharsOf(ws) /\ meant = TokensOf(ws)
    /\ Init

MCNext == Next /\ UNCHANGED meant
MCSpec == MCInit /\ [][MCNext]_<<vars, meant>> /\ WF_vars(MCNext)

-----------------------------------------------------------------------------
\* Tokens that are written one behind the other, with white space, a comment or
\* a bracket between them, are found again where they were written, up to the
\* largest length of a query: quotes in comments, comments in quotes, dots and
\* signs of numbers do not mislead the lexer (Lexer.cpp:57-329).
WrittenTokensComeBack ==
    mode = "done" /\ meant # <<>> => Front(tokens) = meant
=============================================================================
