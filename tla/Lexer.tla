------------------------------- MODULE Lexer --------------------------------
(***************************************************************************)
(* The lexer of src/Parser/Lexer.cpp: a text is cut into tokens, one call  *)
(* of nextToken after another, as Tokens (TokenIterator.h) asks for them.  *)
(* Every branch of nextTokenImpl is an action; the loop over a quoted       *)
(* string takes a step for every turn.                                      *)
(*                                                                         *)
(* Places in the text count from 1.  A token goes from its first character *)
(* to the place behind its last one.  A character is a string; a white      *)
(* space of several bytes counts as one.                                    *)
(***************************************************************************)
EXTENDS Integers, SequencesExt

CONSTANTS
    Chars,        \* the characters of a text
    MaxQuerySize, \* the length up to which tokens are good, 1000 in executeQuery
    Digits,       \* 0 to 9
    HexDigits,    \* and a to f
    WordChars,    \* letters, digits and the underscore
    Spaces,       \* ASCII white space, "\n" among it
    WideSpaces    \* white space beyond ASCII

ASSUME SizeAssumption == MaxQuerySize \in Nat \ {0}

VARIABLES
    text,   \* the text
    pos,    \* the place the lexer looks at
    begin,  \* where the token begins
    mode,   \* "start" of a token, in a "quoted" one, or "done"
    prev,   \* prev_significant_token_type
    tokens  \* the tokens so far

vars == <<text, pos, begin, mode, prev, tokens>>

Size == Len(text)
Ends == 1..(Size + 1)

Is(i, chars) == i \in 1..Size /\ text[i] \in chars

There(i, chars) ==
    /\ i + Len(chars) - 1 <= Size
    /\ \A k \in 1..Len(chars) : text[i + k - 1] = chars[k]

\* From i on there are characters of the set up to the place j, and no further.
Run(i, j, chars) ==
    /\ i <= j
    /\ \A k \in i..(j - 1) : text[k] \in chars
    /\ ~Is(j, chars)

\* From i on there is none of the characters before the place j.
Until(i, j, chars) ==
    /\ i <= j
    /\ \A k \in i..(j - 1) : text[k] \notin chars
    /\ j <= Size => text[j] \in chars

-----------------------------------------------------------------------------
\* The marks and operators of one character and of two, with the types of their tokens.
Single == {
    <<"(", "OpeningRoundBracket">>,  <<")", "ClosingRoundBracket">>,
    <<"[", "OpeningSquareBracket">>, <<"]", "ClosingSquareBracket">>,
    <<"{", "OpeningCurlyBrace">>,    <<"}", "ClosingCurlyBrace">>,
    <<",", "Comma">>, <<";", "Semicolon">>, <<"?", "QuestionMark">>, <<":", "Colon">>,
    <<"+", "Plus">>, <<"-", "Minus">>, <<"*", "Asterisk">>, <<"/", "Slash">>, <<"%", "Percent">>,
    <<"=", "Equals">>, <<"<", "Less">>, <<">", "Greater">>, <<"@", "At">>,
    <<"!", "ErrorSingleExclamationMark">>, <<"|", "ErrorSinglePipeMark">>}

Double == {
    <<"-", ">", "Arrow">>, <<"=", "=", "Equals">>, <<"!", "=", "NotEquals">>,
    <<"<", ">", "NotEquals">>, <<"<", "=", "LessOrEquals">>, <<">", "=", "GreaterOrEquals">>,
    <<"|", "|", "Concatenation">>, <<"@", "@", "DoubleAt">>}

Marks == {<<<<m[1]>>, m[2]>> : m \in Single} \union {<<<<m[1], m[2]>>, m[3]>> : m \in Double}

\* The quotes: the type of what they enclose, and the error if they are not closed.
Quotes == {
    <<"'", "StringLiteral", "ErrorSingleQuoteIsNotClosed">>,
    <<"\"", "QuotedIdentifier", "ErrorDoubleQuoteIsNotClosed">>,
    <<"backquote", "QuotedIdentifier", "ErrorBackQuoteIsNotClosed">>}

QuoteChars == {q[1] : q \in Quotes}
MarkChars  == {m[1][1] : m \in Marks}

Types == {m[2] : m \in Marks} \union {q[2] : q \in Quotes} \union {q[3] : q \in Quotes}
    \union {"Whitespace", "Comment", "BareWord", "Number", "Dot", "EndOfStream", "Error",
            "ErrorMultilineCommentIsNotClosed", "ErrorWrongNumber",
            "ErrorMaxQuerySizeExceeded"}

Significant(type) == type \notin {"Whitespace", "Comment"}

LineComment == There(pos, <<"-", "-">>) \/ There(pos, <<"/", "/">>)
BlockComment == There(pos, <<"/", "*">>)

-----------------------------------------------------------------------------
Init ==
    /\ text \in Seq(Chars)
    /\ pos = 1
    /\ begin = 1
    /\ mode = "start"
    /\ prev = "Whitespace"
    /\ tokens = <<>>

\* nextToken: a token that reaches beyond the limit is an error, whatever it is.
\* The lexer goes on at next.
EmitAndGoTo(type, to, next) ==
    LET final == IF to - 1 > MaxQuerySize THEN "ErrorMaxQuerySizeExceeded" ELSE type
    IN  /\ to \in Ends
        /\ tokens' = Append(tokens, [type |-> final, from |-> begin, to |-> to])
        /\ prev' = IF Significant(final) THEN final ELSE prev
        /\ pos' = next
        /\ begin' = next
        /\ mode' = "start"
        /\ UNCHANGED text

Emit(type, to) == EmitAndGoTo(type, to, to)

At(chars) == mode = "start" /\ Is(pos, chars)

Whitespace ==
    /\ At(Spaces)
    /\ \E j \in Ends : j > pos /\ Run(pos, j, Spaces) /\ Emit("Whitespace", j)

\* skipWhitespacesUTF8, which goes over ASCII white space too once it has begun.
WideWhitespace ==
    /\ At(WideSpaces)
    /\ \E j \in Ends : j > pos /\ Run(pos, j, Spaces \union WideSpaces) /\ Emit("Whitespace", j)

\* A decimal point with digits, from i to j, if there is one.
Fraction(i, j, digits) == IF Is(i, {"."}) THEN Run(i + 1, j, digits) ELSE j = i

\* An exponent from i to j, if there is one that is not at the very end.
Exponent(i, j, marks) ==
    IF Is(i, marks) /\ i < Size
    THEN LET sign == Is(i + 1, {"-", "+"}) /\ i + 1 < Size
         IN  Run(IF sign THEN i + 2 ELSE i + 1, j, Digits)
    ELSE j = i

\* The digits behind a dot are an index, so that x.1.1 is no fraction.
IndexTo(j) == j > pos /\ Run(pos + 1, j, Digits)

NumberTo(j) ==
    LET prefixed == pos + 2 <= Size /\ text[pos] = "0" /\ text[pos + 1] \in {"x", "X", "b", "B"}
        hex == prefixed /\ text[pos + 1] \in {"x", "X"}
        digits == IF hex THEN HexDigits ELSE Digits
        first == IF prefixed THEN pos + 2 ELSE pos + 1
    IN  \E a, b \in Ends : /\ Run(first, a, digits)
                           /\ Fraction(a, b, digits)
                           /\ Exponent(b, j, IF hex THEN {"p", "P"} ELSE {"e", "E"})
                           /\ b <= j

\* Letters that follow a number at once make it a wrong one.
Number ==
    /\ At(Digits)
    /\ \E j \in Ends :
        /\ j > pos
        /\ IF prev = "Dot" THEN IndexTo(j) ELSE NumberTo(j)
        /\ IF Is(j, WordChars)
           THEN \E k \in Ends : Run(j, k, WordChars) /\ Emit("ErrorWrongNumber", k)
           ELSE Emit("Number", j)

\* A quote that is not doubled ends the string.
OpenQuote ==
    /\ At(QuoteChars)
    /\ pos' = pos + 1
    /\ mode' = "quoted"
    /\ UNCHANGED <<text, begin, prev, tokens>>

Quote == CHOOSE q \in Quotes : q[1] = text[begin]

\* The next quote or backslash is at j, or the text ends there.
QuotedTo(j) == mode = "quoted" /\ Until(pos, j, {Quote[1], "\\"})

QuotedPair_PastTheEnd ==
    \E j \in Ends :
        /\ QuotedTo(j)
        /\ j <= Size
        /\ text[j] = "\\" \/ Is(j + 1, {Quote[1]})
        /\ pos' = j + 2
        /\ UNCHANGED <<text, begin, mode, prev, tokens>>

QuotedPair ==
    \E j \in Ends :
        /\ QuotedTo(j)
        /\ j < Size
        /\ text[j] = "\\" \/ text[j + 1] = Quote[1]
        /\ pos' = j + 2
        /\ UNCHANGED <<text, begin, mode, prev, tokens>>

CloseQuote_NotDoubled ==
    \E j \in Ends :
        /\ QuotedTo(j)
        /\ Is(j, {Quote[1]})
        /\ Emit(Quote[2], j + 1)

CloseQuote ==
    \E j \in Ends :
        /\ QuotedTo(j)
        /\ Is(j, {Quote[1]})
        /\ ~Is(j + 1, {Quote[1]})
        /\ Emit(Quote[2], j + 1)

QuoteNotClosed_NoQuote ==
    \E j \in Ends :
        /\ QuotedTo(j)
        /\ j > Size
        /\ EmitAndGoTo(Quote[3], Size + 1, Size + 1)

QuoteNotClosed ==
    \E j \in Ends :
        /\ QuotedTo(j)
        /\ j > Size \/ (j = Size /\ text[j] = "\\")
        /\ EmitAndGoTo(Quote[3], Size + 1, Size + 1)

\* Behind a word, a bracket or a number a dot is a dot; otherwise it may begin a
\* number, and at the beginning of the text it does even without a digit.
DotBehind_NoIndex == {"ClosingRoundBracket", "ClosingSquareBracket", "BareWord", "QuotedIdentifier"}

DotBehind == {"ClosingRoundBracket", "ClosingSquareBracket", "BareWord", "QuotedIdentifier", "Number"}

Dot ==
    /\ At({"."})
    /\ IF pos > 1 /\ (~Is(pos + 1, Digits) \/ prev \in DotBehind)
       THEN Emit("Dot", pos + 1)
       ELSE \E a, j \in Ends :
                /\ a > pos /\ Run(pos + 1, a, Digits)
                /\ a <= j /\ Exponent(a, j, {"e", "E"})
                /\ Emit("Number", j)

LineCommentToken_SkipsLineEnd ==
    /\ mode = "start" /\ LineComment
    /\ \E j \in Ends : /\ j > pos /\ Until(pos + 2, j, {"\n"})
                      /\ EmitAndGoTo("Comment", j, IF j <= Size THEN j + 1 ELSE j)

LineCommentToken ==
    /\ mode = "start" /\ LineComment
    /\ \E j \in Ends : j > pos /\ Until(pos + 2, j, {"\n"}) /\ Emit("Comment", j)

\* A comment that is not closed covers the rest of the text, but the lexer goes on
\* at the last character.
BlockCommentToken ==
    LET closed == {k \in (pos + 2)..(Size - 1) : There(k, <<"*", "/">>)}
    IN  /\ mode = "start" /\ BlockComment
        /\ \/ \E k \in closed : (\A l \in closed : k <= l) /\ Emit("Comment", k + 2)
           \/ /\ closed = {}
              /\ EmitAndGoTo("ErrorMultilineCommentIsNotClosed", Size + 1,
                             IF pos + 2 <= Size THEN Size ELSE Size + 1)

\* The longest mark or operator.
Mark ==
    /\ At(MarkChars)
    /\ ~LineComment /\ ~BlockComment
    /\ \E m \in Marks :
        /\ There(pos, m[1])
        /\ \A n \in Marks : There(pos, n[1]) => Len(n[1]) <= Len(m[1])
        /\ Emit(m[2], pos + Len(m[1]))

Word ==
    /\ At(WordChars \ Digits)
    /\ \E j \in Ends : j > pos /\ Run(pos, j, WordChars) /\ Emit("BareWord", j)

Unknown ==
    /\ mode = "start" /\ pos <= Size
    /\ ~Is(pos, Spaces \union WideSpaces \union Digits \union QuoteChars \union {"."}
                \union MarkChars \union WordChars)
    /\ Emit("Error", pos + 1)

EndOfStream ==
    /\ mode = "start" /\ pos = Size + 1
    /\ tokens' = Append(tokens, [type |-> "EndOfStream", from |-> Size + 1, to |-> Size + 1])
    /\ prev' = "EndOfStream"
    /\ mode' = "done"
    /\ UNCHANGED <<text, pos, begin>>

Next ==
    \/ Whitespace \/ WideWhitespace \/ Number \/ OpenQuote \/ QuotedPair \/ CloseQuote
    \/ QuoteNotClosed \/ Dot \/ LineCommentToken \/ BlockCommentToken \/ Mark \/ Word
    \/ Unknown \/ EndOfStream

Spec == Init /\ [][Next]_vars /\ WF_vars(Next)

\* What the parser takes from a quoted token: everything up to the next quote, doubled
\* or behind a backslash as it may be.  It does not ask where the token ends.
QuotedValue(t) ==
    LET quotes == {i \in (t.from + 1)..Size : text[i] = text[t.from]}
        first == CHOOSE i \in quotes : \A k \in quotes : i <= k
    IN  SubSeq(text, t.from + 1, first - 1)

-----------------------------------------------------------------------------
StaysInText ==
    /\ text \in Seq(Chars)
    /\ pos \in Ends
    /\ begin \in Ends
    /\ mode \in {"start", "quoted", "done"}
    /\ prev \in Types
    /\ tokens \in Seq([type : Types, from : Ends, to : Ends])

\* The token t and what comes behind it, at the place next.
Joins(t, next) ==
    \/ next = t.to
    \/ /\ t.to = Size + 1 /\ next = Size
       /\ There(t.from, <<"/", "*">>)

\* The tokens cover the text without gap and without overlap from its beginning to
\* the place the lexer has come to, whatever characters it meets; only behind a
\* comment that is not closed the last character is read again.
TokensTile ==
    /\ \A i \in 1..(Len(tokens) - 1) : Joins(tokens[i], tokens[i + 1].from)
    /\ tokens # <<>> => tokens[1].from = 1
    /\ \A i \in 1..Len(tokens) : tokens[i].from < tokens[i].to \/ tokens[i].type = "EndOfStream"

\* In 'hello''word' or 'hello\'word\\' (Lexer.h:15) every quote inside is doubled
\* or behind a backslash, and the one that ends the token is not.  What the parser takes
\* from the token (ExpressionElementParsers.cpp:97, :433) lies inside of it, and is all of
\* it unless there is a quote of the same kind inside.
WellQuoted(chars, quote) ==
    LET n == Len(chars)
        good[i \in 1..(n + 2)] ==
            \/ i = n + 1
            \/ /\ i <= n
               /\ \/ chars[i] \notin {quote, "\\"} /\ good[i + 1]
                  \/ chars[i] = "\\" /\ good[i + 2]
                  \/ chars[i] = quote /\ i < n /\ chars[i + 1] = quote /\ good[i + 2]
    IN  good[1]

QuotedAsWritten ==
    \A k \in DOMAIN tokens :
        tokens[k].type \in {"StringLiteral", "QuotedIdentifier"} =>
            LET first == tokens[k].from
                last == tokens[k].to - 1
            IN  /\ first < last
                /\ text[first] = text[last]
                /\ WellQuoted(SubSeq(text, first + 1, last - 1), text[first])
                /\ ~Is(last + 1, {text[first]})
                /\ LET inside == SubSeq(text, first + 1, last - 1)
                       value == QuotedValue(tokens[k])
                   IN  /\ IsPrefix(value, inside)
                       /\ value = inside \/ inside[Len(value) + 1] = text[first]

\* Every call of nextToken returns and the end of the text is reached.
LexerStops == <>(mode = "done")
=============================================================================
