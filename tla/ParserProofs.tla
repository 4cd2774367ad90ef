---------------------------- MODULE ParserProofs ----------------------------
(***************************************************************************)
(* The two ends of the parser, for every text and for every sequence of     *)
(* clauses.                                                                *)
(*                                                                         *)
(* For every text over every alphabet, with every division of the alphabet *)
(* into digits, letters and white space, and for every limit of the length: *)
(* the lexer stays in the text, and its tokens tile it.  TokensTile says    *)
(* nothing of where the next token begins, so it is not inductive.  Lexed   *)
(* adds that the token in work begins where the last one ends (or at the    *)
(* last character, behind an open comment), and that the lexer has moved    *)
(* past its beginning when it is inside a quoted string.                    *)
(*                                                                         *)
(* A quoted token ends where the text says: QuotedInv keeps the places at   *)
(* which the loop of quotedString begins a turn, as a chain from the first  *)
(* character inside of the quotes to the place the lexer is at.            *)
(*                                                                         *)
(* The node of a SELECT is a map: whatever is put into it and taken away,   *)
(* every clause is read as it was set last, although the clauses share one  *)
(* sequence of children and move in it.                                     *)
(***************************************************************************)
EXTENDS Lexer, SyntaxTree, SequenceTheorems, PlacesProofs, TLAPS

-----------------------------------------------------------------------------
(* The lexer.                                                               *)

JoinsLast ==
    IF tokens = <<>> THEN begin = 1 ELSE Joins(tokens[Len(tokens)], begin)

Lexed ==
    /\ StaysInText
    /\ TokensTile
    /\ mode # "done" => JoinsLast
    /\ mode = "start" => pos = begin
    /\ mode = "quoted" => pos > begin /\ begin <= Size /\ text[begin] \in QuoteChars

-----------------------------------------------------------------------------
LEMMA SizeType == StaysInText => Size \in Nat /\ Ends \subseteq Nat /\ \A i \in Ends : i >= 1
  BY DEF StaysInText, Size, Ends

\* A mark has one character or two, and its type is one of the types.
LEMMA MarkFacts ==
  ASSUME NEW m \in Marks
  PROVE  Len(m[1]) \in {1, 2} /\ m[2] \in Types
<1>1. m[2] \in Types
  BY DEF Types
<1>2. Len(m[1]) \in {1, 2}
  BY DEF Marks
<1> QED
  BY <1>1, <1>2

LEMMA QuoteFacts ==
  ASSUME text[begin] \in QuoteChars
  PROVE  Quote[2] \in Types /\ Quote[3] \in Types
<1>1. PICK q \in Quotes : q[1] = text[begin]
  BY DEF QuoteChars
<1>2. Quote \in Quotes
  BY <1>1 DEF Quote
<1> QED
  BY <1>2 DEF Types

LEMMA TypeNames ==
  {"Whitespace", "Comment", "BareWord", "Number", "Dot", "EndOfStream", "Error",
   "ErrorMultilineCommentIsNotClosed", "ErrorWrongNumber", "ErrorMaxQuerySizeExceeded"}
  \subseteq Types
  BY DEF Types

\* The token t joins the place n.
LEMMA AppendTiles ==
  ASSUME Lexed, mode # "done", text' = text,
         NEW t \in [type : Types, from : Ends, to : Ends], t.from = begin,
         t.from < t.to \/ t.type = "EndOfStream",
         tokens' = Append(tokens, t)
  PROVE  TokensTile' /\ tokens' \in Seq([type : Types, from : Ends, to : Ends])
                     /\ tokens' # <<>> /\ tokens'[Len(tokens')] = t
<1> DEFINE Token == [type : Types, from : Ends, to : Ends]
<1>1. tokens \in Seq(Token) /\ Len(tokens) \in Nat
  BY DEF Lexed, StaysInText
<1>2. Len(tokens') = Len(tokens) + 1 /\ tokens' \in Seq(Token)
  BY <1>1
<1>3. \A i \in 1..Len(tokens) : tokens'[i] = tokens[i]
  BY <1>1
<1>4. tokens'[Len(tokens) + 1] = t
  BY <1>1
<1>5. ASSUME NEW i \in 1..(Len(tokens') - 1)
      PROVE  Joins(tokens'[i], tokens'[i + 1].from)
  <2>1. CASE i = Len(tokens)
    <3>1. tokens # <<>> /\ tokens'[i] = tokens[Len(tokens)]
      BY <2>1, <1>1, <1>2, <1>3
    <3>2. tokens'[i + 1].from = begin
      BY <2>1, <1>4
    <3> QED
      BY <3>1, <3>2 DEF Lexed, JoinsLast
  <2>2. CASE i # Len(tokens)
    <3>1. i \in 1..(Len(tokens) - 1)
      BY <2>2, <1>1, <1>2
    <3>2. tokens'[i] = tokens[i] /\ tokens'[i + 1] = tokens[i + 1]
      BY <3>1, <1>1, <1>3
    <3> QED
      BY <3>1, <3>2 DEF Lexed, TokensTile
  <2> QED
    BY <2>1, <2>2
<1>6. tokens'[1].from = 1
  <2>1. CASE tokens = <<>>
    BY <2>1, <1>4 DEF Lexed, JoinsLast
  <2>2. CASE tokens # <<>>
    <3>1. tokens'[1] = tokens[1]
      BY <2>2, <1>1, <1>3
    <3> QED
      BY <2>2, <3>1 DEF Lexed, TokensTile
  <2> QED
    BY <2>1, <2>2
<1>7. ASSUME NEW i \in 1..Len(tokens')
      PROVE  tokens'[i].from < tokens'[i].to \/ tokens'[i].type = "EndOfStream"
  <2>1. CASE i = Len(tokens) + 1
    BY <2>1, <1>4
  <2>2. CASE i # Len(tokens) + 1
    <3>1. i \in 1..Len(tokens)
      BY <2>2, <1>1, <1>2
    <3> QED
      BY <3>1, <1>3 DEF Lexed, TokensTile
  <2> QED
    BY <2>1, <2>2
<1>8. (\A i \in 1..(Len(tokens) - 1) : Joins(tokens[i], tokens[i + 1].from))'
  BY <1>5 DEF Joins, Size, There
<1> QED
  BY <1>1, <1>2, <1>4, <1>6, <1>7, <1>8 DEF TokensTile

\* A token that is emitted has at least one character, and the lexer goes on behind
\* it or, in an open comment, at the last character.
LEMMA EmitLexed ==
  ASSUME Lexed, mode # "done",
         NEW type \in Types, NEW to \in Ends, NEW next \in Ends,
         to > begin,
         next = to \/ (to = Size + 1 /\ next = Size /\ There(begin, <<"/", "*">>)),
         EmitAndGoTo(type, to, next)
  PROVE  Lexed'
<1> DEFINE final == IF to - 1 > MaxQuerySize THEN "ErrorMaxQuerySizeExceeded" ELSE type
           t == [type |-> final, from |-> begin, to |-> to]
<1>1. /\ tokens' = Append(tokens, t) /\ text' = text /\ pos' = next /\ begin' = next
      /\ mode' = "start" /\ prev' = IF Significant(final) THEN final ELSE prev
  BY DEF EmitAndGoTo
<1>2. final \in Types
  BY TypeNames
<1>3. t \in [type : Types, from : Ends, to : Ends] /\ t.from = begin /\ t.from < t.to /\ t.to = to
  BY <1>2, SizeType DEF Lexed, StaysInText
<1> HIDE DEF t, final
<1>4. /\ TokensTile' /\ tokens' \in Seq([type : Types, from : Ends, to : Ends])
      /\ tokens' # <<>> /\ tokens'[Len(tokens')] = t
  BY <1>1, <1>3, AppendTiles
<1>5. Ends' = Ends /\ Size' = Size
  BY <1>1 DEF Ends, Size
<1>6. StaysInText'
  BY <1>1, <1>2, <1>4, <1>5 DEF Lexed, StaysInText
<1>7. JoinsLast'
  BY <1>1, <1>3, <1>4 DEF JoinsLast, Joins, There, Size
<1> QED
  BY <1>1, <1>4, <1>6, <1>7 DEF Lexed

LEMMA EmitsLexed ==
  ASSUME Lexed, mode # "done", NEW type \in Types, NEW to \in Ends, to > begin, Emit(type, to)
  PROVE  Lexed'
  BY EmitLexed DEF Emit

-----------------------------------------------------------------------------
LEMMA InitLexed == Init => Lexed
<1> SUFFICES ASSUME Init PROVE Lexed
  OBVIOUS
<1>1. Len(text) \in Nat /\ 1 \in Ends
  BY DEF Init, Ends, Size
<1>2. "Whitespace" \in Types
  BY TypeNames
<1>3. StaysInText
  BY <1>1, <1>2 DEF Init, StaysInText
<1> QED
  BY <1>3 DEF Init, Lexed, TokensTile, JoinsLast

LEMMA NextLexed == Lexed /\ [Next]_vars => Lexed'
<1> SUFFICES ASSUME Lexed, [Next]_vars PROVE Lexed'
  OBVIOUS
<1>0. /\ StaysInText /\ Size \in Nat /\ pos \in Nat /\ begin \in Nat /\ begin >= 1
      /\ mode = "start" => pos = begin
      /\ mode = "quoted" => pos > begin
  BY SizeType DEF Lexed, StaysInText
<1>1. CASE Whitespace
  BY <1>0, <1>1, EmitsLexed, TypeNames DEF Whitespace, At
<1>2. CASE WideWhitespace
  BY <1>0, <1>2, EmitsLexed, TypeNames DEF WideWhitespace, At
<1>3. CASE Number
  <2>1. PICK j \in Ends :
          /\ j > pos
          /\ IF Is(j, WordChars)
             THEN \E k \in Ends : Run(j, k, WordChars) /\ Emit("ErrorWrongNumber", k)
             ELSE Emit("Number", j)
    BY <1>3 DEF Number
  <2>2. mode = "start" /\ pos = begin
    BY <1>0, <1>3 DEF Number, At
  <2>3. CASE Is(j, WordChars)
    <3>1. PICK k \in Ends : j <= k /\ Emit("ErrorWrongNumber", k)
      BY <2>1, <2>3 DEF Run
    <3>2. k > begin
      BY <1>0, <2>1, <2>2, <3>1, SizeType
    <3> QED
      BY <2>2, <3>1, <3>2, EmitsLexed, TypeNames
  <2>4. CASE ~Is(j, WordChars)
    BY <2>1, <2>2, <2>4, EmitsLexed, TypeNames
  <2> QED
    BY <2>3, <2>4
<1>4. CASE OpenQuote
  <2>1. /\ pos \in 1..Size /\ text[pos] \in QuoteChars /\ mode = "start" /\ pos = begin
        /\ pos' = pos + 1 /\ mode' = "quoted" /\ UNCHANGED <<text, begin, prev, tokens>>
    BY <1>0, <1>4 DEF OpenQuote, At, Is
  <2>2. StaysInText'
    BY <1>0, <2>1 DEF StaysInText, Ends, Size
  <2>3. TokensTile' /\ JoinsLast'
    BY <2>1 DEF Lexed, TokensTile, JoinsLast, Joins, There, Size
  <2> QED
    BY <1>0, <2>1, <2>2, <2>3 DEF Lexed, Size
<1>5. CASE QuotedPair
  <2>1. PICK j \in Ends : /\ mode = "quoted" /\ pos <= j /\ j < Size /\ pos' = j + 2
                          /\ UNCHANGED <<text, begin, mode, prev, tokens>>
    BY <1>5 DEF QuotedPair, QuotedTo, Until
  <2>2. pos' \in Ends /\ pos' > begin
    BY <1>0, <2>1, SizeType DEF Ends
  <2>3. StaysInText'
    BY <2>1, <2>2 DEF Lexed, StaysInText, Ends, Size
  <2>4. TokensTile' /\ JoinsLast'
    BY <2>1 DEF Lexed, TokensTile, JoinsLast, Joins, There, Size
  <2> QED
    BY <2>1, <2>2, <2>3, <2>4 DEF Lexed, Size
<1>6. CASE CloseQuote
  <2>1. PICK j \in Ends : /\ mode = "quoted" /\ pos <= j /\ j \in 1..Size
                          /\ Emit(Quote[2], j + 1)
    BY <1>6 DEF CloseQuote, QuotedTo, Until, Is
  <2>2. j + 1 \in Ends /\ j + 1 > begin
    BY <1>0, <2>1 DEF Ends
  <2>3. Quote[2] \in Types
    BY <2>1, QuoteFacts DEF Lexed
  <2> QED
    BY <2>1, <2>2, <2>3, EmitsLexed
<1>7. CASE QuoteNotClosed
  <2>1. mode = "quoted" /\ EmitAndGoTo(Quote[3], Size + 1, Size + 1)
    BY <1>7 DEF QuoteNotClosed, QuotedTo
  <2>2. Size + 1 \in Ends /\ Size + 1 > begin
    BY <1>0, <2>1 DEF Lexed, Ends
  <2>3. Quote[3] \in Types
    BY <2>1, QuoteFacts DEF Lexed
  <2> QED
    BY <2>1, <2>2, <2>3, EmitLexed
<1>8. CASE Dot
  <2>1. mode = "start" /\ pos = begin /\ pos \in 1..Size
    BY <1>0, <1>8 DEF Dot, At, Is
  <2>2. CASE Emit("Dot", pos + 1)
    <3>1. pos + 1 \in Ends /\ pos + 1 > begin
      BY <1>0, <2>1 DEF Ends
    <3> QED
      BY <2>1, <2>2, <3>1, EmitsLexed, TypeNames
  <2>3. CASE \E a, j \in Ends : a > pos /\ a <= j /\ Emit("Number", j)
    <3>1. PICK j \in Ends : j > begin /\ Emit("Number", j)
      BY <1>0, <2>1, <2>3, SizeType
    <3> QED
      BY <2>1, <3>1, EmitsLexed, TypeNames
  <2> QED
    BY <1>8, <2>2, <2>3 DEF Dot
<1>9. CASE LineCommentToken
  BY <1>0, <1>9, EmitsLexed, TypeNames DEF LineCommentToken
<1>10. CASE BlockCommentToken
  <2>1. /\ mode = "start" /\ pos = begin /\ There(begin, <<"/", "*">>) /\ begin + 1 <= Size
    BY <1>0, <1>10 DEF BlockCommentToken, BlockComment, There
  <2>2. CASE \E k \in (pos + 2)..(Size - 1) : Emit("Comment", k + 2)
    <3>1. PICK k \in (pos + 2)..(Size - 1) : Emit("Comment", k + 2)
      BY <2>2
    <3>2. k + 2 \in Ends /\ k + 2 > begin
      BY <1>0, <2>1, <3>1 DEF Ends
    <3> QED
      BY <2>1, <3>1, <3>2, EmitsLexed, TypeNames
  <2>3. CASE EmitAndGoTo("ErrorMultilineCommentIsNotClosed", Size + 1,
                         IF pos + 2 <= Size THEN Size ELSE Size + 1)
    <3>1. Size + 1 \in Ends /\ Size \in Ends /\ Size + 1 > begin
      BY <1>0, <2>1 DEF Ends
    <3>2. CASE pos + 2 <= Size
      <4>1. EmitAndGoTo("ErrorMultilineCommentIsNotClosed", Size + 1, Size)
        BY <2>3, <3>2
      <4> QED
        BY <2>1, <3>1, <4>1, EmitLexed, TypeNames
    <3>3. CASE ~(pos + 2 <= Size)
      <4>1. EmitAndGoTo("ErrorMultilineCommentIsNotClosed", Size + 1, Size + 1)
        BY <2>3, <3>3
      <4> QED
        BY <2>1, <3>1, <4>1, EmitLexed, TypeNames
    <3> QED
      BY <3>2, <3>3
  <2> QED
    BY <1>10, <2>2, <2>3 DEF BlockCommentToken
<1>11. CASE Mark
  <2>1. PICK m \in Marks : There(pos, m[1]) /\ Emit(m[2], pos + Len(m[1]))
    BY <1>11 DEF Mark
  <2>2. mode = "start" /\ pos = begin
    BY <1>0, <1>11 DEF Mark, At
  <2>3. Len(m[1]) \in {1, 2} /\ m[2] \in Types
    BY MarkFacts
  <2>4. pos + Len(m[1]) \in Ends /\ pos + Len(m[1]) > begin
    BY <1>0, <2>1, <2>2, <2>3, SMTT(30) DEF There, Ends
  <2> QED
    BY <2>1, <2>2, <2>3, <2>4, EmitsLexed
<1>12. CASE Word
  BY <1>0, <1>12, EmitsLexed, TypeNames DEF Word, At
<1>13. CASE Unknown
  <2>1. mode = "start" /\ pos = begin /\ pos <= Size /\ Emit("Error", pos + 1)
    BY <1>0, <1>13 DEF Unknown
  <2>2. pos + 1 \in Ends /\ pos + 1 > begin
    BY <1>0, <2>1 DEF Ends
  <2> QED
    BY <2>1, <2>2, EmitsLexed, TypeNames
<1>14. CASE EndOfStream
  <2> DEFINE t == [type |-> "EndOfStream", from |-> Size + 1, to |-> Size + 1]
  <2>1. /\ mode = "start" /\ pos = Size + 1 /\ tokens' = Append(tokens, t)
        /\ prev' = "EndOfStream" /\ mode' = "done" /\ UNCHANGED <<text, pos, begin>>
    BY <1>14 DEF EndOfStream
  <2>2. Size + 1 \in Ends /\ "EndOfStream" \in Types
    BY <1>0, TypeNames DEF Ends
  <2>3. t \in [type : Types, from : Ends, to : Ends] /\ t.from = begin /\ t.type = "EndOfStream"
    BY <1>0, <2>1, <2>2
  <2> HIDE DEF t
  <2>4. TokensTile' /\ tokens' \in Seq([type : Types, from : Ends, to : Ends])
    BY <2>1, <2>3, AppendTiles
  <2>5. Ends' = Ends
    BY <2>1 DEF Ends, Size
  <2>6. StaysInText'
    BY <1>0, <2>1, <2>2, <2>4, <2>5 DEF StaysInText
  <2> QED
    BY <2>1, <2>4, <2>6 DEF Lexed
<1>15. CASE UNCHANGED vars
  BY <1>15 DEF Lexed, StaysInText, TokensTile, JoinsLast, Joins, There, Size, Ends, vars
<1> QED
  BY <1>1, <1>2, <1>3, <1>4, <1>5, <1>6, <1>7, <1>8, <1>9, <1>10, <1>11, <1>12, <1>13, <1>14,
     <1>15 DEF Next

-----------------------------------------------------------------------------
LEMMA AlwaysLexed == Spec => []Lexed
  BY InitLexed, NextLexed, PTL DEF Spec

\* The iterator of the lexer never leaves the text, whatever its characters are.
THEOREM LexerStaysInText == Spec => []StaysInText
<1>1. Lexed => StaysInText
  BY DEF Lexed
<1> QED
  BY AlwaysLexed, <1>1, PTL

\* No character is skipped and none is in two tokens, but for the last one behind a
\* comment that is not closed (nextTokenImpl, Lexer.cpp:57-329).
THEOREM TokensAlwaysTile == Spec => []TokensTile
<1>1. Lexed => TokensTile
  BY DEF Lexed
<1> QED
  BY AlwaysLexed, <1>1, PTL

-----------------------------------------------------------------------------
(* Quoted tokens.                                                           *)

\* The places that the loop of quotedString begins a turn at, or goes over, between the
\* quote at first and the place last: from each one it goes to another one of them.
Onward(S, s, quote) ==
    \/ text[s] \notin {quote, "\\"} /\ s + 1 \in S
    \/ text[s] = "\\" /\ s + 2 \in S
    \/ text[s] = quote /\ text[s + 1] = quote /\ s + 2 \in S

Reached(S, first, last) ==
    /\ S \in SUBSET ((first + 1)..last)
    /\ first + 1 \in S /\ last \in S
    /\ \A s \in S : s < last => Onward(S, s, text[first])

Enclosed(t) ==
    /\ t.from + 1 < t.to /\ t.to - 1 <= Size
    /\ text[t.from] \in QuoteChars /\ text[t.to - 1] = text[t.from]
    /\ ~Is(t.to, {text[t.from]})
    /\ \E S : Reached(S, t.from, t.to - 1)

QuotedTypes == {"StringLiteral", "QuotedIdentifier"}

\* A quoted token is what its quotes enclose, and the one in work is on the way there.
QuotedInv ==
    /\ Lexed
    /\ \A k \in DOMAIN tokens : tokens[k].type \in QuotedTypes => Enclosed(tokens[k])
    /\ mode = "quoted" => \E S : Reached(S, begin, pos)

\* What WellQuoted says by a recursion from the end holds of every place that is reached.
LEMMA ReachedIsWellQuoted ==
  ASSUME NEW C, text \in Seq(C), NEW first \in 1..Len(text), NEW last \in (first + 1)..Len(text),
         NEW S, Reached(S, first, last)
  PROVE  WellQuoted(SubSeq(text, first + 1, last - 1), text[first])
<1> DEFINE chars == SubSeq(text, first + 1, last - 1)
           quote == text[first]
           n == last - first - 1
           Good(g, i) ==
              \/ i = n + 1
              \/ /\ i <= n
                 /\ \/ chars[i] \notin {quote, "\\"} /\ g[i + 1]
                    \/ chars[i] = "\\" /\ g[i + 2]
                    \/ chars[i] = quote /\ i < n /\ chars[i + 1] = quote /\ g[i + 2]
           good == CHOOSE g : g = [i \in 1..(n + 2) |-> Good(g, i)]
<1>1. /\ Len(text) \in Nat /\ first \in Nat /\ last \in Nat /\ n \in Nat
      /\ chars \in Seq(C) /\ Len(chars) = n /\ \A i \in 1..n : chars[i] = text[first + i]
  <2>1. /\ Len(text) \in Nat /\ first \in Nat /\ last \in Nat /\ n \in Nat
        /\ first + 1 \in Int /\ last - 1 \in Int
        /\ \A k \in (first + 1)..(last - 1) : text[k] \in C
    OBVIOUS
  <2>2. /\ chars \in Seq(C)
        /\ Len(chars) = IF first + 1 <= last - 1 THEN (last - 1) - (first + 1) + 1 ELSE 0
        /\ \A k \in 1..((last - 1) - (first + 1) + 1) : chars[k] = text[(first + 1) + k - 1]
    <3>1. \A m, k \in Int : (\A i \in m..k : text[i] \in C) =>
             /\ SubSeq(text, m, k) \in Seq(C)
             /\ Len(SubSeq(text, m, k)) = IF m <= k THEN k - m + 1 ELSE 0
             /\ \A i \in 1..(k - m + 1) : SubSeq(text, m, k)[i] = text[m + i - 1]
      BY SubSeqProperties
    <3> QED
      BY <2>1, <3>1
  <2>3. \A k \in 1..n : k \in 1..((last - 1) - (first + 1) + 1) /\ (first + 1) + k - 1 = first + k
    BY <2>1
  <2>4. Len(chars) = n
    BY <2>1, <2>2
  <2> HIDE DEF chars
  <2> QED
    BY <2>1, <2>2, <2>3, <2>4
<1>2. WellQuoted(chars, quote) = good[1]
  <2>1. WellQuoted(chars, quote) =
          LET m == Len(chars)
              g[i \in 1..(m + 2)] ==
                  \/ i = m + 1
                  \/ /\ i <= m
                     /\ \/ chars[i] \notin {quote, "\\"} /\ g[i + 1]
                        \/ chars[i] = "\\" /\ g[i + 2]
                        \/ chars[i] = quote /\ i < m /\ chars[i + 1] = quote /\ g[i + 2]
          IN  g[1]
    BY DEF WellQuoted
  <2> HIDE DEF chars, quote, n
  <2> QED
    BY <1>1, <2>1 DEF good, Good
<1> HIDE DEF chars, quote
\* There is such a function.
<1>3. \E g : g = [i \in 1..(n + 2) |-> Good(g, i)]
  <2> DEFINE Way(T, i) ==
                \/ chars[i] \notin {quote, "\\"} /\ i + 1 \in T
                \/ chars[i] = "\\" /\ i + 2 \in T
                \/ chars[i] = quote /\ i < n /\ chars[i + 1] = quote /\ i + 2 \in T
             IsWay(T) == \A i \in T : i # n + 1 => i <= n /\ Way(T, i)
             g == [i \in 1..(n + 2) |-> \E T \in SUBSET (1..(n + 1)) : i \in T /\ IsWay(T)]
  <2>1. ASSUME NEW i \in 1..(n + 2) PROVE g[i] <=> Good(g, i)
    <3>1. g[i] <=> \E T \in SUBSET (1..(n + 1)) : i \in T /\ IsWay(T)
      OBVIOUS
    <3>2. i <= n => /\ i + 1 \in 1..(n + 2) /\ i + 2 \in 1..(n + 2)
                    /\ g[i + 1] <=> \E T \in SUBSET (1..(n + 1)) : i + 1 \in T /\ IsWay(T)
                    /\ g[i + 2] <=> \E T \in SUBSET (1..(n + 1)) : i + 2 \in T /\ IsWay(T)
      <4>1. i <= n => i + 1 \in 1..(n + 2) /\ i + 2 \in 1..(n + 2)
        BY <1>1
      <4>2. \A k \in 1..(n + 2) : g[k] <=> \E T \in SUBSET (1..(n + 1)) : k \in T /\ IsWay(T)
        BY Zenon
      <4> HIDE DEF g, IsWay
      <4> QED
        BY <4>1, <4>2
    <3> HIDE DEF g
    <3>3. ASSUME g[i] PROVE Good(g, i)
      <4>1. PICK T \in SUBSET (1..(n + 1)) : i \in T /\ IsWay(T)
        BY <3>1, <3>3
      <4>2. CASE i = n + 1
        BY <4>2
      <4>3. CASE i # n + 1
        <5>1. i <= n /\ Way(T, i)
          BY <4>1, <4>3
        <5>2. i + 1 \in T => g[i + 1]
          BY <3>2, <4>1, <5>1
        <5>3. i + 2 \in T => g[i + 2]
          BY <3>2, <4>1, <5>1
        <5> QED
          BY <5>1, <5>2, <5>3
      <4> QED
        BY <4>2, <4>3
    <3>4. ASSUME Good(g, i) PROVE g[i]
      <4>1. CASE i = n + 1
        <5>1. {n + 1} \in SUBSET (1..(n + 1)) /\ i \in {n + 1} /\ IsWay({n + 1})
          BY <1>1, <4>1
        <5> QED
          BY <3>1, <5>1
      <4>2. ASSUME i <= n, NEW k \in {i + 1, i + 2}, g[k], \A T : k \in T => Way(T, i)
            PROVE  g[i]
        <5>1. PICK T \in SUBSET (1..(n + 1)) : k \in T /\ IsWay(T)
          BY <3>2, <4>2
        <5> DEFINE U == T \union {i}
        <5>2. U \in SUBSET (1..(n + 1)) /\ i \in U
          BY <1>1, <4>2
        <5>3. ASSUME NEW j \in U, j # n + 1 PROVE j <= n /\ Way(U, j)
          <6>1. CASE j \in T
            BY <5>1, <5>3, <6>1
          <6>2. CASE j = i
            BY <4>2, <5>1, <6>2
          <6> QED
            BY <6>1, <6>2
        <5> QED
          BY <3>1, <5>2, <5>3
      <4>3. CASE i # n + 1
        <5>1. i <= n
          BY <3>4, <4>3
        <5>2. CASE chars[i] \notin {quote, "\\"} /\ g[i + 1]
          <6>1. \A T : i + 1 \in T => Way(T, i)
            BY <5>2
          <6> QED
            BY <4>2, <5>1, <5>2, <6>1
        <5>3. CASE chars[i] = "\\" /\ g[i + 2]
          <6>1. \A T : i + 2 \in T => Way(T, i)
            BY <5>3
          <6> QED
            BY <4>2, <5>1, <5>3, <6>1
        <5>4. CASE chars[i] = quote /\ i < n /\ chars[i + 1] = quote /\ g[i + 2]
          <6>1. \A T : i + 2 \in T => Way(T, i)
            BY <5>4
          <6> QED
            BY <4>2, <5>1, <5>4, <6>1
        <5> QED
          BY <3>4, <4>3, <5>2, <5>3, <5>4
      <4> QED
        BY <4>1, <4>3
    <3> QED
      BY <3>3, <3>4
  <2>2. g = [i \in 1..(n + 2) |-> Good(g, i)]
    <3>1. DOMAIN g = 1..(n + 2) /\ \A i \in 1..(n + 2) : g[i] \in BOOLEAN
      OBVIOUS
    <3>2. \A i \in 1..(n + 2) : Good(g, i) \in BOOLEAN
      OBVIOUS
    <3>3. g = [i \in 1..(n + 2) |-> g[i]]
      OBVIOUS
    <3> HIDE DEF g, Good
    <3>4. \A i \in 1..(n + 2) : g[i] = Good(g, i)
      BY <2>1, <3>1, <3>2
    <3> QED
      BY <3>3, <3>4
  <2> QED
    BY <2>2
<1>4. good = [i \in 1..(n + 2) |-> Good(good, i)]
  BY <1>3
<1>5. \A i \in 1..(n + 2) : good[i] <=> Good(good, i)
  BY <1>4
<1> HIDE DEF good
\* The last place that is reached and is not good.
<1>6. ASSUME NEW s \in S, ~good[s - first] PROVE FALSE
  <2> DEFINE D == {d \in 0..n : last - d \in S /\ ~good[(last - d) - first]}
  <2>1. D \in SUBSET Nat
    BY <1>1
  <2>2. last - s \in D
    <3>1. s \in (first + 1)..last
      BY DEF Reached
    <3>2. last - s \in 0..n /\ last - (last - s) = s
      BY <1>1, <3>1
    <3> QED
      BY <1>6, <3>2
  <2>3. PICK d \in D : \A e \in D : d <= e
    BY <2>1, <2>2, LeastOf
  <2> DEFINE r == last - d
             i == r - first
  <2>4. /\ d \in 0..n /\ r \in S /\ ~good[i] /\ r \in Nat /\ i \in Nat
        /\ r = first + i /\ i \in 1..(n + 1) /\ d = (n + 1) - i
    BY <1>1, <2>3
  <2>5. ASSUME NEW k \in {1, 2}, r + k \in S PROVE i + k \in 1..(n + 1) /\ good[i + k]
    <3>1. r + k \in (first + 1)..last
      BY <2>5 DEF Reached
    <3>2. d - k \in 0..n /\ last - (d - k) = r + k /\ (r + k) - first = i + k /\ ~(d <= d - k)
          /\ i + k \in 1..(n + 1)
      BY <1>1, <2>4, <3>1
    <3>3. d - k \notin D
      BY <2>3, <3>2
    <3> QED
      BY <2>5, <3>2, <3>3
  <2>6. ~Good(good, i)
    <3>1. i \in 1..(n + 2)
      BY <1>1, <2>4
    <3> QED
      BY <1>5, <2>4, <3>1
  <2>7. i <= n /\ r < last
    BY <1>1, <2>4, <2>6
  <2>8. Onward(S, r, text[first])
    BY <2>4, <2>7 DEF Reached
  <2>9. chars[i] = text[r] /\ (i < n => chars[i + 1] = text[r + 1])
    BY <1>1, <2>4, <2>7
  <2> HIDE DEF r, i, D
  <2>10. CASE text[r] \notin {quote, "\\"} /\ r + 1 \in S
    BY <2>5, <2>6, <2>7, <2>9, <2>10
  <2>11. CASE text[r] = "\\" /\ r + 2 \in S
    BY <2>5, <2>6, <2>7, <2>9, <2>11
  <2>12. CASE text[r] = quote /\ text[r + 1] = quote /\ r + 2 \in S
    <3>1. good[i + 2] /\ i + 2 \in 1..(n + 1) /\ i \in Nat
      BY <2>4, <2>5, <2>12
    <3>2. i < n
      BY <1>1, <3>1
    <3> QED
      BY <2>6, <2>7, <2>9, <2>12, <3>1, <3>2
  <2> QED
    BY <2>8, <2>10, <2>11, <2>12 DEF Onward, quote
<1>7. first + 1 \in S /\ (first + 1) - first = 1
  BY <1>1 DEF Reached
<1>8. good[1]
  BY <1>6, <1>7
<1> QED
  BY <1>2, <1>8 DEF chars, quote

LEMMA CutBehind ==
  ASSUME NEW C, NEW s \in Seq(C), NEW a \in Nat, NEW n \in Nat, a <= n, n <= Len(s)
  PROVE  /\ SubSeq(s, a + 1, n) \in Seq(C)
         /\ Len(SubSeq(s, a + 1, n)) = n - a
         /\ DOMAIN SubSeq(s, a + 1, n) = 1..(n - a)
         /\ \A i \in 1..(n - a) : SubSeq(s, a + 1, n)[i] = s[a + i]
<1>1. a + 1 \in Int /\ n \in Int /\ Len(s) \in Nat /\ \A i \in (a + 1)..n : s[i] \in C
  OBVIOUS
<1>2. /\ SubSeq(s, a + 1, n) \in Seq(C)
      /\ Len(SubSeq(s, a + 1, n)) = IF a + 1 <= n THEN n - (a + 1) + 1 ELSE 0
      /\ \A i \in 1..(n - (a + 1) + 1) : SubSeq(s, a + 1, n)[i] = s[(a + 1) + i - 1]
  BY <1>1, SubSeqProperties
<1>3. /\ (IF a + 1 <= n THEN n - (a + 1) + 1 ELSE 0) = n - a /\ n - (a + 1) + 1 = n - a
      /\ \A i \in 1..(n - a) : (a + 1) + i - 1 = a + i
  OBVIOUS
<1> QED
  BY <1>2, <1>3

LEMMA Prefixed ==
  ASSUME NEW C, NEW s \in Seq(C), NEW u \in Seq(C), Len(s) <= Len(u),
         \A i \in 1..Len(s) : s[i] = u[i]
  PROVE  IsPrefix(s, u)
<1>1. Len(s) \in Nat /\ Len(u) \in Nat
  OBVIOUS
<1>2. /\ SubSeq(s, 0 + 1, Len(s)) \in Seq(C) /\ DOMAIN SubSeq(s, 0 + 1, Len(s)) = 1..(Len(s) - 0)
      /\ \A i \in 1..(Len(s) - 0) : SubSeq(s, 0 + 1, Len(s))[i] = s[0 + i]
      /\ SubSeq(u, 0 + 1, Len(s)) \in Seq(C) /\ DOMAIN SubSeq(u, 0 + 1, Len(s)) = 1..(Len(s) - 0)
      /\ \A i \in 1..(Len(s) - 0) : SubSeq(u, 0 + 1, Len(s))[i] = u[0 + i]
  BY <1>1, CutBehind
<1>3. 0 + 1 = 1 /\ Len(s) - 0 = Len(s) /\ \A i \in 1..Len(s) : 0 + i = i
  BY <1>1
<1>4. SubSeq(s, 1, Len(s)) = SubSeq(u, 1, Len(s))
  BY <1>1, <1>2, <1>3
<1> QED
  BY <1>4 DEF IsPrefix

\* What the parser takes ends at the first quote of the kind of the token.
LEMMA ValueOfQuoted ==
  ASSUME NEW C, text \in Seq(C), NEW t, NEW a \in 1..Len(text), NEW z \in (a + 1)..Len(text),
         t.from = a, text[z] = text[a]
  PROVE  LET inside == SubSeq(text, a + 1, z - 1)
             value == QuotedValue(t)
         IN  /\ IsPrefix(value, inside)
             /\ value = inside \/ inside[Len(value) + 1] = text[a]
<1> DEFINE inside == SubSeq(text, a + 1, z - 1)
           quotes == {i \in (a + 1)..Size : text[i] = text[a]}
           first == CHOOSE i \in quotes : \A k \in quotes : i <= k
<1>1. a \in Nat /\ z \in Nat /\ a >= 1 /\ a < z /\ z <= Len(text) /\ Len(text) \in Nat
  OBVIOUS
<1>2. QuotedValue(t) = SubSeq(text, a + 1, first - 1)
  BY DEF QuotedValue
<1>3. z \in quotes /\ quotes \in SUBSET Nat
  BY <1>1 DEF Size
<1>4. first \in quotes /\ \A k \in quotes : first <= k
  <2>1. \E i \in quotes : \A k \in quotes : i <= k
    BY <1>3, LeastOf
  <2> QED
    BY <2>1
<1> HIDE DEF first
<1>5. first \in (a + 1)..z /\ text[first] = text[a]
  BY <1>1, <1>3, <1>4 DEF Size
<1> HIDE DEF quotes
<1> DEFINE value == SubSeq(text, a + 1, first - 1)
<1>6. first - 1 \in Nat /\ a <= first - 1 /\ first - 1 <= z - 1 /\ z - 1 \in Nat /\ z - 1 <= Len(text)
  BY <1>1, <1>5
<1>7. /\ value \in Seq(C) /\ Len(value) = (first - 1) - a
      /\ \A i \in 1..((first - 1) - a) : value[i] = text[a + i]
  BY <1>1, <1>6, CutBehind
<1>8. /\ inside \in Seq(C) /\ Len(inside) = (z - 1) - a
      /\ \A i \in 1..((z - 1) - a) : inside[i] = text[a + i]
  BY <1>1, <1>6, CutBehind
<1>9. first = z => value = inside
  OBVIOUS
<1> HIDE DEF value, inside
<1>10. Len(value) <= Len(inside) /\ \A i \in 1..Len(value) : value[i] = inside[i]
  <2>1. Len(value) \in Nat /\ Len(value) <= Len(inside)
    BY <1>1, <1>6, <1>7, <1>8
  <2>2. ASSUME NEW i \in 1..Len(value) PROVE value[i] = inside[i]
    <3>1. i \in 1..((first - 1) - a) /\ i \in 1..((z - 1) - a)
      BY <1>1, <1>6, <1>7
    <3> QED
      BY <1>7, <1>8, <3>1
  <2> QED
    BY <2>1, <2>2
<1>11. IsPrefix(value, inside)
  BY <1>7, <1>8, <1>10, Prefixed
<1>12. first # z => inside[Len(value) + 1] = text[a]
  <2> SUFFICES ASSUME first # z PROVE inside[Len(value) + 1] = text[a]
    OBVIOUS
  <2>1. Len(value) + 1 \in 1..((z - 1) - a) /\ a + (Len(value) + 1) = first
    BY <1>1, <1>5, <1>7
  <2> QED
    BY <1>5, <1>8, <2>1
<1> QED
  BY <1>2, <1>9, <1>11, <1>12 DEF value, inside

LEMMA EnclosedAsWritten ==
  ASSUME QuotedInv
  PROVE  QuotedAsWritten
<1> SUFFICES ASSUME NEW k \in DOMAIN tokens, tokens[k].type \in {"StringLiteral", "QuotedIdentifier"}
             PROVE  LET first == tokens[k].from
                        last == tokens[k].to - 1
                    IN  /\ first < last
                        /\ text[first] = text[last]
                        /\ WellQuoted(SubSeq(text, first + 1, last - 1), text[first])
                        /\ ~Is(last + 1, {text[first]})
                        /\ LET inside == SubSeq(text, first + 1, last - 1)
                               value == QuotedValue(tokens[k])
                           IN  /\ IsPrefix(value, inside)
                               /\ value = inside \/ inside[Len(value) + 1] = text[first]
  BY DEF QuotedAsWritten
<1> DEFINE t == tokens[k]
<1>1. text \in Seq(Chars) /\ t \in [type : Types, from : Ends, to : Ends] /\ Enclosed(t)
  <2>1. tokens \in Seq([type : Types, from : Ends, to : Ends]) /\ text \in Seq(Chars)
    BY DEF QuotedInv, Lexed, StaysInText
  <2>2. Enclosed(tokens[k])
    BY DEF QuotedInv, QuotedTypes
  <2>3. tokens[k] \in [type : Types, from : Ends, to : Ends]
    <3> DEFINE Token == [type : Types, from : Ends, to : Ends]
    <3>1. tokens \in Seq(Token)
      BY <2>1
    <3> HIDE DEF Token
    <3>2. tokens[k] \in Token
      BY <3>1
    <3> QED
      BY <3>2 DEF Token
  <2> QED
    BY <2>1, <2>2, <2>3
<1>2. PICK S : Reached(S, t.from, t.to - 1)
  BY <1>1 DEF Enclosed
<1> HIDE DEF t
<1>3. /\ t.from \in Nat /\ t.from >= 1 /\ t.to \in Nat /\ Len(text) \in Nat
      /\ t.from + 1 < t.to /\ t.to - 1 <= Len(text) /\ text[t.to - 1] = text[t.from]
      /\ ~Is(t.to, {text[t.from]})
  BY <1>1 DEF Enclosed, Ends, Size
<1>4. /\ t.from \in 1..Len(text) /\ t.to - 1 \in (t.from + 1)..Len(text)
      /\ (t.to - 1) + 1 = t.to /\ (t.to - 1) - 1 = t.to - 2
  BY <1>3
<1>5. WellQuoted(SubSeq(text, t.from + 1, (t.to - 1) - 1), text[t.from])
  BY <1>1, <1>2, <1>4, ReachedIsWellQuoted
<1>6. LET inside == SubSeq(text, t.from + 1, (t.to - 1) - 1)
          value == QuotedValue(t)
      IN  /\ IsPrefix(value, inside)
          /\ value = inside \/ inside[Len(value) + 1] = text[t.from]
  BY <1>1, <1>3, <1>4, ValueOfQuoted
<1>7. t.from < t.to - 1
  BY <1>3
<1> QED
  BY <1>3, <1>4, <1>5, <1>6, <1>7 DEF t

-----------------------------------------------------------------------------
\* A token of another kind joins, or one in quotes.
LEMMA TokenJoins ==
  ASSUME QuotedInv, text' = text, NEW t, tokens' = Append(tokens, t), Lexed',
         t.type \in QuotedTypes => Enclosed(t), mode' # "quoted"
  PROVE  QuotedInv'
<1>1. tokens \in Seq([type : Types, from : Ends, to : Ends]) /\ Len(tokens) \in Nat
  BY DEF QuotedInv, Lexed, StaysInText
<1>2. ASSUME NEW k \in DOMAIN tokens', tokens'[k].type \in QuotedTypes
      PROVE  Enclosed(tokens'[k])
  <2>1. CASE k \in DOMAIN tokens
    <3>1. tokens'[k] = tokens[k]
      BY <1>1, <2>1
    <3> QED
      BY <1>2, <2>1, <3>1 DEF QuotedInv
  <2>2. CASE k \notin DOMAIN tokens
    <3>1. tokens'[k] = t
      BY <1>1, <1>2, <2>2
    <3> QED
      BY <1>2, <3>1
  <2> QED
    BY <2>1, <2>2
<1>3. ASSUME NEW u PROVE Enclosed(u)' <=> Enclosed(u)
  BY DEF Enclosed, Reached, Onward, Is, Size
<1>4. (\A k \in DOMAIN tokens : tokens[k].type \in QuotedTypes => Enclosed(tokens[k]))'
  <2> SUFFICES ASSUME NEW k \in DOMAIN tokens', tokens'[k].type \in QuotedTypes
               PROVE  Enclosed(tokens[k])'
    OBVIOUS
  <2>1. PICK u : u = tokens'[k]
    OBVIOUS
  <2>2. Enclosed(u)'
    BY <1>2, <1>3, <2>1
  <2>3. Enclosed(tokens[k])' <=> Enclosed(u)'
    BY <2>1 DEF Enclosed
  <2> QED
    BY <2>2, <2>3
<1> QED
  BY <1>4 DEF QuotedInv

LEMMA OtherTokenJoins ==
  ASSUME QuotedInv, Lexed', NEW type, type \notin QuotedTypes, NEW to, NEW next,
         EmitAndGoTo(type, to, next)
  PROVE  QuotedInv'
<1> DEFINE final == IF to - 1 > MaxQuerySize THEN "ErrorMaxQuerySizeExceeded" ELSE type
           t == [type |-> final, from |-> begin, to |-> to]
<1>1. text' = text /\ tokens' = Append(tokens, t) /\ mode' = "start"
  BY DEF EmitAndGoTo
<1>2. t.type \notin QuotedTypes
  BY DEF QuotedTypes
<1> HIDE DEF t
<1> QED
  BY <1>1, <1>2, TokenJoins

\* From the place that the lexer has come to, up to the next quote or backslash.
LEMMA ReachedFarther ==
  ASSUME QuotedInv, NEW j \in Ends, QuotedTo(j), j <= Size
  PROVE  /\ \E S : Reached(S, begin, j)
         /\ text[j] \in {Quote[1], "\\"} /\ Quote[1] = text[begin]
         /\ begin \in 1..Size /\ j > begin /\ begin \in Nat /\ j \in Nat /\ Size \in Nat
<1>1. /\ mode = "quoted" /\ pos \in Nat /\ begin \in Nat /\ begin >= 1 /\ begin <= Size
      /\ pos > begin /\ text[begin] \in QuoteChars /\ Size \in Nat /\ j \in Nat
  BY SizeType DEF QuotedInv, Lexed, StaysInText, QuotedTo
<1>2. Quote[1] = text[begin]
  <2>1. \E q \in Quotes : q[1] = text[begin]
    BY <1>1 DEF QuoteChars
  <2> QED
    BY <2>1 DEF Quote
<1>3. /\ pos <= j /\ \A k \in pos..(j - 1) : text[k] \notin {Quote[1], "\\"}
      /\ text[j] \in {Quote[1], "\\"}
  BY DEF QuotedTo, Until
<1>4. PICK S : Reached(S, begin, pos)
  BY <1>1 DEF QuotedInv
<1> DEFINE U == S \union (pos..j)
<1>5. U \in SUBSET ((begin + 1)..j) /\ begin + 1 \in U /\ j \in U
  BY <1>1, <1>3, <1>4 DEF Reached
<1>6. ASSUME NEW s \in U, s < j PROVE Onward(U, s, text[begin])
  <2>1. CASE s \in S /\ s < pos
    BY <1>4, <2>1 DEF Reached, Onward
  <2>2. CASE ~(s \in S /\ s < pos)
    <3>1. s \in pos..(j - 1)
      BY <1>1, <1>3, <1>4, <1>6, <2>2 DEF Reached
    <3>2. text[s] \notin {text[begin], "\\"} /\ s + 1 \in U
      BY <1>1, <1>2, <1>3, <3>1
    <3> QED
      BY <3>2 DEF Onward
  <2> QED
    BY <2>1, <2>2
<1>7. Reached(U, begin, j)
  BY <1>5, <1>6 DEF Reached
<1> QED
  BY <1>1, <1>2, <1>3, <1>7

LEMMA QuotedInit == Init => QuotedInv
  BY InitLexed DEF Init, QuotedInv

LEMMA QuotedStep == QuotedInv /\ [Next]_vars => QuotedInv'
<1> SUFFICES ASSUME QuotedInv, [Next]_vars PROVE QuotedInv'
  OBVIOUS
<1>0. Lexed' /\ Lexed
  BY NextLexed DEF QuotedInv
<1>1. CASE Whitespace \/ WideWhitespace \/ LineCommentToken \/ Word \/ Unknown
  <2>1. \E type \in {"Whitespace", "Comment", "BareWord", "Error"} : \E to : Emit(type, to)
    BY <1>1 DEF Whitespace, WideWhitespace, LineCommentToken, Word, Unknown
  <2> QED
    BY <1>0, <2>1, OtherTokenJoins DEF Emit, QuotedTypes
<1>2. CASE Number \/ Dot
  <2>1. \E type \in {"ErrorWrongNumber", "Number", "Dot"} : \E to : Emit(type, to)
    <3>1. CASE Number
      BY <3>1 DEF Number
    <3>2. CASE Dot
      BY <3>2 DEF Dot
    <3> QED
      BY <1>2, <3>1, <3>2
  <2> QED
    BY <1>0, <2>1, OtherTokenJoins DEF Emit, QuotedTypes
<1>3. CASE BlockCommentToken
  <2>1. \E type \in {"Comment", "ErrorMultilineCommentIsNotClosed"} :
           \E to, next : EmitAndGoTo(type, to, next)
    BY <1>3 DEF BlockCommentToken, Emit
  <2> QED
    BY <1>0, <2>1, OtherTokenJoins DEF QuotedTypes
<1>4. CASE Mark
  <2>1. PICK m \in Marks : Emit(m[2], pos + Len(m[1]))
    BY <1>4 DEF Mark
  <2>2. m[2] \notin QuotedTypes
    <3>1. ASSUME NEW x \in Single PROVE x[2] \notin QuotedTypes
      <4>1. \E a, b : x = <<a, b>> /\ b # "StringLiteral" /\ b # "QuotedIdentifier"
        BY ZenonT(60) DEF Single
      <4> QED
        BY <4>1 DEF QuotedTypes
    <3>2. ASSUME NEW x \in Double PROVE x[3] \notin QuotedTypes
      <4>1. \E a, b, c : x = <<a, b, c>> /\ c # "StringLiteral" /\ c # "QuotedIdentifier"
        BY ZenonT(60) DEF Double
      <4> QED
        BY <4>1 DEF QuotedTypes
    <3> QED
      BY <3>1, <3>2 DEF Marks
  <2> QED
    BY <1>0, <2>1, <2>2, OtherTokenJoins DEF Emit
<1>5. CASE QuoteNotClosed
  <2>1. /\ EmitAndGoTo(Quote[3], Size + 1, Size + 1)
        /\ mode = "quoted"
    BY <1>5 DEF QuoteNotClosed, QuotedTo
  <2>2. text[begin] \in QuoteChars
    BY <1>0, <2>1 DEF Lexed
  <2>3. Quote \in Quotes
    BY <2>2 DEF Quote, QuoteChars
  <2>4. Quote[3] \notin QuotedTypes
    <3>1. \A a, b, c : <<a, b, c>>[3] = c
      OBVIOUS
    <3>2. CASE Quote = <<"'", "StringLiteral", "ErrorSingleQuoteIsNotClosed">>
      <4>1. Quote[3] = "ErrorSingleQuoteIsNotClosed"
        BY <3>1, <3>2, Zenon
      <4> QED
        BY <4>1 DEF QuotedTypes
    <3>3. CASE Quote = <<"\"", "QuotedIdentifier", "ErrorDoubleQuoteIsNotClosed">>
      <4>1. Quote[3] = "ErrorDoubleQuoteIsNotClosed"
        BY <3>1, <3>3, Zenon
      <4> QED
        BY <4>1 DEF QuotedTypes
    <3>4. CASE Quote = <<"backquote", "QuotedIdentifier", "ErrorBackQuoteIsNotClosed">>
      <4>1. Quote[3] = "ErrorBackQuoteIsNotClosed"
        BY <3>1, <3>4, Zenon
      <4> QED
        BY <4>1 DEF QuotedTypes
    <3> QED
      BY <2>3, <3>2, <3>3, <3>4, Zenon DEF Quotes
  <2> QED
    BY <1>0, <2>1, <2>4, OtherTokenJoins
<1>6. CASE OpenQuote
  <2>1. /\ pos' = pos + 1 /\ mode' = "quoted" /\ UNCHANGED <<text, begin, prev, tokens>>
        /\ pos = begin /\ pos \in Nat
    BY <1>0, <1>6, SizeType DEF OpenQuote, At, Lexed, StaysInText
  <2>2. Reached({begin + 1}, begin, begin + 1)
    BY <2>1 DEF Reached
  <2>3. Reached({begin + 1}, begin, pos)'
    BY <2>1, <2>2 DEF Reached, Onward
  <2>4. (\A k \in DOMAIN tokens : tokens[k].type \in QuotedTypes => Enclosed(tokens[k]))'
    BY <2>1 DEF QuotedInv, Enclosed, Reached, Onward, Is, Size
  <2> QED
    BY <1>0, <2>3, <2>4 DEF QuotedInv
<1>7. CASE QuotedPair
  <2>1. PICK j \in Ends : /\ QuotedTo(j) /\ j < Size
                          /\ text[j] = "\\" \/ text[j + 1] = Quote[1]
                          /\ pos' = j + 2
                          /\ UNCHANGED <<text, begin, mode, prev, tokens>>
    BY <1>7 DEF QuotedPair
  <2>2. j <= Size
    BY <1>0, <2>1, SizeType DEF Lexed
  <2>3. /\ \E S : Reached(S, begin, j)
        /\ text[j] \in {Quote[1], "\\"} /\ Quote[1] = text[begin]
        /\ begin \in Nat /\ j \in Nat /\ j > begin
    BY <2>1, <2>2, ReachedFarther
  <2>4. PICK S : Reached(S, begin, j)
    BY <2>3
  <2> DEFINE U == S \union {j + 2}
  <2>5. U \in SUBSET ((begin + 1)..(j + 2)) /\ begin + 1 \in U /\ j + 2 \in U
    BY <2>3, <2>4 DEF Reached
  <2>6. ASSUME NEW s \in U, s < j + 2 PROVE Onward(U, s, text[begin])
    <3>1. s \in S /\ s \in Nat /\ (s < j \/ s = j)
      BY <2>3, <2>4, <2>6 DEF Reached
    <3>2. CASE s < j
      BY <2>4, <3>1, <3>2 DEF Reached, Onward
    <3>3. CASE s = j
      BY <2>1, <2>3, <3>3 DEF Onward
    <3> QED
      BY <3>1, <3>2, <3>3
  <2>7. Reached(U, begin, j + 2)
    BY <2>5, <2>6 DEF Reached
  <2> HIDE DEF U
  <2>8. Reached(U, begin, pos)'
    BY <2>1, <2>7 DEF Reached, Onward
  <2>9. (\A k \in DOMAIN tokens : tokens[k].type \in QuotedTypes => Enclosed(tokens[k]))'
    BY <2>1 DEF QuotedInv, Enclosed, Reached, Onward, Is, Size
  <2> QED
    BY <1>0, <2>8, <2>9 DEF QuotedInv
<1>8. CASE CloseQuote
  <2>1. PICK j \in Ends : /\ QuotedTo(j) /\ Is(j, {Quote[1]}) /\ ~Is(j + 1, {Quote[1]})
                          /\ Emit(Quote[2], j + 1)
    BY <1>8 DEF CloseQuote
  <2>2. j <= Size /\ text[j] = Quote[1]
    BY <2>1 DEF Is
  <2>3. /\ \E S : Reached(S, begin, j) /\ Quote[1] = text[begin]
        /\ begin \in Nat /\ j \in Nat /\ j > begin
    BY <2>1, <2>2, ReachedFarther
  <2> DEFINE final == IF (j + 1) - 1 > MaxQuerySize THEN "ErrorMaxQuerySizeExceeded" ELSE Quote[2]
             t == [type |-> final, from |-> begin, to |-> j + 1]
  <2>4. text' = text /\ tokens' = Append(tokens, t) /\ mode' = "start"
    BY <2>1 DEF Emit, EmitAndGoTo
  <2>5. t.from = begin /\ t.to = j + 1 /\ (j + 1) - 1 = j
    BY <2>3
  <2>6. text[begin] \in QuoteChars
    BY <1>0, <2>1 DEF Lexed, QuotedTo
  <2> HIDE DEF t
  <2>7. Enclosed(t)
    BY <2>1, <2>2, <2>3, <2>5, <2>6 DEF Enclosed
  <2> QED
    BY <1>0, <2>4, <2>7, TokenJoins
<1>9. CASE EndOfStream
  <2> DEFINE t == [type |-> "EndOfStream", from |-> Size + 1, to |-> Size + 1]
  <2>1. tokens' = Append(tokens, t) /\ text' = text /\ mode' = "done"
    BY <1>9 DEF EndOfStream
  <2>2. t.type \notin QuotedTypes
    BY DEF QuotedTypes
  <2> HIDE DEF t
  <2> QED
    BY <1>0, <2>1, <2>2, TokenJoins
<1>10. CASE UNCHANGED vars
  BY <1>0, <1>10 DEF vars, QuotedInv, Enclosed, Reached, Onward, Is, Size
<1> QED
  BY <1>1, <1>2, <1>3, <1>4, <1>5, <1>6, <1>7, <1>8, <1>9, <1>10 DEF Next

\* A token in quotes ends at a quote that is neither doubled nor behind a backslash, and
\* all quotes inside are (quotedString, Lexer.cpp:8-40); what the parser takes from it is
\* its beginning up to the first of these, or all of it.
THEOREM QuotesEndTokens == Spec => []QuotedAsWritten
<1>1. QuotedInv => QuotedAsWritten
  BY EnclosedAsWritten
<1> QED
  BY QuotedInit, QuotedStep, <1>1, PTL DEF Spec

-----------------------------------------------------------------------------
(* The node of a SELECT.                                                    *)

\* Every child is the clause of exactly one expression.
WellFormed(q, Trees) ==
    /\ q \in [children : Seq(Trees), positions : [Expressions -> Nat], limit_with_ties : BOOLEAN]
    /\ \A e \in Expressions : q.positions[e] <= Len(q.children)
    /\ \A e, f \in Expressions : q.positions[e] = q.positions[f] /\ q.positions[e] # 0 => e = f
    /\ \A i \in 1..Len(q.children) : \E e \in Expressions : q.positions[e] = i

\* The clauses behind the one that is taken out move up by one.
LEMMA Removed ==
  ASSUME NEW S, NEW s \in Seq(S), NEW i \in 1..Len(s)
  PROVE  /\ RemoveAt(s, i) \in Seq(S)
         /\ Len(RemoveAt(s, i)) = Len(s) - 1
         /\ \A k \in 1..(Len(s) - 1) :
               RemoveAt(s, i)[k] = IF k < i THEN s[k] ELSE s[k + 1]
<1> DEFINE front == SubSeq(s, 1, i - 1)
           back == SubSeq(s, i + 1, Len(s))
<1>1. Len(s) \in Nat /\ \A k \in 1..Len(s) : s[k] \in S
  OBVIOUS
<1>2. /\ front \in Seq(S)
      /\ Len(front) = i - 1
      /\ \A k \in 1..(i - 1) : front[k] = s[k]
  BY <1>1, SubSeqProperties
<1>3. /\ back \in Seq(S)
      /\ Len(back) = Len(s) - i
      /\ \A k \in 1..(Len(s) - i) : back[k] = s[i + k]
  <2>1. /\ SubSeq(s, i + 1, Len(s)) \in Seq(S)
        /\ Len(SubSeq(s, i + 1, Len(s))) = IF i + 1 <= Len(s) THEN Len(s) - (i + 1) + 1 ELSE 0
        /\ \A k \in 1..(Len(s) - (i + 1) + 1) : SubSeq(s, i + 1, Len(s))[k] = s[(i + 1) + k - 1]
    <3>1. i + 1 \in Int /\ Len(s) \in Int /\ \A k \in (i + 1)..Len(s) : s[k] \in S
      BY <1>1
    <3> QED
      BY <3>1, SubSeqProperties
  <2>2. \A k \in 1..(Len(s) - i) : (i + 1) + k - 1 = i + k
    BY <1>1
  <2> QED
    BY <1>1, <2>1, <2>2
<1>4. RemoveAt(s, i) = front \o back
  BY DEF RemoveAt
<1> HIDE DEF front, back
<1>5. /\ front \o back \in Seq(S)
      /\ Len(front \o back) = Len(front) + Len(back)
      /\ \A k \in 1..(Len(front) + Len(back)) :
            (front \o back)[k] = IF k <= Len(front) THEN front[k] ELSE back[k - Len(front)]
  BY <1>2, <1>3, ConcatProperties
<1>6. \A k \in 1..(Len(s) - 1) : (front \o back)[k] = IF k < i THEN s[k] ELSE s[k + 1]
  <2> TAKE k \in 1..(Len(s) - 1)
  <2>1. CASE k < i
    BY <1>1, <1>2, <1>3, <1>5, <2>1
  <2>2. CASE ~(k < i)
    <3>1. k - (i - 1) \in 1..(Len(s) - i) /\ i + (k - (i - 1)) = k + 1
      BY <1>1, <2>2
    <3>2. (front \o back)[k] = back[k - (i - 1)]
      BY <1>1, <1>2, <1>3, <1>5, <2>2
    <3>3. back[k - (i - 1)] = s[i + (k - (i - 1))]
      BY <1>3, <3>1
    <3> QED
      BY <2>2, <3>1, <3>2, <3>3
  <2> QED
    BY <2>1, <2>2
<1> QED
  BY <1>1, <1>2, <1>3, <1>4, <1>5, <1>6

\* The node is made without a clause.
LEMMA EmptyWellFormed ==
  ASSUME NEW Trees
  PROVE  WellFormed(ASTSelectQuery, Trees)
  BY DEF WellFormed, ASTSelectQuery

\* A clause that is set takes the place that it has, or a new one behind the others.
LEMMA Placed ==
  ASSUME NEW Trees, NEW q, WellFormed(q, Trees), NEW e \in Expressions, NEW ast \in Trees
  PROVE  /\ WellFormed(Put(q, e, ast), Trees)
         /\ \A x \in Expressions :
               GetExpression(Put(q, e, ast), x) = IF x = e THEN ast ELSE GetExpression(q, x)
<1> DEFINE n == Len(q.children)
<1>0. /\ q.children \in Seq(Trees) /\ n \in Nat
      /\ q.positions \in [Expressions -> Nat]
      /\ q.limit_with_ties \in BOOLEAN
      /\ q = [children |-> q.children, positions |-> q.positions,
              limit_with_ties |-> q.limit_with_ties]
  BY DEF WellFormed
<1>1. CASE q.positions[e] # 0
  <2>1. q.positions[e] \in 1..n
    BY <1>0, <1>1 DEF WellFormed
  <2> DEFINE r == [q EXCEPT !.children[q.positions[e]] = ast]
  <2>2. Put(q, e, ast) = r
    BY <1>1 DEF Put
  <2>3. r.children = [q.children EXCEPT ![q.positions[e]] = ast] /\ r.positions = q.positions
        /\ r.limit_with_ties = q.limit_with_ties
    BY <1>0
  <2>4. r.children \in Seq(Trees) /\ Len(r.children) = n
    BY <1>0, <2>1, <2>3
  <2>5. r \in [children : Seq(Trees), positions : [Expressions -> Nat], limit_with_ties : BOOLEAN]
    BY <1>0, <2>3, <2>4
  <2>6. WellFormed(r, Trees)
    BY <2>3, <2>4, <2>5 DEF WellFormed
  <2>7. ASSUME NEW x \in Expressions
        PROVE  GetExpression(r, x) = IF x = e THEN ast ELSE GetExpression(q, x)
    <3>1. CASE x = e
      BY <1>0, <1>1, <2>1, <2>3, <3>1 DEF GetExpression
    <3>2. CASE x # e /\ q.positions[x] = 0
      BY <2>3, <3>2 DEF GetExpression
    <3>3. CASE x # e /\ q.positions[x] # 0
      <4>1. q.positions[x] \in 1..n /\ q.positions[x] # q.positions[e]
        BY <1>0, <3>3 DEF WellFormed
      <4> QED
        BY <1>0, <2>3, <3>3, <4>1 DEF GetExpression
    <3> QED
      BY <3>1, <3>2, <3>3
  <2> QED
    BY <2>2, <2>6, <2>7
<1>2. CASE q.positions[e] = 0
  <2> DEFINE r == [q EXCEPT !.children = Append(@, ast), !.positions[e] = n + 1]
  <2>2. Put(q, e, ast) = r
    BY <1>2 DEF Put
  <2>3. /\ r.children = Append(q.children, ast)
        /\ r.positions = [q.positions EXCEPT ![e] = n + 1]
        /\ r.limit_with_ties = q.limit_with_ties
    BY <1>0
  <2>4. /\ r.children \in Seq(Trees)
        /\ Len(r.children) = n + 1
        /\ \A i \in 1..n : r.children[i] = q.children[i]
        /\ r.children[n + 1] = ast
    BY <1>0, <2>3
  <2>5. /\ r.positions \in [Expressions -> Nat]
        /\ r.positions[e] = n + 1
        /\ \A x \in Expressions \ {e} : r.positions[x] = q.positions[x]
    BY <1>0, <2>3
  <2>6. r \in [children : Seq(Trees), positions : [Expressions -> Nat], limit_with_ties : BOOLEAN]
    BY <1>0, <2>4, <2>5
  <2>7. \A x \in Expressions : q.positions[x] \in 0..n
    BY <1>0 DEF WellFormed
  <2>8. WellFormed(r, Trees)
    <3>1. \A x \in Expressions : r.positions[x] <= Len(r.children)
      BY <1>0, <2>4, <2>5, <2>7
    <3>2. \A x, y \in Expressions : r.positions[x] = r.positions[y] /\ r.positions[x] # 0 => x = y
      <4> SUFFICES ASSUME NEW x \in Expressions, NEW y \in Expressions,
                          r.positions[x] = r.positions[y], r.positions[x] # 0
                   PROVE  x = y
        OBVIOUS
      <4>1. CASE x = e \/ y = e
        BY <1>0, <2>5, <2>7, <4>1
      <4>2. CASE x # e /\ y # e
        BY <2>5, <4>2 DEF WellFormed
      <4> QED
        BY <4>1, <4>2
    <3>3. ASSUME NEW i \in 1..Len(r.children)
          PROVE  \E x \in Expressions : r.positions[x] = i
      <4>1. CASE i = n + 1
        BY <2>5, <4>1
      <4>2. CASE i # n + 1
        <5>1. i \in 1..n
          BY <1>0, <2>4, <4>2
        <5>2. PICK x \in Expressions : q.positions[x] = i
          BY <5>1 DEF WellFormed
        <5>3. x # e
          BY <1>2, <5>1, <5>2
        <5> QED
          BY <2>5, <5>2, <5>3
      <4> QED
        BY <4>1, <4>2
    <3> QED
      BY <2>6, <3>1, <3>2, <3>3 DEF WellFormed
  <2>9. ASSUME NEW x \in Expressions
        PROVE  GetExpression(r, x) = IF x = e THEN ast ELSE GetExpression(q, x)
    <3>1. CASE x = e
      BY <1>0, <2>4, <2>5, <3>1 DEF GetExpression
    <3>2. CASE x # e /\ q.positions[x] = 0
      BY <2>5, <3>2 DEF GetExpression
    <3>3. CASE x # e /\ q.positions[x] # 0
      <4>1. q.positions[x] \in 1..n
        BY <1>0, <2>7, <3>3
      <4> QED
        BY <2>4, <2>5, <3>3, <4>1 DEF GetExpression
    <3> QED
      BY <3>1, <3>2, <3>3
  <2> QED
    BY <2>2, <2>8, <2>9
<1> QED
  BY <1>1, <1>2

\* A clause that is taken away leaves the others as they were.
LEMMA TakenAway ==
  ASSUME NEW Trees, NEW q, WellFormed(q, Trees), NEW e \in Expressions
  PROVE  /\ WellFormed(Erase(q, e), Trees)
         /\ \A x \in Expressions :
               GetExpression(Erase(q, e), x) = IF x = e THEN Null ELSE GetExpression(q, x)
<1> DEFINE n  == Len(q.children)
           at == q.positions[e]
<1>0. /\ q.children \in Seq(Trees) /\ n \in Nat
      /\ q.positions \in [Expressions -> Nat]
      /\ q.limit_with_ties \in BOOLEAN
      /\ q = [children |-> q.children, positions |-> q.positions,
              limit_with_ties |-> q.limit_with_ties]
  BY DEF WellFormed
<1>1. CASE at = 0
  <2>1. Erase(q, e) = q
    BY <1>1 DEF Erase
  <2> QED
    BY <1>1, <2>1 DEF GetExpression
<1>2. CASE at # 0
  <2>1. at \in 1..n
    BY <1>0, <1>2 DEF WellFormed
  <2> DEFINE kids   == RemoveAt(q.children, at)
             places == [x \in Expressions |->
                           IF x = e THEN 0
                           ELSE IF q.positions[x] > at THEN q.positions[x] - 1
                           ELSE q.positions[x]]
             r == [children |-> kids, positions |-> places, limit_with_ties |-> q.limit_with_ties]
  <2>2. Erase(q, e) = r
    <3>1. Erase(q, e) = [q EXCEPT !.children = kids, !.positions = places]
      BY <1>2 DEF Erase
    <3> HIDE DEF kids, places
    <3> QED
      BY <1>0, <3>1
  <2>3. /\ r.children = RemoveAt(q.children, at)
        /\ r.positions = places
        /\ r = [children |-> r.children, positions |-> r.positions,
                limit_with_ties |-> q.limit_with_ties]
    OBVIOUS
  <2> HIDE DEF r
  <2>4. /\ r.children \in Seq(Trees)
        /\ Len(r.children) = n - 1
        /\ \A k \in 1..(n - 1) :
              r.children[k] = IF k < at THEN q.children[k] ELSE q.children[k + 1]
    BY <1>0, <2>1, <2>3, Removed
  <2>5. \A x \in Expressions : q.positions[x] \in 0..n /\ (x # e => q.positions[x] # at)
    BY <1>0, <1>2 DEF WellFormed
  <2>6. /\ r.positions[e] = 0
        /\ \A x \in Expressions \ {e} :
              r.positions[x] = IF q.positions[x] > at THEN q.positions[x] - 1 ELSE q.positions[x]
    BY <2>3
  <2>7. r.positions \in [Expressions -> Nat]
    BY <1>0, <2>1, <2>3, <2>5
  <2>8. r \in [children : Seq(Trees), positions : [Expressions -> Nat], limit_with_ties : BOOLEAN]
    BY <1>0, <2>3, <2>4, <2>7
  <2>9. WellFormed(r, Trees)
    <3>1. \A x \in Expressions : r.positions[x] <= Len(r.children)
      BY <1>0, <2>1, <2>4, <2>5, <2>6
    <3>2. \A x, y \in Expressions : r.positions[x] = r.positions[y] /\ r.positions[x] # 0 => x = y
      <4> SUFFICES ASSUME NEW x \in Expressions, NEW y \in Expressions,
                          r.positions[x] = r.positions[y], r.positions[x] # 0
                   PROVE  x = y
        OBVIOUS
      <4>1. x # e /\ y # e
        BY <2>6
      <4>2. q.positions[x] = q.positions[y] /\ q.positions[x] # 0
        BY <1>0, <2>1, <2>5, <2>6, <4>1
      <4> QED
        BY <4>2 DEF WellFormed
    <3>3. ASSUME NEW k \in 1..Len(r.children)
          PROVE  \E x \in Expressions : r.positions[x] = k
      <4>1. CASE k < at
        <5>1. k \in 1..n
          BY <1>0, <2>1, <4>1
        <5>2. PICK x \in Expressions : q.positions[x] = k
          BY <5>1 DEF WellFormed
        <5> QED
          BY <1>0, <2>1, <2>6, <4>1, <5>1, <5>2
      <4>2. CASE ~(k < at)
        <5>1. k + 1 \in 1..n /\ k + 1 > at
          BY <1>0, <2>1, <2>4, <4>2
        <5>2. PICK x \in Expressions : q.positions[x] = k + 1
          BY <5>1 DEF WellFormed
        <5>3. x # e
          BY <1>0, <2>1, <5>1, <5>2
        <5> QED
          BY <1>0, <2>1, <2>6, <5>1, <5>2, <5>3
      <4> QED
        BY <4>1, <4>2
    <3> QED
      BY <2>8, <3>1, <3>2, <3>3 DEF WellFormed
  <2>10. ASSUME NEW x \in Expressions
         PROVE  GetExpression(r, x) = IF x = e THEN Null ELSE GetExpression(q, x)
    <3>1. CASE x = e
      BY <2>6, <3>1 DEF GetExpression
    <3>2. CASE x # e /\ q.positions[x] = 0
      <4>1. r.positions[x] = 0
        BY <1>0, <2>1, <2>6, <3>2
      <4> QED
        BY <3>2, <4>1 DEF GetExpression
    <3>3. CASE x # e /\ q.positions[x] # 0 /\ q.positions[x] < at
      <4>1. r.positions[x] = q.positions[x] /\ q.positions[x] \in 1..(n - 1)
        BY <1>0, <2>1, <2>5, <2>6, <3>3
      <4> QED
        BY <2>4, <3>3, <4>1 DEF GetExpression
    <3>4. CASE x # e /\ q.positions[x] > at
      <4>1. /\ r.positions[x] = q.positions[x] - 1
            /\ r.positions[x] \in 1..(n - 1)
            /\ ~(r.positions[x] < at)
            /\ r.positions[x] + 1 = q.positions[x]
            /\ q.positions[x] # 0
        BY <1>0, <2>1, <2>5, <2>6, <3>4
      <4>2. r.children[r.positions[x]] = q.children[q.positions[x]]
        BY <2>4, <4>1
      <4> QED
        BY <1>0, <3>4, <4>1, <4>2 DEF GetExpression
    <3> QED
      BY <1>0, <2>1, <2>5, <3>1, <3>2, <3>3, <3>4
  <2> QED
    BY <2>2, <2>9, <2>10
<1> QED
  BY <1>1, <1>2

\* setExpression and getExpression (ASTSelectQuery.cpp, ASTSelectQuery.h) are a map from the
\* expressions to trees: setting one changes what is read for it and for no other, whether
\* it was there, is new or is taken away, and every child stays the clause of exactly one.
THEOREM ClausesAreAMap ==
  ASSUME NEW Trees, Null \notin Trees, NEW q, WellFormed(q, Trees),
         NEW e \in Expressions, NEW ast \in Trees \union {Null}
  PROVE  /\ WellFormed(SetExpression(q, e, ast), Trees)
         /\ \A x \in Expressions :
               GetExpression(SetExpression(q, e, ast), x)
                   = IF x = e THEN ast ELSE GetExpression(q, x)
<1>1. CASE ast # Null
  <2>1. SetExpression(q, e, ast) = Put(q, e, ast) /\ ast \in Trees
    BY <1>1 DEF SetExpression
  <2> QED
    BY <2>1, Placed
<1>2. CASE ast = Null
  <2>1. SetExpression(q, e, ast) = Erase(q, e)
    BY <1>2 DEF SetExpression
  <2> QED
    BY <1>2, <2>1, TakenAway
<1> QED
  BY <1>1, <1>2
=============================================================================
