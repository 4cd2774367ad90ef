------------------------------ MODULE TextLines ------------------------------
(* The lines of a text, as std::getline delivers them.                     *)
EXTENDS Places

CONSTANT NL \* the line feed

NewLines(text) == {p \in 1..Len(text) : text[p] = NL}

\* What stands before the first line feed, between two line feeds, and, if it is
\* not empty, after the last one.
LinesOf(text) ==
    LET nl    == Increasing(NewLines(text))
        first == [i \in 1..(Len(nl) + 1) |-> IF i = 1 THEN 1 ELSE nl[i - 1] + 1]
        tail  == SubSeq(text, first[Len(nl) + 1], Len(text))
        lines == [i \in DOMAIN nl |-> SubSeq(text, first[i], nl[i] - 1)]
    IN  IF tail = <<>> THEN lines ELSE Append(lines, tail)
=============================================================================
