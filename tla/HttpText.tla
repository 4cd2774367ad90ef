------------------------------ MODULE HttpText ------------------------------
(***************************************************************************)
(* What src/Libs/httplib.h makes of the texts in a request: percent        *)
(* encoding, the query string, the Range header, the boundary of a         *)
(* multipart type.                                                         *)
(*                                                                         *)
(* A text is a sequence of bytes.  A number above 255 stands for a word     *)
(* that these functions copy and never look into.                           *)
(***************************************************************************)
EXTENDS Integers, Sequences, FiniteSetsExt, SequencesExt

Blank == 32
Quote == 34
Percent == 37
Ampersand == 38
Plus == 43
EqualSign == 61
UnicodeMark == 117

-----------------------------------------------------------------------------
\* is_hex: the value of a digit, -1 for anything else.
is_hex(c) ==
    CASE c \in 48..57  -> c - 48
      [] c \in 65..70  -> c - 55
      [] c \in 97..102 -> c - 87
      [] OTHER         -> -1

\* from_hex_to_i: the number in the cnt digits from i on, -1 if they are not there.
from_hex_to_i(s, i, cnt) ==
    IF \E k \in i..(i + cnt - 1) : k > Len(s) \/ is_hex(s[k]) < 0
    THEN -1
    ELSE FoldLeft(LAMBDA val, c : 16 * val + is_hex(c), 0, SubSeq(s, i, i + cnt - 1))

Continuation(code, shift) == 128 + ((code \div shift) % 64)

to_utf8(code) ==
    CASE code < 128             -> <<code>>
      [] code \in 128..2047     -> <<192 + code \div 64, Continuation(code, 1)>>
      [] code \in 55296..57343  -> <<>> \* half of a surrogate pair
      [] code \in (2048..65535) \ (55296..57343) ->
            <<224 + code \div 4096, Continuation(code, 64), Continuation(code, 1)>>
      [] code \in 65536..1114111 ->
            <<240 + code \div 262144, Continuation(code, 4096),
              Continuation(code, 64), Continuation(code, 1)>>
      [] OTHER -> <<>>

\* The loop of decode_url at the place i: what it appends and how far it goes.
Decoded(s, i, convert_plus_to_space) ==
    LET escape  == s[i] = Percent /\ i < Len(s)
        unicode == escape /\ s[i + 1] = UnicodeMark
        four    == from_hex_to_i(s, i + 2, 4)
        two     == from_hex_to_i(s, i + 1, 2)
    IN  CASE unicode /\ four >= 0            -> [text |-> to_utf8(four), len |-> 6]
          [] escape /\ ~unicode /\ two >= 0  -> [text |-> <<two>>, len |-> 3]
          [] convert_plus_to_space /\ s[i] = Plus -> [text |-> <<Blank>>, len |-> 1]
          [] OTHER                           -> [text |-> <<s[i]>>, len |-> 1]

decode_url(s, convert_plus_to_space) ==
    LET from[i \in 1..(Len(s) + 1)] ==
            IF i > Len(s) THEN <<>>
            ELSE LET d == Decoded(s, i, convert_plus_to_space)
                 IN  d.text \o from[i + d.len]
    IN  from[1]

-----------------------------------------------------------------------------
(* The query string.  A piece of a text is a pair of places, the first and   *)
(* the last one; a piece with nothing in it ends one place before it begins. *)

\* trim: both loops go on up to the ends of the whole text, not of the piece.
trim(s, piece) ==
    <<Min({i \in piece[1]..Len(s) : s[i] # Blank} \union {Len(s) + 1}),
      Max({i \in 1..piece[2] : s[i] # Blank} \union {0})>>

\* split: the trimmed pieces between the places of d; none of an empty text.
split(s, d) ==
    LET cuts == SetToSortSeq({i \in DOMAIN s : s[i] = d}, <)
        ends == <<0>> \o cuts \o <<Len(s) + 1>>
    IN  IF s = <<>> THEN <<>>
        ELSE [k \in 1..(Len(cuts) + 1) |-> trim(s, <<ends[k] + 1, ends[k + 1] - 1>>)]

TextOf(s, piece) == SubSeq(s, piece[1], piece[2])
Parts(s, d) == [k \in DOMAIN split(s, d) |-> TextOf(s, split(s, d)[k])]

\* What trim makes of a piece of nothing but blanks ends before it begins.
TurnedRound(piece) == piece[1] > piece[2] + 1

\* One piece of a query string: the key is the first part that is not empty, the
\* value the last part behind it.
Param(piece) ==
    LET parts == Parts(piece, EqualSign)
        keys  == {k \in DOMAIN parts : parts[k] # <<>>}
        at    == CHOOSE k \in keys : \A j \in keys : k <= j
        key   == IF keys = {} THEN <<>> ELSE parts[at]
        val   == IF keys = {} \/ at = Len(parts) THEN <<>> ELSE Last(parts)
    IN  <<decode_url(key, TRUE), decode_url(val, TRUE)>>

\* The parameters in the order of the text.  In the multimap of the code those with
\* the same key stay in this order.
parse_query_text(s) ==
    LET pieces == Parts(s, Ampersand) IN [k \in DOMAIN pieces |-> Param(pieces[k])]

\* parse_query_text does not return: a key or a value that is turned round makes assign
\* throw length_error, which nobody catches, and the loop of split over a piece that
\* is turned round does not meet its end and runs out of the text.
QueryEndsProcess(s) ==
    \E piece \in Range(split(s, Ampersand)) :
        TurnedRound(piece)
        \/ \E part \in Range(split(TextOf(s, piece), EqualSign)) : TurnedRound(part)

-----------------------------------------------------------------------------
(* The Range header.  A range is a pair of places counted from 0; -1 is a   *)
(* number that is left out.                                                 *)

Backwards(r) == r[1] # -1 /\ r[2] # -1 /\ r[1] > r[2]

\* parse_range_header: what stands before the first range that runs backwards.
parse_range_header(given) ==
    LET wrong == {k \in DOMAIN given : Backwards(given[k])}
    IN  IF wrong = {} THEN given
        ELSE SubSeq(given, 1, (CHOOSE k \in wrong : \A j \in wrong : k <= j) - 1)

\* parse_range_header does not return: stoll throws out_of_range, which nobody catches,
\* at a number above most.  Behind a range that runs backwards nothing is read.
RangesEndProcess(given, most) ==
    \E k \in DOMAIN given : /\ given[k][1] > most \/ given[k][2] > most
                            /\ \A j \in 1..(k - 1) : ~Backwards(given[j])

\* The mistake of taking the last place for the first one behind the range.
get_range_offset_and_length_Short(r, content_length) ==
    LET first == IF r[1] = -1 THEN content_length - r[2] ELSE r[1]
        last  == IF r[1] = -1 \/ r[2] = -1 THEN content_length - 1 ELSE r[2]
    IN  IF r = <<-1, -1>> THEN [offset |-> 0, length |-> content_length]
        ELSE [offset |-> first, length |-> last - first]

get_range_offset_and_length(r, content_length) ==
    LET first == IF r[1] = -1 THEN content_length - r[2] ELSE r[1]
        last  == IF r[1] = -1 \/ r[2] = -1 THEN content_length - 1 ELSE r[2]
    IN  IF r = <<-1, -1>> THEN [offset |-> 0, length |-> content_length]
        ELSE [offset |-> first, length |-> last - first + 1]

\* std::string::substr throws if the offset, a size_t, is behind the end.
InsideBody(r, body) ==
    get_range_offset_and_length(r, Len(body)).offset \in 0..Len(body)

Slice(r, body) ==
    LET o    == get_range_offset_and_length(r, Len(body))
        last == o.offset + o.length
    IN  SubSeq(body, o.offset + 1, IF last < Len(body) THEN last ELSE Len(body))

\* What make_content_range_header_field says of it: first and last place.
ContentRange(r, body) ==
    LET o == get_range_offset_and_length(r, Len(body))
    IN  <<o.offset, o.offset + o.length - 1>>

-----------------------------------------------------------------------------
\* parse_multipart_boundary: the parameter without its quotes; <<>> is refused.
parse_multipart_boundary(param) ==
    IF Len(param) >= 2 /\ param[1] = Quote /\ Last(param) = Quote
    THEN SubSeq(param, 2, Len(param) - 1)
    ELSE param
=============================================================================
