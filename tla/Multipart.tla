------------------------------ MODULE Multipart -----------------------------
(***************************************************************************)
(* MultipartFormDataParser of src/Libs/httplib.h.  It is given a body in   *)
(* pieces, as they come off the connection, and keeps in buf what it has   *)
(* not understood yet.                                                      *)
(*                                                                         *)
(* A body is a sequence of units.  A unit is the tuple of one byte, or a    *)
(* longer tuple that stands for a word without a line end or a hyphen.      *)
(* A header line of a part is not looked into: names and types of parts     *)
(* are read by nobody in this server.                                       *)
(***************************************************************************)
EXTENDS Naturals, Sequences, SequencesExt

CR == <<13>>
LF == <<10>>
Hyphen == <<45>>

CrLf == <<CR, LF>>
Dashes == <<Hyphen, Hyphen>>

\* A parser before its first call, and its states.
NewParser(boundary) ==
    [boundary |-> [i \in DOMAIN boundary |-> <<boundary[i]>>],
     buf |-> <<>>, state |-> "initial boundary", is_valid |-> FALSE,
     content |-> <<>>, run |-> "parsing"]

\* The place of a pattern in the buffer, counted from 0, and Len(s) if it is not there.
PlaceOf(pattern, s) ==
    LET at == {i \in 0..(Len(s) - Len(pattern)) :
                   SubSeq(s, i + 1, i + Len(pattern)) = pattern}
    IN  IF at = {} THEN Len(s) ELSE CHOOSE i \in at : \A j \in at : i <= j

Starts(pattern, s) == IsPrefix(pattern, s)
Found(pattern, s) == Len(pattern) <= Len(s) /\ PlaceOf(pattern, s) < Len(s)
Erase(s, n) == SubSeq(s, n + 1, Len(s))

More(m) == [m EXCEPT !.run = "more"]    \* return true, wait for the next piece
Refuse(m) == [m EXCEPT !.run = "fail"]  \* return false
Step(m, n, state) == [m EXCEPT !.buf = Erase(@, n), !.state = state]
Take(m, n) == [m EXCEPT !.buf = Erase(@, n), !.content = @ \o SubSeq(m.buf, 1, n)]

-----------------------------------------------------------------------------
(* The cases of the loop of parse.                                          *)

InitialBoundary(m) ==
    LET pattern == Dashes \o m.boundary \o CrLf
    IN  IF Len(pattern) > Len(m.buf)     THEN More(m)
        ELSE IF ~Starts(pattern, m.buf)  THEN Refuse(m)
        ELSE Step(m, Len(pattern), "headers")

\* One line of the headers of a part; the empty one ends them.
PartHeader(m) ==
    LET pos == PlaceOf(CrLf, m.buf)
    IN  IF ~Found(CrLf, m.buf) THEN More(m)
        ELSE Step(m, pos + 2, IF pos = 0 THEN "body" ELSE "headers")

\* How much of the buffer surely belongs to the content.
SurelyContent(s) ==
    LET others == {i \in DOMAIN s : s[i] \notin {CR, LF, Hyphen}}
    IN  IF Found(CrLf \o Dashes, s) THEN PlaceOf(CrLf \o Dashes, s)
        ELSE IF others = {} THEN 0
        ELSE CHOOSE i \in others : \A j \in others : j <= i

PartBody(m) ==
    LET rest    == Take(m, SurelyContent(m.buf))
        pattern == CrLf \o Dashes \o m.boundary
    IN  IF Len(m.buf) < 4                    THEN More(m)
        ELSE IF Len(pattern) > Len(rest.buf) THEN More(rest)
        ELSE IF Found(pattern, rest.buf)
        THEN LET pos == PlaceOf(pattern, rest.buf)
             IN  Step(Take(rest, pos), Len(pattern), "boundary")
        ELSE Take(rest, Len(pattern))

Boundary(m) ==
    IF Len(m.buf) < 2                          THEN More(m)
    ELSE IF Starts(CrLf, m.buf)                THEN Step(m, 2, "headers")
    ELSE IF Starts(Dashes \o CrLf, m.buf)
    THEN [Step(m, 4, "done") EXCEPT !.is_valid = TRUE]
    ELSE More(m)

\* Nothing may come behind the last boundary.
Done(m) == [Refuse(m) EXCEPT !.is_valid = FALSE]

Turn(m) ==
    CASE m.run # "parsing"              -> m
      [] m.run = "parsing" /\ m.buf = <<>> -> More(m)
      [] OTHER ->
           CASE m.state = "initial boundary" -> InitialBoundary(m)
             [] m.state = "headers"          -> PartHeader(m)
             [] m.state = "body"             -> PartBody(m)
             [] m.state = "boundary"         -> Boundary(m)
             [] m.state = "done"             -> Done(m)

\* A call of parse.  Every turn but the last one takes something out of the buffer.
Parse(m, piece) ==
    LET given == [m EXCEPT !.buf = @ \o piece, !.run = "parsing"]
        after[k \in 0..(Len(given.buf) + 1)] ==
            IF k = 0 THEN given ELSE Turn(after[k - 1])
    IN  after[Len(given.buf) + 1]
=============================================================================
