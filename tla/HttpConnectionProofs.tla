------------------------ MODULE HttpConnectionProofs ------------------------
(***************************************************************************)
(* Theorems about HttpConnection, in pieces of any length and for any number *)
(* of requests on a connection.                                             *)
(*                                                                         *)
(* For whatever clients may say: a reply has exactly the ranges that are     *)
(* asked for, under headers that describe them, and the loop over the        *)
(* requests takes the steps of KeptAlive.                                   *)
(*                                                                         *)
(* For messages that are written as they are meant, in the second part, the  *)
(* only one that uses MessagesAssumption: handlers get the whole messages,   *)
(* replies come in the order of the messages, and the worker waits for       *)
(* nobody who waits for it.  A request is followed from its first line to    *)
(* its last unit; what has been read of it is always a part of one message.  *)
(***************************************************************************)
EXTENDS HttpMessages, PlacesProofs

-----------------------------------------------------------------------------
(* The first header of a name.                                              *)

IsFirst(h, name, value) ==
    \E i \in DOMAIN h : /\ h[i][2] = name /\ h[i][3] = value
                        /\ \A k \in 1..(i - 1) : h[k][2] # name

Absent(h, name) == \A i \in DOMAIN h : h[i][2] # name

LEMMA HeaderAsked ==
  ASSUME NEW E, NEW r, r.headers \in Seq(E), NEW name, NEW absent, NEW value
  PROVE  /\ IsFirst(r.headers, name, value) => HeaderOf(r, name, absent) = value
         /\ Absent(r.headers, name) => HeaderOf(r, name, absent) = absent
<1> DEFINE h == r.headers
           at == {i \in DOMAIN h : h[i][2] = name}
           first == CHOOSE i \in at : \A k \in at : i <= k
<1>1. DOMAIN h = 1..Len(h) /\ Len(h) \in Nat
  BY LenProperties
<1>2. HeaderOf(r, name, absent) = IF at = {} THEN absent ELSE h[first][3]
  BY DEF HeaderOf
<1>3. ASSUME IsFirst(h, name, value) PROVE HeaderOf(r, name, absent) = value
  <2>1. PICK i \in DOMAIN h : /\ h[i][2] = name /\ h[i][3] = value
                              /\ \A k \in 1..(i - 1) : h[k][2] # name
    BY <1>3 DEF IsFirst
  <2>2. i \in at /\ \A k \in at : i <= k
    BY <1>1, <2>1
  <2>3. first \in at /\ \A k \in at : first <= k
    BY <2>2
  <2>4. first = i
    BY <1>1, <2>2, <2>3
  <2> HIDE DEF first
  <2> QED
    BY <1>2, <2>1, <2>2, <2>4
<1>4. ASSUME Absent(h, name) PROVE HeaderOf(r, name, absent) = absent
  <2>1. at = {}
    BY <1>4 DEF Absent
  <2> QED
    BY <1>2, <2>1
<1> QED
  BY <1>3, <1>4

LEMMA HeadersJoined ==
  ASSUME NEW E, NEW g \in Seq(E), NEW h \in Seq(E), NEW name, NEW value
  PROVE  /\ g \o h \in Seq(E)
         /\ IsFirst(g, name, value) => IsFirst(g \o h, name, value)
         /\ Absent(g, name) /\ IsFirst(h, name, value) => IsFirst(g \o h, name, value)
         /\ Absent(g, name) /\ Absent(h, name) => Absent(g \o h, name)
<1> DEFINE f == g \o h
<1>1. /\ f \in Seq(E) /\ Len(g) \in Nat /\ Len(h) \in Nat /\ Len(f) = Len(g) + Len(h)
      /\ DOMAIN g = 1..Len(g) /\ DOMAIN h = 1..Len(h) /\ DOMAIN f = 1..Len(f)
      /\ \A i \in 1..Len(g) : f[i] = g[i]
      /\ \A i \in 1..Len(h) : f[Len(g) + i] = h[i]
      /\ \A i \in 1..Len(f) : i \notin 1..Len(g) => i - Len(g) \in 1..Len(h) /\ f[i] = h[i - Len(g)]
  BY ConcatProperties, LenProperties
<1> HIDE DEF f
<1>2. ASSUME IsFirst(g, name, value) PROVE IsFirst(f, name, value)
  <2>1. PICK i \in DOMAIN g : /\ g[i][2] = name /\ g[i][3] = value
                              /\ \A k \in 1..(i - 1) : g[k][2] # name
    BY <1>2 DEF IsFirst
  <2>2. i \in DOMAIN f /\ f[i] = g[i] /\ \A k \in 1..(i - 1) : f[k] = g[k]
    BY <1>1
  <2> QED
    BY <2>1, <2>2 DEF IsFirst
<1>3. ASSUME Absent(g, name), IsFirst(h, name, value) PROVE IsFirst(f, name, value)
  <2>1. PICK i \in DOMAIN h : /\ h[i][2] = name /\ h[i][3] = value
                              /\ \A k \in 1..(i - 1) : h[k][2] # name
    BY <1>3 DEF IsFirst
  <2>2. Len(g) + i \in DOMAIN f /\ f[Len(g) + i] = h[i]
    BY <1>1
  <2>3. ASSUME NEW k \in 1..((Len(g) + i) - 1) PROVE f[k][2] # name
    <3>1. i \in 1..Len(h) /\ k \in Int /\ k <= Len(g) + i - 1 /\ 1 <= k /\ k \in 1..Len(f)
      BY <1>1, <2>2
    <3>2. CASE k \in 1..Len(g)
      BY <1>1, <1>3, <3>2 DEF Absent
    <3>3. CASE k \notin 1..Len(g)
      <4>1. k - Len(g) \in 1..(i - 1)
        BY <1>1, <3>1, <3>3
      <4>2. f[k] = h[k - Len(g)]
        BY <1>1, <3>1, <3>3
      <4> QED
        BY <2>1, <4>1, <4>2
    <3> QED
      BY <3>2, <3>3
  <2> QED
    BY <2>1, <2>2, <2>3 DEF IsFirst
<1>4. ASSUME Absent(g, name), Absent(h, name) PROVE Absent(f, name)
  <2> SUFFICES ASSUME NEW i \in DOMAIN f PROVE f[i][2] # name
    BY DEF Absent
  <2>1. CASE i \in 1..Len(g)
    BY <1>1, <1>4, <2>1 DEF Absent
  <2>2. CASE i \notin 1..Len(g)
    <3>1. i - Len(g) \in 1..Len(h) /\ f[i] = h[i - Len(g)]
      BY <1>1, <2>2
    <3> QED
      BY <1>1, <1>4, <3>1 DEF Absent
  <2> QED
    BY <2>1, <2>2
<1> QED
  BY <1>1, <1>2, <1>3, <1>4 DEF f

LEMMA HeadersKept ==
  ASSUME NEW E, NEW h \in Seq(E), NEW S \in SUBSET DOMAIN h, NEW name, NEW value
  PROVE  /\ AtPlaces(h, S) \in Seq(E)
         /\ IsFirst(h, name, value) /\ (\A i \in DOMAIN h : h[i][2] = name => i \in S)
               => IsFirst(AtPlaces(h, S), name, value)
         /\ (\A i \in S : h[i][2] # name) => Absent(AtPlaces(h, S), name)
<1> DEFINE f == AtPlaces(h, S)
<1>1. DOMAIN h = 1..Len(h) /\ Len(h) \in Nat /\ S \in SUBSET (1..Len(h)) /\ S \in SUBSET Int
  BY LenProperties
<1>2. /\ f \in Seq(E)
      /\ \A i \in S : Rank(S, i) \in 1..Len(f) /\ f[Rank(S, i)] = h[i]
      /\ \A k \in 1..Len(f) : \E i \in S : Rank(S, i) = k /\ f[k] = h[i]
  BY <1>1, AtPlacesFacts
<1>3. IsFiniteSet(S)
  <2>1. IsFiniteSet(1..Len(h))
    BY <1>1, FS_Interval
  <2> QED
    BY <1>1, <2>1, FS_Subset
<1>4. DOMAIN f = 1..Len(f) /\ Len(f) \in Nat
  BY <1>2, LenProperties
<1> HIDE DEF f
<1>5. ASSUME IsFirst(h, name, value), \A i \in DOMAIN h : h[i][2] = name => i \in S
      PROVE  IsFirst(f, name, value)
  <2>1. PICK i \in DOMAIN h : /\ h[i][2] = name /\ h[i][3] = value
                              /\ \A k \in 1..(i - 1) : h[k][2] # name
    BY <1>5 DEF IsFirst
  <2>2. i \in S /\ i \in Int /\ Rank(S, i) \in DOMAIN f /\ f[Rank(S, i)] = h[i]
    BY <1>1, <1>2, <1>4, <1>5, <2>1
  <2>3. ASSUME NEW k \in 1..(Rank(S, i) - 1) PROVE f[k][2] # name
    <3>1. k \in 1..Len(f) /\ k \in Int /\ Rank(S, i) \in Int /\ k < Rank(S, i)
      BY <1>4, <2>2
    <3>2. PICK j \in S : Rank(S, j) = k /\ f[k] = h[j]
      BY <1>2, <3>1
    <3>3. j \in Int /\ j \in 1..Len(h)
      BY <1>1
    <3>4. ~(i < j)
      BY <1>1, <1>3, <2>2, <3>1, <3>2, RankOrders
    <3>5. i # j
      BY <3>1, <3>2
    <3>6. j \in 1..(i - 1)
      BY <2>2, <3>3, <3>4, <3>5
    <3> QED
      BY <2>1, <3>2, <3>6
  <2> QED
    BY <2>1, <2>2, <2>3 DEF IsFirst
<1>6. ASSUME \A i \in S : h[i][2] # name PROVE Absent(f, name)
  BY <1>2, <1>4, <1>6 DEF Absent
<1> QED
  BY <1>2, <1>5, <1>6 DEF f

-----------------------------------------------------------------------------
(* Ranges.                                                                  *)

\* Whichever of its ends are given, a range inside of the body is cut out of it as it is
\* meant.
LEMMA PlacesOfRange ==
  ASSUME NEW n \in Nat, NEW p \in RangeEnds, NEW q \in RangeEnds, WithinBody(<<p, q>>, n)
  PROVE  LET o == get_range_offset_and_length(<<p, q>>, n)
         IN  /\ o.offset \in 0..(n - 1) /\ o.length \in 1..n /\ o.offset + o.length \in 1..n
             /\ PlacesOf(<<p, q>>, n) = o.offset..(o.offset + o.length - 1)
<1> DEFINE r == <<p, q>>
           o == get_range_offset_and_length(r, n)
           places == PlacesOf(r, n)
<1>1. p \in Int /\ q \in Int /\ (p = -1 \/ p >= 0) /\ (q = -1 \/ q >= 0)
      /\ r[1] = p /\ r[2] = q /\ (r = <<-1, -1>> <=> p = -1 /\ q = -1)
  BY DEF RangeEnds
<1>2. q < n /\ places # {}
  BY DEF WithinBody
<1>3. places = {x \in 0..(n - 1) : \/ p = -1 /\ q = -1
                                   \/ p = -1 /\ q # -1 /\ n - q <= x
                                   \/ p # -1 /\ p <= x /\ (q = -1 \/ x <= q)}
  BY <1>1 DEF PlacesOf
<1>4. o = IF p = -1 /\ q = -1 THEN [offset |-> 0, length |-> n]
          ELSE [offset |-> IF p = -1 THEN n - q ELSE p,
                length |-> (IF p = -1 \/ q = -1 THEN n - 1 ELSE q)
                             - (IF p = -1 THEN n - q ELSE p) + 1]
  BY <1>1 DEF get_range_offset_and_length
<1> HIDE DEF o, places
<1> SUFFICES /\ o.offset \in 0..(n - 1) /\ o.length \in 1..n /\ o.offset + o.length \in 1..n
             /\ places = o.offset..(o.offset + o.length - 1)
  BY DEF o, places
<1>5. PICK x \in 0..(n - 1) : \/ p = -1 /\ q = -1
                              \/ p = -1 /\ q # -1 /\ n - q <= x
                              \/ p # -1 /\ p <= x /\ (q = -1 \/ x <= q)
  BY <1>2, <1>3
<1>6. CASE p = -1 /\ q = -1
  <2>1. o.offset = 0 /\ o.length = n
    BY <1>4, <1>6
  <2>2. places = 0..(n - 1)
    BY <1>3, <1>6
  <2> QED
    BY <1>5, <2>1, <2>2
<1>7. CASE p = -1 /\ q # -1
  <2>1. o.offset = n - q /\ o.length = (n - 1) - (n - q) + 1
    BY <1>4, <1>7
  <2>2. n - q <= x /\ q >= 1 /\ q < n
    BY <1>1, <1>2, <1>5, <1>7
  <2>3. o.length = q
    BY <1>1, <2>1
  <2>4. places = (n - q)..(n - 1)
    BY <1>1, <1>3, <1>7, <2>2
  <2> QED
    BY <1>1, <2>1, <2>2, <2>3, <2>4
<1>8. CASE p # -1 /\ q = -1
  <2>1. o.offset = p /\ o.length = (n - 1) - p + 1
    BY <1>4, <1>8
  <2>2. p <= x /\ p >= 0
    BY <1>1, <1>5, <1>8
  <2>3. places = p..(n - 1)
    BY <1>1, <1>3, <1>8, <2>2
  <2> QED
    BY <1>1, <1>5, <2>1, <2>2, <2>3
<1>9. CASE p # -1 /\ q # -1
  <2>1. o.offset = p /\ o.length = q - p + 1
    BY <1>4, <1>9
  <2>2. p <= x /\ p >= 0 /\ x <= q /\ q < n
    BY <1>1, <1>2, <1>5, <1>9
  <2>3. places = p..q
    BY <1>1, <1>3, <1>9, <2>2
  <2> QED
    BY <1>1, <1>5, <2>1, <2>2, <2>3
<1> QED
  BY <1>6, <1>7, <1>8, <1>9

LEMMA RangeCutOut ==
  ASSUME NEW E, NEW whole \in Seq(E), NEW r \in RangeEnds \X RangeEnds,
         WithinBody(r, Len(whole))
  PROVE  Slice(r, whole) = PartMeant(r, whole) /\ ContentRange(r, whole) = PartOf(r, whole)
<1> DEFINE n == Len(whole)
           lo == get_range_offset_and_length(r, n).offset
           len == get_range_offset_and_length(r, n).length
           places == PlacesOf(r, n)
<1>1. n \in Nat /\ r = <<r[1], r[2]>> /\ r[1] \in RangeEnds /\ r[2] \in RangeEnds
  BY LenProperties
<1>2. /\ lo \in 0..(n - 1) /\ len \in 1..n /\ lo + len \in 1..n
      /\ places = lo..(lo + len - 1)
  BY <1>1, PlacesOfRange
<1>3. /\ Slice(r, whole) = SubSeq(whole, lo + 1, IF lo + len < n THEN lo + len ELSE n)
      /\ ContentRange(r, whole) = <<lo, lo + len - 1>>
      /\ PartMeant(r, whole) = AtPlaces(whole, {p + 1 : p \in places})
      /\ PartOf(r, whole) = <<CHOOSE p \in places : \A q \in places : p <= q,
                              CHOOSE p \in places : \A q \in places : q <= p>>
  BY DEF Slice, ContentRange, PartMeant, PartOf
<1> HIDE DEF lo, len, places, n
<1>4. {p + 1 : p \in places} = (lo + 1)..(lo + len)
  <2>1. ASSUME NEW y \in (lo + 1)..(lo + len) PROVE \E p \in places : y = p + 1
    <3>1. y - 1 \in places /\ y = (y - 1) + 1
      BY <1>2
    <3> QED
      BY <3>1
  <2>2. ASSUME NEW p \in places PROVE p + 1 \in (lo + 1)..(lo + len)
    BY <1>2
  <2> QED
    BY <2>1, <2>2
<1>5. lo + 1 \in 1..n /\ lo + len \in (lo + 1)..n /\ (IF lo + len < n THEN lo + len ELSE n) = lo + len
  BY <1>1, <1>2
<1>6. Slice(r, whole) = PartMeant(r, whole)
  BY <1>3, <1>4, <1>5, AtPlacesInterval DEF n
<1>7. (CHOOSE p \in places : \A q \in places : p <= q) = lo
  <2>1. lo \in places /\ \A q \in places : lo <= q
    BY <1>2
  <2>2. \A p \in places : (\A q \in places : p <= q) => p = lo
    BY <1>2, <2>1
  <2> QED
    BY <2>1, <2>2
<1>8. (CHOOSE p \in places : \A q \in places : q <= p) = lo + len - 1
  <2>1. lo + len - 1 \in places /\ \A q \in places : q <= lo + len - 1
    BY <1>2
  <2>2. \A p \in places : (\A q \in places : q <= p) => p = lo + len - 1
    BY <1>2, <2>1
  <2> QED
    BY <2>1, <2>2
<1> QED
  BY <1>3, <1>6, <1>7, <1>8

-----------------------------------------------------------------------------
(* The headers of a reply.                                                  *)

Plain == <<"header", "Content-Type", "text/plain">>
ByRanges == <<"header", "Content-Type", "multipart/byteranges">>
What == <<"header", "EXCEPTION_WHAT", "what">>
Goodbye == <<"header", "Connection", "close">>
Again == <<"header", "Connection", "Keep-Alive">>
Accepted == <<"header", "Accept-Ranges", "bytes">>
LengthHeader == <<"header", "Content-Length", Len(Body)>>
RangeHeader == <<"header", "Content-Range", ContentRange(req.ranges[1], res.body)>>

SomeHeaders ==
    {Plain, ByRanges, What, Goodbye, Again, Accepted, LengthHeader, RangeHeader}

\* What a handler, or a refusal, leaves for write_response.
AnswerOK ==
    /\ res.headers \in {<<>>, <<Plain>>, <<What>>, <<Plain, Plain>>}
    /\ res.body # <<>> => \/ res.headers = <<Plain>>
                          \/ res.headers = <<Plain, Plain>> /\ res.status = 400
    /\ res.body \in Seq(Range(res.body))
    /\ req.ranges \in Seq(RangeEnds \X RangeEnds)

\* The headers before several ranges change the type.
AllHeaders == res.headers \o ConnectionHeader \o AcceptRanges

LEMMA OneHeader ==
  ASSUME NEW x, NEW name
  PROVE  /\ x[2] = name => IsFirst(<<x>>, name, x[3])
         /\ x[2] # name => Absent(<<x>>, name)
  BY DEF IsFirst, Absent

LEMMA NoHeader ==
  ASSUME NEW name
  PROVE  Absent(<<>>, name)
  BY DEF Absent

LEMMA FewHeaders ==
  ASSUME NEW E, NEW x \in E
  PROVE  <<>> \in Seq(E) /\ <<x>> \in Seq(E) /\ <<x, x>> \in Seq(E)
  OBVIOUS

LEMMA HeaderTypes ==
  ASSUME AnswerOK
  PROVE  /\ res.headers \in Seq(SomeHeaders)
         /\ ConnectionHeader \in Seq(SomeHeaders)
         /\ AcceptRanges \in Seq(SomeHeaders)
         /\ BodyHeaders \in Seq(SomeHeaders)
         /\ AllHeaders \in Seq(SomeHeaders)
         /\ WithMultipartType(AllHeaders) \in Seq(SomeHeaders)
<1>0. /\ Plain \in SomeHeaders /\ ByRanges \in SomeHeaders /\ What \in SomeHeaders
      /\ Goodbye \in SomeHeaders /\ Again \in SomeHeaders /\ Accepted \in SomeHeaders
      /\ LengthHeader \in SomeHeaders /\ RangeHeader \in SomeHeaders
  BY DEF SomeHeaders
<1>1. res.headers \in Seq(SomeHeaders)
  <2>1. res.headers \in {<<>>, <<Plain>>, <<What>>, <<Plain, Plain>>}
    BY DEF AnswerOK
  <2> QED
    BY <1>0, <2>1, FewHeaders
<1>2. ConnectionHeader \in {<<>>, <<Goodbye>>, <<Again>>} /\ AcceptRanges \in {<<>>, <<Accepted>>}
  BY DEF ConnectionHeader, AcceptRanges, Goodbye, Again, Accepted
<1>3. ConnectionHeader \in Seq(SomeHeaders) /\ AcceptRanges \in Seq(SomeHeaders)
  BY <1>0, <1>2, FewHeaders
<1>4. BodyHeaders \in Seq(SomeHeaders)
  <2>1. BodyHeaders = (IF Len(req.ranges) = 1 /\ res.body # <<>> THEN <<RangeHeader>> ELSE <<>>)
                      \o <<LengthHeader>>
    BY DEF BodyHeaders, RangeHeader, LengthHeader
  <2> QED
    BY <1>0, <2>1
<1>5. AllHeaders \in Seq(SomeHeaders)
  BY <1>1, <1>3, HeadersJoined DEF AllHeaders
<1>6. WithMultipartType(AllHeaders) \in Seq(SomeHeaders)
  <2> DEFINE types == {i \in DOMAIN AllHeaders : AllHeaders[i][2] = "Content-Type"}
             first == CHOOSE i \in types : \A k \in types : i <= k
             kept == DOMAIN AllHeaders \ {first}
  <2>1. WithMultipartType(AllHeaders) =
          IF Len(req.ranges) <= 1 THEN AllHeaders
          ELSE (IF types = {} THEN AllHeaders ELSE AtPlaces(AllHeaders, kept)) \o <<ByRanges>>
    BY DEF WithMultipartType, ByRanges
  <2>2. AtPlaces(AllHeaders, kept) \in Seq(SomeHeaders)
    <3>1. kept \in SUBSET DOMAIN AllHeaders
      OBVIOUS
    <3> HIDE DEF kept
    <3> QED
      BY <1>5, <3>1, HeadersKept
  <2>3. <<ByRanges>> \in Seq(SomeHeaders)
    BY <1>0
  <2> HIDE DEF types, kept
  <2> QED
    BY <1>5, <2>1, <2>2, <2>3, HeadersJoined
<1> QED
  BY <1>1, <1>3, <1>4, <1>5, <1>6

\* Headers of other names are not touched by that.
LEMMA OtherHeaders ==
  ASSUME AnswerOK, NEW name, name # "Content-Type", NEW value
  PROVE  /\ IsFirst(AllHeaders, name, value) => IsFirst(WithMultipartType(AllHeaders), name, value)
         /\ Absent(AllHeaders, name) => Absent(WithMultipartType(AllHeaders), name)
<1> DEFINE h == AllHeaders
           types == {i \in DOMAIN h : h[i][2] = "Content-Type"}
           first == CHOOSE i \in types : \A k \in types : i <= k
           kept == DOMAIN h \ {first}
           rest == IF types = {} THEN h ELSE AtPlaces(h, kept)
<1>1. WithMultipartType(h) = IF Len(req.ranges) <= 1 THEN h ELSE rest \o <<ByRanges>>
  BY DEF WithMultipartType, ByRanges
<1>2. h \in Seq(SomeHeaders) /\ DOMAIN h = 1..Len(h) /\ Len(h) \in Nat
  BY HeaderTypes, LenProperties
<1>3. types # {} => first \in types
  <2> SUFFICES ASSUME types # {} PROVE first \in types
    OBVIOUS
  <2>1. types \in SUBSET Nat
    BY <1>2
  <2>2. \E i \in types : \A k \in types : i <= k
    BY <2>1, LeastOf
  <2> QED
    BY <2>2
<1>4. <<ByRanges>> \in Seq(SomeHeaders) /\ Absent(<<ByRanges>>, name)
  <2>1. ByRanges \in SomeHeaders /\ ByRanges[2] # name
    BY DEF SomeHeaders, ByRanges
  <2> QED
    BY <2>1, OneHeader
<1>5. types # {} => /\ kept \in SUBSET DOMAIN h
                    /\ \A i \in DOMAIN h : h[i][2] = name => i \in kept
  BY <1>3
<1> HIDE DEF h, types, kept
<1>6. /\ rest \in Seq(SomeHeaders)
      /\ IsFirst(h, name, value) => IsFirst(rest, name, value)
      /\ Absent(h, name) => Absent(rest, name)
  <2>1. CASE types = {}
    BY <1>2, <2>1
  <2>2. CASE types # {}
    <3>1. /\ AtPlaces(h, kept) \in Seq(SomeHeaders)
          /\ IsFirst(h, name, value) => IsFirst(AtPlaces(h, kept), name, value)
          /\ (\A i \in kept : h[i][2] # name) => Absent(AtPlaces(h, kept), name)
      BY <1>2, <1>5, <2>2, HeadersKept
    <3>2. Absent(h, name) => \A i \in kept : h[i][2] # name
      BY <1>5, <2>2 DEF Absent
    <3> QED
      BY <2>2, <3>1, <3>2
  <2> QED
    BY <2>1, <2>2
<1> HIDE DEF rest
<1>7. /\ IsFirst(rest, name, value) => IsFirst(rest \o <<ByRanges>>, name, value)
      /\ Absent(rest, name) => Absent(rest \o <<ByRanges>>, name)
  BY <1>4, <1>6, HeadersJoined
<1> QED
  BY <1>1, <1>6, <1>7 DEF h

\* What is left out when the headers are written is one name.
LEMMA WrittenHeaders ==
  ASSUME NEW E, NEW h \in Seq(E), NEW name, NEW value
  PROVE  /\ write_headers(h) \in Seq(E)
         /\ Absent(write_headers(h), "EXCEPTION_WHAT")
         /\ name # "EXCEPTION_WHAT" /\ IsFirst(h, name, value) => IsFirst(write_headers(h), name, value)
         /\ Absent(h, name) => Absent(write_headers(h), name)
<1> DEFINE S == {i \in DOMAIN h : h[i][2] # "EXCEPTION_WHAT"}
<1>1. write_headers(h) = AtPlaces(h, S)
  BY DEF write_headers
<1>2. /\ S \in SUBSET DOMAIN h
      /\ \A i \in S : h[i][2] # "EXCEPTION_WHAT"
      /\ name # "EXCEPTION_WHAT" => \A i \in DOMAIN h : h[i][2] = name => i \in S
      /\ Absent(h, name) => \A i \in S : h[i][2] # name
  BY DEF Absent
<1> HIDE DEF S
<1> QED
  BY <1>1, <1>2, HeadersKept

\* Before the headers of the body come those of the handler and of the connection.
LEMMA AllHeadersSay ==
  ASSUME AnswerOK
  PROVE  /\ Absent(AllHeaders, "Content-Length") /\ Absent(AllHeaders, "Content-Range")
         /\ LastOne => IsFirst(AllHeaders, "Connection", "close")
         /\ res.body # <<>> => IsFirst(AllHeaders, "Content-Type", "text/plain")
<1> DEFINE two == res.headers \o ConnectionHeader
<1>1. /\ res.headers \in {<<>>, <<Plain>>, <<What>>, <<Plain, Plain>>}
      /\ ConnectionHeader \in {<<>>, <<Goodbye>>, <<Again>>} /\ AcceptRanges \in {<<>>, <<Accepted>>}
      /\ LastOne => ConnectionHeader = <<Goodbye>>
  BY DEF AnswerOK, ConnectionHeader, AcceptRanges, Goodbye, Again, Accepted
<1>2. /\ res.headers \in Seq(SomeHeaders) /\ ConnectionHeader \in Seq(SomeHeaders)
      /\ AcceptRanges \in Seq(SomeHeaders)
  BY HeaderTypes
<1>3. ASSUME NEW name \in {"Content-Length", "Content-Range", "Connection"}
      PROVE  Absent(res.headers, name)
  BY <1>1 DEF Absent, Plain, What
<1>4. ASSUME NEW name \in {"Content-Length", "Content-Range"}
      PROVE  Absent(AllHeaders, name)
  <2>1. Absent(ConnectionHeader, name)
    BY <1>1 DEF Absent, Goodbye, Again
  <2>2. Absent(AcceptRanges, name)
    BY <1>1 DEF Absent, Accepted
  <2>3. Absent(res.headers, name)
    BY <1>3
  <2>4. two \in Seq(SomeHeaders) /\ Absent(two, name)
    BY <1>2, <2>1, <2>3, HeadersJoined
  <2> HIDE DEF two
  <2>5. Absent(two \o AcceptRanges, name)
    BY <1>2, <2>2, <2>4, HeadersJoined
  <2> QED
    BY <2>5 DEF AllHeaders, two
<1>5. ASSUME LastOne PROVE IsFirst(AllHeaders, "Connection", "close")
  <2>1. IsFirst(ConnectionHeader, "Connection", "close")
    BY <1>1, <1>5, OneHeader DEF Goodbye
  <2>2. Absent(res.headers, "Connection")
    BY <1>3
  <2>3. two \in Seq(SomeHeaders) /\ IsFirst(two, "Connection", "close")
    BY <1>2, <2>1, <2>2, HeadersJoined
  <2> HIDE DEF two
  <2>4. IsFirst(two \o AcceptRanges, "Connection", "close")
    BY <1>2, <2>3, HeadersJoined
  <2> QED
    BY <2>4 DEF AllHeaders, two
<1>6. ASSUME res.body # <<>> PROVE IsFirst(AllHeaders, "Content-Type", "text/plain")
  <2>1. res.headers = <<Plain>> \/ res.headers = <<Plain, Plain>>
    BY <1>6 DEF AnswerOK
  <2>2. IsFirst(res.headers, "Content-Type", "text/plain")
    BY <2>1 DEF IsFirst, Plain
  <2>3. two \in Seq(SomeHeaders) /\ IsFirst(two, "Content-Type", "text/plain")
    BY <1>2, <2>2, HeadersJoined
  <2> HIDE DEF two
  <2>4. IsFirst(two \o AcceptRanges, "Content-Type", "text/plain")
    BY <1>2, <2>3, HeadersJoined
  <2> QED
    BY <2>4 DEF AllHeaders, two
<1> QED
  BY <1>4, <1>5, <1>6

\* If a handler has given one type, several ranges replace it.
LEMMA TypeOfRanges ==
  ASSUME AnswerOK, res.headers = <<Plain>>, ~(Len(req.ranges) <= 1)
  PROVE  IsFirst(WithMultipartType(AllHeaders), "Content-Type", "multipart/byteranges")
<1> DEFINE h == AllHeaders
           later == ConnectionHeader \o AcceptRanges
           types == {i \in DOMAIN h : h[i][2] = "Content-Type"}
           first == CHOOSE i \in types : \A k \in types : i <= k
           kept == DOMAIN h \ {first}
<1>1. WithMultipartType(h) = (IF types = {} THEN h ELSE AtPlaces(h, kept)) \o <<ByRanges>>
  BY DEF WithMultipartType, ByRanges
<1>2. /\ <<Plain>> \in Seq(SomeHeaders) /\ ConnectionHeader \in Seq(SomeHeaders)
      /\ AcceptRanges \in Seq(SomeHeaders) /\ h \in Seq(SomeHeaders)
  BY HeaderTypes
<1>3. later \in Seq(SomeHeaders) /\ Absent(later, "Content-Type")
  <2>1. ConnectionHeader \in {<<>>, <<Goodbye>>, <<Again>>} /\ AcceptRanges \in {<<>>, <<Accepted>>}
    BY DEF ConnectionHeader, AcceptRanges, Goodbye, Again, Accepted
  <2>2. Absent(ConnectionHeader, "Content-Type")
    BY <2>1 DEF Absent, Goodbye, Again
  <2>3. Absent(AcceptRanges, "Content-Type")
    BY <2>1 DEF Absent, Accepted
  <2> QED
    BY <1>2, <2>2, <2>3, HeadersJoined
<1>4. h = <<Plain>> \o later
  BY <1>2 DEF AllHeaders
<1> HIDE DEF h, later
<1>5. /\ Len(h) \in Nat /\ DOMAIN h = 1..Len(h) /\ 1 \in DOMAIN h /\ h[1] = Plain
      /\ \A i \in DOMAIN h : i # 1 => h[i][2] # "Content-Type"
  <2>1. /\ Len(later) \in Nat /\ DOMAIN later = 1..Len(later) /\ Len(<<Plain>>) = 1
        /\ Len(h) = 1 + Len(later) /\ DOMAIN h = 1..Len(h) /\ h[1] = Plain
        /\ \A i \in 2..Len(h) : i - 1 \in 1..Len(later) /\ h[i] = later[i - 1]
    BY <1>2, <1>3, <1>4, ConcatProperties, LenProperties
  <2>2. ASSUME NEW i \in 2..Len(h) PROVE h[i][2] # "Content-Type"
    BY <1>3, <2>1, <2>2 DEF Absent
  <2> QED
    BY <2>1, <2>2
<1>6. types = {1}
  <2>1. h[1][2] = "Content-Type"
    BY <1>5 DEF Plain
  <2> QED
    BY <1>5, <2>1
<1>7. first = 1
  BY <1>6
<1>8. kept \in SUBSET DOMAIN h /\ \A i \in kept : h[i][2] # "Content-Type"
  BY <1>5, <1>7
<1> HIDE DEF types, first, kept
<1>9. AtPlaces(h, kept) \in Seq(SomeHeaders) /\ Absent(AtPlaces(h, kept), "Content-Type")
  BY <1>2, <1>8, HeadersKept
<1>10. <<ByRanges>> \in Seq(SomeHeaders) /\ IsFirst(<<ByRanges>>, "Content-Type", "multipart/byteranges")
  <2>1. ByRanges \in SomeHeaders
    BY DEF SomeHeaders
  <2> QED
    BY <2>1, FewHeaders, OneHeader DEF ByRanges
<1>11. IsFirst(AtPlaces(h, kept) \o <<ByRanges>>, "Content-Type", "multipart/byteranges")
  BY <1>9, <1>10, HeadersJoined
<1> QED
  BY <1>1, <1>6, <1>11 DEF h

\* The headers of the body stand behind all others.
LEMMA BodyHeadersSay ==
  ASSUME AnswerOK, NEW name, NEW value
  PROVE  LET h == WithMultipartType(AllHeaders) \o BodyHeaders
         IN  /\ h \in Seq(SomeHeaders)
             /\ IsFirst(WithMultipartType(AllHeaders), name, value) => IsFirst(h, name, value)
             /\ IsFirst(h, "Content-Length", Len(Body))
             /\ Len(req.ranges) = 1 /\ res.body # <<>>
                   => IsFirst(h, "Content-Range", ContentRange(req.ranges[1], res.body))
             /\ Len(req.ranges) # 1 => Absent(h, "Content-Range")
<1> DEFINE g == WithMultipartType(AllHeaders)
           given == IF Len(req.ranges) = 1 /\ res.body # <<>> THEN <<RangeHeader>> ELSE <<>>
<1>1. g \in Seq(SomeHeaders) /\ BodyHeaders \in Seq(SomeHeaders)
  BY HeaderTypes
<1>2. Absent(g, "Content-Length") /\ Absent(g, "Content-Range")
  BY AllHeadersSay, OtherHeaders
<1>3. BodyHeaders = given \o <<LengthHeader>>
  BY DEF BodyHeaders, RangeHeader, LengthHeader
<1>4. given \in Seq(SomeHeaders) /\ <<LengthHeader>> \in Seq(SomeHeaders)
  <2>1. RangeHeader \in SomeHeaders /\ LengthHeader \in SomeHeaders
    BY DEF SomeHeaders
  <2> QED
    BY <2>1, FewHeaders
<1>5. /\ RangeHeader[2] = "Content-Range" /\ RangeHeader[3] = ContentRange(req.ranges[1], res.body)
      /\ LengthHeader[2] = "Content-Length" /\ LengthHeader[3] = Len(Body)
  BY DEF RangeHeader, LengthHeader
<1>6. Absent(given, "Content-Length")
  BY <1>5, OneHeader, NoHeader
<1>7. IsFirst(BodyHeaders, "Content-Length", Len(Body))
  <2>1. IsFirst(<<LengthHeader>>, "Content-Length", Len(Body))
    BY <1>5, OneHeader
  <2> HIDE DEF given
  <2> QED
    BY <1>3, <1>4, <1>6, <2>1, HeadersJoined
<1>8. ASSUME Len(req.ranges) = 1, res.body # <<>>
      PROVE  IsFirst(BodyHeaders, "Content-Range", ContentRange(req.ranges[1], res.body))
  <2>1. IsFirst(given, "Content-Range", ContentRange(req.ranges[1], res.body))
    BY <1>5, <1>8, OneHeader
  <2> HIDE DEF given
  <2> QED
    BY <1>3, <1>4, <2>1, HeadersJoined
<1>9. ASSUME Len(req.ranges) # 1 PROVE Absent(BodyHeaders, "Content-Range")
  <2>1. Absent(given, "Content-Range")
    BY <1>9, NoHeader
  <2>2. Absent(<<LengthHeader>>, "Content-Range")
    BY <1>5, OneHeader
  <2> HIDE DEF given
  <2> QED
    BY <1>3, <1>4, <2>1, <2>2, HeadersJoined
<1> HIDE DEF g
<1>10. g \o BodyHeaders \in Seq(SomeHeaders)
       /\ (IsFirst(g, name, value) => IsFirst(g \o BodyHeaders, name, value))
  BY <1>1, HeadersJoined
<1>11. IsFirst(g \o BodyHeaders, "Content-Length", Len(Body))
  BY <1>1, <1>2, <1>7, HeadersJoined
<1>12. ASSUME Len(req.ranges) = 1, res.body # <<>>
       PROVE  IsFirst(g \o BodyHeaders, "Content-Range", ContentRange(req.ranges[1], res.body))
  BY <1>1, <1>2, <1>8, <1>12, HeadersJoined
<1>13. ASSUME Len(req.ranges) # 1 PROVE Absent(g \o BodyHeaders, "Content-Range")
  BY <1>1, <1>2, <1>9, <1>13, HeadersJoined
<1> QED
  BY <1>10, <1>11, <1>12, <1>13 DEF g

LEMMA BodyAsMeant ==
  ASSUME AnswerOK, NEW written, res.body # <<>>,
         \A k \in DOMAIN req.ranges : WithinBody(req.ranges[k], Len(res.body))
  PROVE  /\ Body = BodyMeant(ReplyOf(written))
         /\ Len(req.ranges) = 1
               => ContentRange(req.ranges[1], res.body) = PartOf(req.ranges[1], res.body)
<1> DEFINE ranges == req.ranges
           whole == res.body
           r == ReplyOf(written)
<1>1. r.ranges = ranges /\ r.whole = whole
  BY DEF ReplyOf
<1>2. /\ whole \in Seq(Range(whole))
      /\ ranges \in Seq(RangeEnds \X RangeEnds) /\ Len(ranges) \in Nat /\ DOMAIN ranges = 1..Len(ranges)
      /\ \A k \in DOMAIN ranges : ranges[k] \in RangeEnds \X RangeEnds
  BY LenProperties, ElementOfSeq DEF AnswerOK
<1>3. ASSUME NEW k \in DOMAIN ranges
      PROVE  Slice(ranges[k], whole) = PartMeant(ranges[k], whole)
             /\ ContentRange(ranges[k], whole) = PartOf(ranges[k], whole)
  <2>1. ranges[k] \in RangeEnds \X RangeEnds /\ WithinBody(ranges[k], Len(whole))
    BY <1>2
  <2> QED
    BY <1>2, <2>1, RangeCutOut
<1>4. /\ Body = BodyOf(ranges, whole)
      /\ BodyMeant(r) =
            CASE ranges = <<>>   -> whole
              [] Len(ranges) = 1 -> PartMeant(ranges[1], whole)
              [] Len(ranges) > 1 -> FlattenSeq([k \in DOMAIN ranges |->
                     <<PartOf(ranges[k], whole)>> \o PartMeant(ranges[k], whole)])
  BY <1>1 DEF Body, BodyMeant
<1> HIDE DEF ranges, whole, r
<1>5. whole # <<>>
  BY DEF whole
<1>6. CASE ranges = <<>>
  <2>1. Body = whole /\ BodyMeant(r) = whole /\ Len(ranges) = 0
    <3>1. Len(ranges) = 0
      BY <1>6
    <3>2. BodyMeant(r) = whole
      BY <1>4, <1>6, <3>1
    <3>3. Body = whole
      BY <1>4, <1>5, <1>6, <3>1 DEF BodyOf
    <3> QED
      BY <3>1, <3>2, <3>3
  <2> QED
    BY <2>1 DEF ranges, r
<1>7. CASE Len(ranges) = 1
  <2>1. ranges # <<>> /\ 1 \in DOMAIN ranges
    <3>1. DOMAIN ranges = 1..1
      BY <1>2, <1>7
    <3> QED
      BY <1>7, <3>1
  <2>2. BodyMeant(r) = PartMeant(ranges[1], whole)
    BY <1>4, <1>7, <2>1
  <2>3. Body = Slice(ranges[1], whole)
    BY <1>4, <1>5, <1>7, <2>1 DEF BodyOf
  <2> QED
    BY <1>3, <2>1, <2>2, <2>3 DEF ranges, whole, r
<1>8. CASE Len(ranges) > 1
  <2>1. ranges # <<>> /\ Len(ranges) # 1
    <3>1. Len(<<>>) = 0
      OBVIOUS
    <3>2. Len(ranges) # 0 /\ Len(ranges) # 1
      <4>1. Len(ranges) \in Nat
        BY <1>2
      <4>2. \A n \in Nat : n > 1 => n # 0 /\ n # 1
        OBVIOUS
      <4> QED
        BY ONLY <1>8, <4>1, <4>2
    <3> QED
      BY <3>1, <3>2, Zenon
  <2>2. BodyMeant(r) = FlattenSeq([k \in DOMAIN ranges |->
                           <<PartOf(ranges[k], whole)>> \o PartMeant(ranges[k], whole)])
    BY <1>4, <1>8, <2>1
  <2>3. Body = FlattenSeq([k \in DOMAIN ranges |->
                           <<ContentRange(ranges[k], whole)>> \o Slice(ranges[k], whole)])
    BY <1>4, <1>5, <1>8, <2>1 DEF BodyOf
  <2>4. [k \in DOMAIN ranges |-> <<ContentRange(ranges[k], whole)>> \o Slice(ranges[k], whole)]
        = [k \in DOMAIN ranges |-> <<PartOf(ranges[k], whole)>> \o PartMeant(ranges[k], whole)]
    BY <1>3
  <2> QED
    BY <2>1, <2>2, <2>3, <2>4 DEF ranges, r
<1>9. ranges = <<>> \/ Len(ranges) = 1 \/ Len(ranges) > 1
  BY <1>2, EmptySeq
<1> QED
  BY <1>6, <1>7, <1>8, <1>9

\* What a reply says and brings.
LEMMA ReplyIsExact ==
  ASSUME AnswerOK, NEW written \in {<<>>, Body}
  PROVE  /\ ExactReply(ReplyOf(written))
         /\ LastOne => HeaderOf(ReplyOf(written), "Connection", "") = "close"
<1> DEFINE r == ReplyOf(written)
           g == WithMultipartType(AllHeaders)
           h == g \o BodyHeaders
<1>1. /\ r.headers = write_headers(h) /\ r.ranges = req.ranges /\ r.whole = res.body
      /\ r.body = written /\ r.status = StatusOf
  BY DEF ReplyOf, AllHeaders
<1>2. /\ h \in Seq(SomeHeaders)
      /\ IsFirst(h, "Content-Length", Len(Body))
      /\ Len(req.ranges) = 1 /\ res.body # <<>>
            => IsFirst(h, "Content-Range", ContentRange(req.ranges[1], res.body))
      /\ Len(req.ranges) # 1 => Absent(h, "Content-Range")
  BY BodyHeadersSay
<1>3. ASSUME NEW name, NEW value, IsFirst(g, name, value) PROVE IsFirst(h, name, value)
  BY <1>3, BodyHeadersSay
<1> HIDE DEF r, g, h
<1>4. r.headers \in Seq(SomeHeaders) /\ Absent(r.headers, "EXCEPTION_WHAT")
  BY <1>1, <1>2, WrittenHeaders
<1>5. ASSUME NEW name, name # "EXCEPTION_WHAT", NEW value, IsFirst(h, name, value), NEW absent
      PROVE  HeaderOf(r, name, absent) = value
  <2>1. IsFirst(r.headers, name, value)
    BY <1>1, <1>2, <1>5, WrittenHeaders
  <2> QED
    BY ZenonT(40), <1>4, <2>1, HeaderAsked
<1>6. HeaderOf(r, "EXCEPTION_WHAT", "") = ""
  BY <1>4, HeaderAsked
<1>7. ASSUME LastOne PROVE HeaderOf(r, "Connection", "") = "close"
  <2>1. IsFirst(g, "Connection", "close")
    BY <1>7, AllHeadersSay, OtherHeaders DEF g
  <2> QED
    BY <1>3, <1>5, <2>1
<1>8. ASSUME res.body # <<>>,
             \A k \in DOMAIN req.ranges : WithinBody(req.ranges[k], Len(res.body))
      PROVE  /\ r.body \in {BodyMeant(r), <<>>}
             /\ HeaderOf(r, "Content-Length", -1) = Len(BodyMeant(r))
             /\ HeaderOf(r, "Content-Range", <<>>) = RangeMeant(r)
             /\ r.status = 400 \/ HeaderOf(r, "Content-Type", "") = TypeMeant(r)
  <2>1. /\ Body = BodyMeant(r)
        /\ Len(req.ranges) = 1
               => ContentRange(req.ranges[1], res.body) = PartOf(req.ranges[1], res.body)
    BY <1>8, BodyAsMeant DEF r
  <2>2. HeaderOf(r, "Content-Length", -1) = Len(BodyMeant(r))
    BY <1>2, <1>5, <2>1
  <2>3. HeaderOf(r, "Content-Range", <<>>) = RangeMeant(r)
    <3>1. CASE Len(req.ranges) = 1
      <4>1. RangeMeant(r) = PartOf(req.ranges[1], res.body)
        BY <1>1, <3>1 DEF RangeMeant
      <4> QED
        BY <1>2, <1>5, <1>8, <2>1, <3>1, <4>1
    <3>2. CASE Len(req.ranges) # 1
      <4>1. RangeMeant(r) = <<>>
        BY <1>1, <3>2 DEF RangeMeant
      <4>2. Absent(r.headers, "Content-Range")
        BY <1>1, <1>2, <3>2, WrittenHeaders
      <4> QED
        BY <1>4, <4>1, <4>2, HeaderAsked
    <3> QED
      BY <3>1, <3>2
  <2>4. CASE Len(req.ranges) <= 1
    <3>1. g = AllHeaders
      BY <2>4 DEF g, WithMultipartType
    <3>2. IsFirst(h, "Content-Type", "text/plain")
      BY <1>3, <1>8, <3>1, AllHeadersSay
    <3>3. TypeMeant(r) = "text/plain"
      <4>1. Len(req.ranges) \in Nat
        BY LenProperties DEF AnswerOK
      <4> QED
        BY <1>1, <2>4, <4>1 DEF TypeMeant
    <3>4. HeaderOf(r, "Content-Type", "") = "text/plain"
      BY <1>5, <3>2
    <3> QED
      BY <1>1, <2>1, <2>2, <2>3, <3>3, <3>4
  <2>5. CASE ~(Len(req.ranges) <= 1)
    <3>1. TypeMeant(r) = "multipart/byteranges"
      <4>1. Len(req.ranges) \in Nat
        BY LenProperties DEF AnswerOK
      <4> QED
        BY <1>1, <2>5, <4>1 DEF TypeMeant
    <3>2. CASE res.headers = <<Plain>>
      <4>1. IsFirst(h, "Content-Type", "multipart/byteranges")
        BY <1>3, <2>5, <3>2, TypeOfRanges DEF g
      <4>2. HeaderOf(r, "Content-Type", "") = "multipart/byteranges"
        BY <1>5, <4>1
      <4> QED
        BY <1>1, <2>1, <2>2, <2>3, <3>1, <4>2
    <3>3. CASE res.status = 400
      <4>1. r.status = 400
        BY <1>1, <3>3 DEF StatusOf
      <4> QED
        BY <1>1, <2>1, <2>2, <2>3, <4>1
    <3> QED
      BY <1>8, <3>2, <3>3 DEF AnswerOK
  <2> QED
    BY <2>4, <2>5
<1>9. ExactReply(r)
  <2>1. \/ r.whole = <<>>
        \/ \E k \in DOMAIN r.ranges : ~WithinBody(r.ranges[k], Len(r.whole))
        \/ /\ res.body # <<>>
           /\ \A k \in DOMAIN req.ranges : WithinBody(req.ranges[k], Len(res.body))
    BY <1>1
  <2> QED
    BY <1>6, <1>8, <2>1 DEF ExactReply
<1> QED
  BY <1>7, <1>9 DEF r

-----------------------------------------------------------------------------
(* What holds between two steps.                                            *)

InputOK ==
    /\ script \in Scripts /\ stream = Said(script)
    /\ sent \in 0..Len(stream) /\ taken \in 0..sent
    /\ need \in Nat

HeaderUnits == {u \in Range(stream) : IsWord(u, "header")}

InRequest == {"headers", "continue", "routing", "with length", "until close", "chunk size",
              "chunk data", "chunk end", "last chunk", "received", "dispatch"}

RequestOK ==
    /\ req = [method |-> req.method, version |-> req.version, path |-> req.path,
              params |-> req.params, headers |-> req.headers, ranges |-> req.ranges,
              body |-> req.body]
    /\ req.headers \in Seq(HeaderUnits)
    /\ req.ranges \in Seq(RangeEnds \X RangeEnds)
    /\ pc \in InRequest => req.method \in Methods

\* Until a request is answered nothing has been put into the response.
ResponseOK ==
    /\ res = [status |-> res.status, headers |-> res.headers, body |-> res.body,
              head |-> res.head]
    /\ pc \in {"reply", "reply body"} => AnswerOK
    /\ pc \notin {"reply", "reply body", "terminated"} => res = NoResponse

Ended == {"close", "closed", "terminated"}

\* Every request that is begun is one of those that are left.
CountOK == left \in Nat /\ (pc \notin Ended => left > 0)

ConnInv == InputOK /\ RequestOK /\ ResponseOK /\ CountOK

RepliesOK == replies \in Seq(Range(replies)) /\ RangesExact

-----------------------------------------------------------------------------
(* What arrives.                                                            *)

LEMMA StreamFacts ==
  ASSUME InputOK
  PROVE  /\ stream \in Seq(Range(stream)) /\ Len(stream) \in Nat
         /\ \A i \in 1..Len(stream) : stream[i] \in Range(stream) /\ WellFormed(stream[i])
         /\ \A u \in Range(stream) : WellFormed(u)
<1>1. stream \in Seq(Range(stream)) /\ \A i \in DOMAIN stream : WellFormed(stream[i])
  BY ScriptsAssumption DEF InputOK
<1>2. Len(stream) \in Nat /\ DOMAIN stream = 1..Len(stream)
  BY <1>1, LenProperties
<1>3. \A u \in Range(stream) : \E i \in DOMAIN stream : u = stream[i]
  BY DEF Range
<1>4. \A i \in DOMAIN stream : stream[i] \in Range(stream)
  BY DEF Range
<1> QED
  BY <1>1, <1>2, <1>3, <1>4

LEMMA ArrivedFacts ==
  ASSUME InputOK
  PROVE  /\ Arrived \in Seq(Range(stream)) /\ Len(Arrived) \in Nat /\ Len(Arrived) = sent - taken
         /\ Arrived = <<>> <=> Len(Arrived) = 0
<1>1. /\ stream \in Seq(Range(stream)) /\ Len(stream) \in Nat
      /\ \A i \in 1..Len(stream) : stream[i] \in Range(stream)
      /\ sent \in 0..Len(stream) /\ taken \in 0..sent
  BY StreamFacts DEF InputOK
<1>2. taken + 1 \in 1..(Len(stream) + 1) /\ sent \in 0..Len(stream)
      /\ \A i \in (taken + 1)..sent : stream[i] \in Range(stream)
  BY <1>1
<1>3. /\ SubSeq(stream, taken + 1, sent) \in Seq(Range(stream))
      /\ Len(SubSeq(stream, taken + 1, sent)) =
            IF taken + 1 <= sent THEN sent - (taken + 1) + 1 ELSE 0
  BY <1>1, <1>2, SubSeqProperties
<1>4. Len(Arrived) = sent - taken /\ Len(Arrived) \in Nat /\ Arrived \in Seq(Range(stream))
  BY <1>1, <1>3 DEF Arrived
<1> QED
  BY <1>4, EmptySeq

\* A line that has arrived begins with a unit that the client has sent.
LEMMA LineFacts ==
  ASSUME InputOK, LineLength > 0
  PROVE  LET line == SubSeq(Arrived, 1, LineLength)
         IN  /\ LineLength \in 1..Len(Arrived)
             /\ taken + LineLength \in 0..sent
             /\ line[1] \in Range(stream) /\ WellFormed(line[1])
<1> DEFINE ends == {i \in DOMAIN Arrived : Arrived[i] = LF}
<1>1. /\ Arrived \in Seq(Range(stream)) /\ Len(Arrived) \in Nat /\ Len(Arrived) = sent - taken
      /\ DOMAIN Arrived = 1..Len(Arrived)
      /\ \A i \in 1..Len(Arrived) : Arrived[i] \in Range(stream)
  BY ArrivedFacts, LenProperties, ElementOfSeq
<1>2. LineLength = IF ends # {} THEN CHOOSE i \in ends : \A k \in ends : i <= k
                   ELSE IF fin THEN Len(Arrived) ELSE 0
  BY DEF LineLength
<1>3. ends # {} => (CHOOSE i \in ends : \A k \in ends : i <= k) \in 1..Len(Arrived)
  <2> SUFFICES ASSUME ends # {}
               PROVE  (CHOOSE i \in ends : \A k \in ends : i <= k) \in 1..Len(Arrived)
    OBVIOUS
  <2>1. ends \in SUBSET Nat /\ ends \in SUBSET (1..Len(Arrived))
    BY <1>1
  <2>2. \E i \in ends : \A k \in ends : i <= k
    BY <2>1, LeastOf
  <2>3. (CHOOSE i \in ends : \A k \in ends : i <= k) \in ends
    BY <2>2
  <2> QED
    BY <2>1, <2>3
<1> HIDE DEF ends
<1>4. LineLength \in 1..Len(Arrived)
  BY <1>1, <1>2, <1>3
<1>5. taken + LineLength \in 0..sent
  BY <1>1, <1>4 DEF InputOK
<1>6. SubSeq(Arrived, 1, LineLength)[1] = Arrived[1] /\ Arrived[1] \in Range(stream)
  <2>1. 1 \in 1..(Len(Arrived) + 1) /\ LineLength \in 0..Len(Arrived) /\ 1 \in 1..Len(Arrived)
        /\ \A x \in 1..LineLength : Arrived[x] \in Range(stream)
    BY <1>1, <1>4
  <2>2. SubSeq(Arrived, 1, LineLength) = [x \in 1..(LineLength - 1 + 1) |-> Arrived[1 + x - 1]]
    BY <1>1, <1>4, <2>1, SubSeqProperties
  <2>3. 1 \in 1..(LineLength - 1 + 1) /\ 1 + 1 - 1 = 1
    BY <1>1, <1>4
  <2> QED
    BY <1>1, <2>1, <2>2, <2>3
<1> QED
  BY <1>4, <1>5, <1>6, StreamFacts

LEMMA PieceFacts ==
  ASSUME InputOK, NEW limit \in Nat
  PROVE  /\ Len(Piece(limit)) \in 0..limit
         /\ taken + Len(Piece(limit)) \in 0..sent
<1> DEFINE n == CHOOSE n \in {limit, RecvBuf, Len(Arrived)} :
                    \A k \in {limit, RecvBuf, Len(Arrived)} : n <= k
<1>1. /\ Arrived \in Seq(Range(stream)) /\ Len(Arrived) \in Nat /\ Len(Arrived) = sent - taken
      /\ RecvBuf \in Nat /\ sent \in Nat /\ taken \in Nat
      /\ \A i \in 1..Len(Arrived) : Arrived[i] \in Range(stream)
  BY ArrivedFacts, LimitsAssumption, StreamFacts, LenProperties, ElementOfSeq DEF InputOK
<1>2. \E m \in {limit, RecvBuf, Len(Arrived)} : \A k \in {limit, RecvBuf, Len(Arrived)} : m <= k
  BY <1>1
<1>3. n \in {limit, RecvBuf, Len(Arrived)} /\ \A k \in {limit, RecvBuf, Len(Arrived)} : n <= k
  BY <1>2
<1>4. Piece(limit) = SubSeq(Arrived, 1, n)
  BY DEF Piece
<1> HIDE DEF n
<1>5. n \in 0..Len(Arrived) /\ n \in 0..limit
  BY <1>1, <1>3
<1>6. Len(Piece(limit)) = n
  <2>1. 1 \in 1..(Len(Arrived) + 1) /\ n \in 0..Len(Arrived)
        /\ \A x \in 1..n : Arrived[x] \in Range(stream)
    BY <1>1, <1>5
  <2>2. Len(SubSeq(Arrived, 1, n)) = IF 1 <= n THEN n - 1 + 1 ELSE 0
    BY <1>1, <2>1, SubSeqProperties
  <2> QED
    BY <1>1, <1>4, <1>5, <2>2
<1> QED
  BY <1>1, <1>5, <1>6

\* What is asked of the headers of a request.
LEMMA HeaderFound ==
  ASSUME NEW E, NEW r, r.headers \in Seq(E), NEW name, NEW absent
  PROVE  \/ HeaderOf(r, name, absent) = absent
         \/ \E u \in E : u[2] = name /\ HeaderOf(r, name, absent) = u[3]
<1> DEFINE h == r.headers
           at == {i \in DOMAIN h : h[i][2] = name}
           first == CHOOSE i \in at : \A k \in at : i <= k
<1>1. DOMAIN h = 1..Len(h) /\ Len(h) \in Nat /\ \A i \in DOMAIN h : h[i] \in E
  BY LenProperties, ElementOfSeq
<1>2. HeaderOf(r, name, absent) = IF at = {} THEN absent ELSE h[first][3]
  BY DEF HeaderOf
<1>3. at # {} => first \in at
  <2> SUFFICES ASSUME at # {} PROVE first \in at
    OBVIOUS
  <2>1. at \in SUBSET Nat
    BY <1>1
  <2>2. \E i \in at : \A k \in at : i <= k
    BY <2>1, LeastOf
  <2> QED
    BY <2>2
<1>4. at # {} => h[first] \in E /\ h[first][2] = name
  BY <1>1, <1>3
<1> HIDE DEF at, first, h
<1> QED
  BY <1>2, <1>4

LEMMA RequestHeaders ==
  ASSUME InputOK, RequestOK
  PROVE  /\ HeaderOf(req, "Content-Length", -1) \in Nat \union {-1}
         /\ parse_range_header(HeaderOf(req, "Range", <<>>)) \in Seq(RangeEnds \X RangeEnds)
<1>1. req.headers \in Seq(HeaderUnits) /\ \A u \in HeaderUnits : IsWord(u, "header") /\ WellFormed(u)
  BY StreamFacts DEF RequestOK, HeaderUnits
<1>2. HeaderOf(req, "Content-Length", -1) \in Nat \union {-1}
  BY <1>1, HeaderFound DEF WellFormed
<1> DEFINE given == HeaderOf(req, "Range", <<>>)
           wrong == {k \in DOMAIN given : Backwards(given[k])}
           last == CHOOSE k \in wrong : \A j \in wrong : k <= j
<1>3. given \in Seq(RangeEnds \X RangeEnds)
  <2>1. given = <<>> \/ \E u \in HeaderUnits : u[2] = "Range" /\ given = u[3]
    BY <1>1, HeaderFound
  <2>2. <<>> \in Seq(RangeEnds \X RangeEnds)
    OBVIOUS
  <2> QED
    BY <1>1, <2>1, <2>2 DEF WellFormed
<1>4. parse_range_header(given) = IF wrong = {} THEN given ELSE SubSeq(given, 1, last - 1)
  BY DEF parse_range_header
<1>5. DOMAIN given = 1..Len(given) /\ Len(given) \in Nat
      /\ \A i \in 1..Len(given) : given[i] \in RangeEnds \X RangeEnds
  BY <1>3, LenProperties, ElementOfSeq
<1>6. wrong # {} => last \in DOMAIN given
  <2> SUFFICES ASSUME wrong # {} PROVE last \in DOMAIN given
    OBVIOUS
  <2>1. wrong \in SUBSET Nat
    BY <1>5
  <2>2. \E i \in wrong : \A k \in wrong : i <= k
    BY <2>1, LeastOf
  <2> QED
    BY <2>2
<1> HIDE DEF given, wrong, last
<1>7. ASSUME wrong # {} PROVE SubSeq(given, 1, last - 1) \in Seq(RangeEnds \X RangeEnds)
  <2> DEFINE SS == RangeEnds \X RangeEnds
  <2>1. 1 \in 1..(Len(given) + 1) /\ last - 1 \in 0..Len(given)
        /\ \A x \in 1..(last - 1) : given[x] \in SS
    BY <1>5, <1>6, <1>7
  <2> HIDE DEF SS
  <2>2. given \in Seq(SS)
    BY <1>3 DEF SS
  <2>3. SubSeq(given, 1, last - 1) \in Seq(SS)
    BY <2>1, <2>2, SubSeqProperties
  <2> QED
    BY <2>3 DEF SS
<1> QED
  BY <1>2, <1>3, <1>4, <1>7 DEF given

-----------------------------------------------------------------------------
(* Steps.  What a step leaves alone stays as it is.                         *)

LEMMA NothingTyped ==
  ASSUME NEW S
  PROVE  <<>> \in Seq(S)
  OBVIOUS

LEMMA InitConn == Init => ConnInv
<1> SUFFICES ASSUME Init PROVE ConnInv
  OBVIOUS
<1>1. script \in Scripts /\ stream = Said(script)
  BY DEF Init
<1>2. stream \in Seq(Range(stream))
  BY <1>1, ScriptsAssumption
<1>3. InputOK
  <2>1. Len(stream) \in Nat
    BY <1>2, LenProperties
  <2> QED
    BY <1>1, <2>1 DEF Init, InputOK
<1>4. RequestOK
  <2>1. <<>> \in Seq(HeaderUnits) /\ <<>> \in Seq(RangeEnds \X RangeEnds)
    OBVIOUS
  <2>2. req = NoRequest /\ pc \notin InRequest
    BY DEF Init, InRequest
  <2> QED
    BY <2>1, <2>2 DEF RequestOK, NoRequest
<1>5. ResponseOK
  BY DEF Init, ResponseOK, NoResponse
<1>6. CountOK
  BY LimitsAssumption DEF Init, CountOK, Ended
<1> QED
  BY <1>3, <1>4, <1>5, <1>6 DEF ConnInv

LEMMA SameInput ==
  ASSUME InputOK, UNCHANGED <<script, stream>>, sent' \in sent..Len(stream),
         taken' \in 0..sent, need' \in Nat
  PROVE  InputOK'
<1>1. Len(stream) \in Nat
  BY StreamFacts
<1> QED
  BY <1>1 DEF InputOK

LEMMA SameRequest ==
  ASSUME RequestOK, UNCHANGED <<stream, req>>, pc' \in InRequest => pc \in InRequest
  PROVE  RequestOK'
  BY DEF RequestOK, HeaderUnits

LEMMA SameResponse ==
  ASSUME ResponseOK, UNCHANGED <<req, res>>,
         pc' \in {"reply", "reply body"} <=> pc \in {"reply", "reply body"},
         pc' = "terminated" <=> pc = "terminated"
  PROVE  ResponseOK'
  BY DEF ResponseOK, AnswerOK

\* Before there is an answer the request may change.
LEMMA NoAnswerYet ==
  ASSUME ResponseOK, UNCHANGED res, pc \notin {"reply", "reply body", "terminated"},
         pc' \notin {"reply", "reply body"}
  PROVE  ResponseOK'
  BY DEF ResponseOK

\* A request is refused.
LEMMA Refusal ==
  ASSUME ResponseOK, pc \notin {"reply", "reply body", "terminated"}, NEW status, Answer(status),
         req'.ranges \in Seq(RangeEnds \X RangeEnds)
  PROVE  ResponseOK' /\ pc' = "reply"
<1>1. res = NoResponse
  BY DEF ResponseOK
<1>2. res' = [status |-> status, headers |-> <<>>, body |-> <<>>, head |-> FALSE] /\ pc' = "reply"
  BY <1>1 DEF Answer, NoResponse
<1>3. AnswerOK'
  <2>1. <<>> \in Seq(Range(<<>>))
    BY NothingTyped
  <2>2. res'.headers = <<>> /\ res'.body = <<>>
    BY <1>2
  <2>3. res'.body \in Seq(Range(res'.body))
    BY <2>1, <2>2
  <2> QED
    BY <2>2, <2>3 DEF AnswerOK
<1> QED
  BY <1>2, <1>3 DEF ResponseOK

LEMMA SameCount ==
  ASSUME CountOK, UNCHANGED left, pc \in Ended => pc' \in Ended
  PROVE  CountOK'
  BY DEF CountOK

LEMMA SendWithin ==
  ASSUME InputOK
  PROVE  SendLimit \in Int /\ SendLimit <= Len(stream)
<1>1. Len(stream) \in Nat
  BY StreamFacts
<1>2. CASE Waits = {}
  BY <1>1, <1>2 DEF SendLimit
<1>3. CASE Waits # {}
  <2> DEFINE i == CHOOSE i \in Waits : \A k \in Waits : i <= k
  <2>1. \A k \in DOMAIN script :
            k \in Nat /\ Len(Before(script, k)) + script[k].pause \in 0..Len(stream)
    BY ScriptsAssumption DEF InputOK
  <2>2. Waits \in SUBSET DOMAIN script /\ Waits \in SUBSET Nat
    BY <2>1 DEF Waits
  <2>3. \E k \in Waits : \A j \in Waits : k <= j
    BY <1>3, <2>2, LeastOf
  <2>4. i \in Waits
    BY <2>3
  <2>5. SendLimit = Len(Before(script, i)) + script[i].pause
    BY <1>3 DEF SendLimit, BeginOf
  <2> HIDE DEF i
  <2>6. SendLimit \in 0..Len(stream)
    BY <2>1, <2>2, <2>4, <2>5
  <2> QED
    BY <1>1, <2>6
<1> QED
  BY <1>2, <1>3

LEMMA ClientKeeps ==
  ASSUME ConnInv, Client
  PROVE  ConnInv'
<1> USE DEF ConnInv
<1>1. UNCHANGED <<script, stream, taken, need, req, res, pc, left>>
  BY DEF Client, Send, Close, Reset, reading
<1>2. sent' \in sent..Len(stream)
  <2>1. sent \in Int /\ Len(stream) \in Nat /\ sent <= Len(stream)
    BY StreamFacts DEF InputOK
  <2>2. CASE Send
    BY <2>1, <2>2, SendWithin DEF Send
  <2>3. CASE Close \/ Reset
    BY <2>1, <2>3 DEF Close, Reset
  <2> QED
    BY <2>2, <2>3 DEF Client
<1>3. InputOK'
  BY <1>1, <1>2, SameInput DEF InputOK
<1>4. RequestOK' /\ ResponseOK' /\ CountOK'
  BY <1>1, SameRequest, SameResponse, SameCount
<1> QED
  BY <1>3, <1>4

\* A step that only moves on.
LEMMA Onward ==
  ASSUME ConnInv, UNCHANGED <<script, stream, sent, left, req, res>>,
         taken' \in 0..sent, need' \in Nat,
         pc \notin {"reply", "reply body", "terminated"},
         pc' \notin {"reply", "reply body", "terminated"},
         pc' \in InRequest => pc \in InRequest, pc \in Ended => pc' \in Ended
  PROVE  ConnInv'
<1> USE DEF ConnInv
<1>1. InputOK'
  <2>1. InputOK /\ sent' = sent /\ UNCHANGED <<script, stream>>
    OBVIOUS
  <2>2. sent' \in sent..Len(stream)
    BY ONLY <2>1, StreamFacts DEF InputOK
  <2> QED
    BY <2>1, <2>2, SameInput
<1> QED
  BY <1>1, SameRequest, NoAnswerYet, SameCount

\* A step that ends the process.
LEMMA Dies ==
  ASSUME ConnInv, UNCHANGED <<script, stream, sent, left, req, res>>,
         taken' \in 0..sent, need' \in Nat,
         pc \notin {"reply", "reply body", "terminated"}, EndProcess
  PROVE  ConnInv'
<1> USE DEF ConnInv
<1>1. InputOK'
  <2>1. InputOK /\ sent' = sent /\ UNCHANGED <<script, stream>>
    OBVIOUS
  <2>2. sent' \in sent..Len(stream)
    BY ONLY <2>1, StreamFacts DEF InputOK
  <2> QED
    BY <2>1, <2>2, SameInput
<1>2. pc' = "terminated"
  BY DEF EndProcess
<1>3. pc' \notin InRequest /\ pc' \in Ended /\ pc' \notin {"reply", "reply body"}
  BY <1>2 DEF InRequest, Ended
<1> QED
  BY <1>1, <1>3, SameRequest, NoAnswerYet, SameCount

\* A step that refuses the request.
LEMMA Refuses ==
  ASSUME ConnInv, UNCHANGED <<script, stream, sent, left, req>>,
         taken' \in 0..sent, need' \in Nat,
         pc \notin {"reply", "reply body", "terminated"}, pc \notin Ended,
         NEW status, Answer(status)
  PROVE  ConnInv'
<1> USE DEF ConnInv
<1>1. InputOK'
  <2>1. InputOK /\ sent' = sent /\ UNCHANGED <<script, stream>>
    OBVIOUS
  <2>2. sent' \in sent..Len(stream)
    BY ONLY <2>1, StreamFacts DEF InputOK
  <2> QED
    BY <2>1, <2>2, SameInput
<1>2. ResponseOK' /\ pc' = "reply"
  BY Refusal DEF RequestOK
<1>3. RequestOK'
  <2>1. pc' \notin InRequest
    BY <1>2 DEF InRequest
  <2> QED
    BY <2>1, SameRequest
<1> QED
  BY <1>1, <1>2, <1>3, SameCount

LEMMA LoopKeeps ==
  ASSUME ConnInv, AwaitRequest \/ IdleTooLong \/ CloseSocket
  PROVE  ConnInv'
<1>1. UNCHANGED <<script, stream, sent, taken, need, left, req, res>>
  BY DEF AwaitRequest, IdleTooLong, CloseSocket, client, reading
<1>2. taken' \in 0..sent /\ need' \in Nat
  BY <1>1 DEF ConnInv, InputOK
<1>3. \/ pc = "keep_alive" /\ pc' \in {"request line", "close"}
      \/ pc = "close" /\ pc' = "closed"
  BY DEF AwaitRequest, IdleTooLong, CloseSocket
<1> QED
  BY <1>1, <1>2, <1>3, Onward DEF InRequest, Ended

LEMMA SkipHeaderKeeps ==
  ASSUME ConnInv, SkipHeader
  PROVE  ConnInv'
<1>1. UNCHANGED <<script, stream, sent, need, left, req>> /\ pc = "skip headers"
  BY DEF SkipHeader, client
<1>2. \/ LineLength > 0 /\ taken' = taken + LineLength
      \/ taken' = taken
      \/ taken' = sent
  BY DEF SkipHeader, GetLine, reading
<1>3. taken' \in 0..sent /\ need' \in Nat
  <2>1. InputOK /\ need \in Nat /\ sent \in Nat /\ taken \in 0..sent
    BY StreamFacts DEF ConnInv, InputOK
  <2>2. LineLength > 0 => taken + LineLength \in 0..sent
    BY <2>1, LineFacts
  <2>3. taken' \in 0..sent
    BY <1>2, <2>1, <2>2
  <2> QED
    BY <1>1, <2>1, <2>3
<1>4. Answer(414) \/ UNCHANGED <<pc, res>>
  BY DEF SkipHeader, GetLine
<1>5. pc \notin {"reply", "reply body", "terminated"} /\ pc \notin Ended
  BY <1>1 DEF Ended
<1>6. CASE Answer(414)
  BY <1>1, <1>3, <1>5, <1>6, Refuses
<1>7. CASE UNCHANGED <<pc, res>>
  BY <1>1, <1>3, <1>5, <1>7, Onward
<1> QED
  BY <1>4, <1>6, <1>7

LEMMA ChunkLinesKeep ==
  ASSUME ConnInv, ReadChunkEnd \/ ReadLastChunk
  PROVE  ConnInv'
<1>1. UNCHANGED <<script, stream, sent, need, left, req>> /\ pc \in {"chunk end", "last chunk"}
  BY DEF ReadChunkEnd, ReadLastChunk, client
<1>2. \/ LineLength > 0 /\ taken' = taken + LineLength
      \/ taken' = taken
      \/ taken' = sent
  BY DEF ReadChunkEnd, ReadLastChunk, GetLine, reading
<1>3. taken' \in 0..sent /\ need' \in Nat
  <2>1. InputOK /\ need \in Nat /\ sent \in Nat /\ taken \in 0..sent
    BY StreamFacts DEF ConnInv, InputOK
  <2>2. LineLength > 0 => taken + LineLength \in 0..sent
    BY <2>1, LineFacts
  <2>3. taken' \in 0..sent
    BY <1>2, <2>1, <2>2
  <2> QED
    BY <1>1, <2>1, <2>3
<1>4. \/ Answer(400)
      \/ pc' \in {"chunk size", "received"} /\ UNCHANGED res
  <2>1. CASE ReadChunkEnd
    BY <2>1 DEF ReadChunkEnd, GetLine
  <2>2. CASE ReadLastChunk
    BY <2>2 DEF ReadLastChunk, GetLine
  <2> QED
    BY <2>1, <2>2
<1>5. pc \notin {"reply", "reply body", "terminated"} /\ pc \notin Ended /\ pc \in InRequest
  BY <1>1 DEF Ended, InRequest
<1>6. CASE Answer(400)
  BY <1>1, <1>3, <1>5, <1>6, Refuses
<1>7. CASE pc' \in {"chunk size", "received"} /\ UNCHANGED res
  BY <1>1, <1>3, <1>5, <1>7, Onward
<1> QED
  BY <1>4, <1>6, <1>7

LEMMA ChunkSizeKeeps ==
  ASSUME ConnInv, ReadChunkSize
  PROVE  ConnInv'
<1>1. UNCHANGED <<script, stream, sent, left, req>> /\ pc = "chunk size"
  BY DEF ReadChunkSize, client
<1>2. \/ LineLength > 0 /\ taken' = taken + LineLength
      \/ taken' = taken
      \/ taken' = sent
  BY DEF ReadChunkSize, GetLine, reading
<1> DEFINE line == SubSeq(Arrived, 1, LineLength)
<1>3. \/ Answer(400) /\ UNCHANGED need
      \/ /\ LineLength > 0 /\ IsWord(line[1], "size") /\ need' = line[1][2]
         /\ pc' \in {"last chunk", "chunk data"} /\ UNCHANGED res
  BY DEF ReadChunkSize, GetLine
<1>4. taken' \in 0..sent
  <2>1. InputOK /\ sent \in Nat /\ taken \in 0..sent
    BY StreamFacts DEF ConnInv, InputOK
  <2>2. LineLength > 0 => taken + LineLength \in 0..sent
    BY <2>1, LineFacts
  <2> QED
    BY <1>2, <2>1, <2>2
<1>5. pc \notin {"reply", "reply body", "terminated"} /\ pc \notin Ended /\ pc \in InRequest
  BY <1>1 DEF Ended, InRequest
<1>6. CASE Answer(400) /\ UNCHANGED need
  <2>1. need' \in Nat
    BY <1>6 DEF ConnInv, InputOK
  <2> QED
    BY <1>1, <1>4, <1>5, <1>6, <2>1, Refuses
<1>7. CASE /\ LineLength > 0 /\ IsWord(line[1], "size") /\ need' = line[1][2]
           /\ pc' \in {"last chunk", "chunk data"} /\ UNCHANGED res
  <2>1. WellFormed(line[1])
    BY <1>7, LineFacts DEF ConnInv
  <2> HIDE DEF line
  <2>2. need' \in Nat
    BY <1>7, <2>1 DEF WellFormed
  <2> QED
    BY <1>1, <1>4, <1>5, <1>7, <2>2, Onward
<1> QED
  BY <1>3, <1>6, <1>7

\* What the worker has read, one line or nothing that counts.
LEMMA TakenByLine ==
  ASSUME InputOK,
         \/ LineLength > 0 /\ taken' = taken + LineLength
         \/ taken' = taken
         \/ taken' = sent
  PROVE  taken' \in 0..sent
<1>1. sent \in Nat /\ taken \in 0..sent
  BY StreamFacts DEF InputOK
<1>2. LineLength > 0 => taken + LineLength \in 0..sent
  BY LineFacts
<1> QED
  BY <1>1, <1>2

\* What becomes of the fields of a request.
LEMMA RequestChanged ==
  ASSUME NEW r,
         r = [method |-> r.method, version |-> r.version, path |-> r.path,
              params |-> r.params, headers |-> r.headers, ranges |-> r.ranges,
              body |-> r.body],
         NEW x
  PROVE  /\ [r EXCEPT !.headers = x] =
                [method |-> r.method, version |-> r.version, path |-> r.path,
                 params |-> r.params, headers |-> x, ranges |-> r.ranges, body |-> r.body]
         /\ [r EXCEPT !.ranges = x] =
                [method |-> r.method, version |-> r.version, path |-> r.path,
                 params |-> r.params, headers |-> r.headers, ranges |-> x, body |-> r.body]
         /\ [r EXCEPT !.body = x] =
                [method |-> r.method, version |-> r.version, path |-> r.path,
                 params |-> r.params, headers |-> r.headers, ranges |-> r.ranges,
                 body |-> x]
  OBVIOUS

LEMMA RequestFilled ==
  ASSUME NEW m, NEW v, NEW p, NEW q
  PROVE  [NoRequest EXCEPT !.method = m, !.version = v, !.path = p, !.params = q]
         = [method |-> m, version |-> v, path |-> p, params |-> q, headers |-> <<>>,
            ranges |-> <<>>, body |-> <<>>]
<1> DEFINE e == ""
           n == <<>>
           r0 == [method |-> e, version |-> e, path |-> n, params |-> n, headers |-> n,
                  ranges |-> n, body |-> n]
<1>0. NoRequest = r0
  BY DEF NoRequest
<1> HIDE DEF e, n
<1>1. [[method |-> e, version |-> e, path |-> n, params |-> n, headers |-> n,
           ranges |-> n, body |-> n] EXCEPT !.method = m] =
          [method |-> m, version |-> e, path |-> n, params |-> n, headers |-> n,
           ranges |-> n, body |-> n]
  OBVIOUS
<1>2. [[method |-> m, version |-> e, path |-> n, params |-> n, headers |-> n,
           ranges |-> n, body |-> n] EXCEPT !.version = v] =
          [method |-> m, version |-> v, path |-> n, params |-> n, headers |-> n,
           ranges |-> n, body |-> n]
  OBVIOUS
<1>3. [[method |-> m, version |-> v, path |-> n, params |-> n, headers |-> n,
           ranges |-> n, body |-> n] EXCEPT !.path = p] =
          [method |-> m, version |-> v, path |-> p, params |-> n, headers |-> n,
           ranges |-> n, body |-> n]
  OBVIOUS
<1>4. [[method |-> m, version |-> v, path |-> p, params |-> n, headers |-> n,
           ranges |-> n, body |-> n] EXCEPT !.params = q] =
          [method |-> m, version |-> v, path |-> p, params |-> q, headers |-> n,
           ranges |-> n, body |-> n]
  OBVIOUS
<1>5. \A s : [s EXCEPT !.method = m, !.version = v, !.path = p, !.params = q] =
             [[[[s EXCEPT !.method = m] EXCEPT !.version = v] EXCEPT !.path = p]
                 EXCEPT !.params = q]
  OBVIOUS
<1>6. [r0 EXCEPT !.method = m, !.version = v, !.path = p, !.params = q] =
             [[[[r0 EXCEPT !.method = m] EXCEPT !.version = v] EXCEPT !.path = p]
                 EXCEPT !.params = q]
  <2> HIDE DEF r0
  <2> QED BY <1>5
<1>7. [r0 EXCEPT !.method = m, !.version = v, !.path = p, !.params = q] =
          [method |-> m, version |-> v, path |-> p, params |-> q, headers |-> n,
           ranges |-> n, body |-> n]
  BY <1>1, <1>2, <1>3, <1>4, <1>6
<1> QED
  BY <1>0, <1>7, Zenon DEF n

\* A request with nothing in it but its request line.
LEMMA FreshRequest ==
  ASSUME NEW r, NEW m, NEW v, NEW p, NEW q,
         r = [method |-> m, version |-> v, path |-> p, params |-> q,
              headers |-> <<>>, ranges |-> <<>>, body |-> <<>>],
         req' = r, pc' \in InRequest => m \in Methods
  PROVE  RequestOK'
<1>1. <<>> \in Seq(HeaderUnits') /\ <<>> \in Seq(RangeEnds \X RangeEnds)
  BY NothingTyped
<1> QED
  BY <1>1 DEF RequestOK

LEMMA RequestLineKeeps ==
  ASSUME ConnInv, ReadRequestLine
  PROVE  ConnInv'
<1> DEFINE line == SubSeq(Arrived, 1, LineLength)
<1>1. UNCHANGED <<script, stream, sent, left, need>> /\ pc = "request line"
  BY DEF ReadRequestLine, client
<1>2. \/ LineLength > 0 /\ taken' = taken + LineLength
      \/ taken' = taken
      \/ taken' = sent
  BY DEF ReadRequestLine, GetLine, reading
<1>3. taken' \in 0..sent /\ need' \in Nat
  BY <1>1, <1>2, TakenByLine DEF ConnInv, InputOK
<1>4. \/ LineLength > 0 /\ GotRequestLine(line)
      \/ pc' = "close" /\ UNCHANGED <<req, res>>
  BY DEF ReadRequestLine, GetLine, HangUp
<1>5. pc \notin {"reply", "reply body", "terminated"} /\ pc \notin Ended /\ pc \notin InRequest
  BY <1>1 DEF Ended, InRequest
<1>6. CASE pc' = "close" /\ UNCHANGED <<req, res>>
  <2>1. pc' \notin InRequest
    BY <1>6 DEF InRequest
  <2> QED
    BY <1>1, <1>3, <1>5, <1>6, <2>1, Onward
<1>7. InputOK' /\ CountOK'
  <2>1. InputOK /\ sent' = sent
    BY <1>1 DEF ConnInv
  <2>2. sent' \in sent..Len(stream)
    BY ONLY <2>1, StreamFacts DEF InputOK
  <2> QED
    BY <1>1, <1>3, <1>5, <2>1, <2>2, SameInput, SameCount DEF ConnInv
<1>8. CASE req' = NoRequest /\ res' = NoResponse /\ pc' = "skip headers"
  <2>1. pc' \notin InRequest
    BY <1>8 DEF InRequest
  <2>2. RequestOK'
    BY <1>8, <2>1, FreshRequest DEF NoRequest
  <2>3. ResponseOK'
    BY <1>8 DEF ResponseOK, NoResponse
  <2> QED
    BY <1>7, <2>2, <2>3 DEF ConnInv
<1>9. CASE req' = NoRequest /\ res' = [NoResponse EXCEPT !.status = 400] /\ pc' = "reply"
  <2>1. pc' \notin InRequest
    BY <1>9 DEF InRequest
  <2>2. RequestOK'
    BY <1>9, <2>1, FreshRequest DEF NoRequest
  <2>3. res = NoResponse
    BY <1>1 DEF ConnInv, ResponseOK
  <2>4. req'.ranges \in Seq(RangeEnds \X RangeEnds)
    BY <2>2 DEF RequestOK
  <2>5. Answer(400)
    BY <1>9, <2>3 DEF Answer
  <2>6. ResponseOK'
    BY <1>5, <2>4, <2>5, Refusal DEF ConnInv
  <2> QED
    BY <1>7, <2>2, <2>6 DEF ConnInv
<1>10. CASE /\ LineLength > 0 /\ IsRequestLine(line)
            /\ req' = parse_request_line(line) /\ res' = NoResponse /\ pc' = "headers"
  <2>1. WellFormed(line[1])
    BY <1>10, LineFacts DEF ConnInv
  <2>2. IsWord(line[1], "request")
    BY <1>10 DEF IsRequestLine
  <2> HIDE DEF line
  <2>3. line[1][2].method \in Methods
    BY <2>1, <2>2 DEF WellFormed
  <2>4. parse_request_line(line) =
            [method |-> line[1][2].method, version |-> line[1][2].version,
             path |-> decode_url(line[1][2].path, FALSE),
             params |-> parse_query_text(line[1][2].query),
             headers |-> <<>>, ranges |-> <<>>, body |-> <<>>]
    BY RequestFilled DEF parse_request_line
  <2>5. RequestOK'
    BY <1>10, <2>3, <2>4, FreshRequest
  <2>6. ResponseOK'
    BY <1>10 DEF ResponseOK, NoResponse
  <2> QED
    BY <1>7, <2>5, <2>6 DEF ConnInv
<1>11. ASSUME LineLength > 0, GotRequestLine(line)
       PROVE  \/ req' = NoRequest /\ res' = NoResponse /\ pc' = "skip headers"
              \/ EndProcess /\ UNCHANGED <<req, res>>
              \/ req' = NoRequest /\ res' = [NoResponse EXCEPT !.status = 400] /\ pc' = "reply"
              \/ /\ IsRequestLine(line)
                 /\ req' = parse_request_line(line) /\ res' = NoResponse /\ pc' = "headers"
  <2> HIDE DEF line
  <2> QED
    BY <1>11 DEF GotRequestLine
<1>12. CASE EndProcess /\ UNCHANGED <<req, res>>
  BY <1>1, <1>3, <1>5, <1>12, Dies
<1> QED
  BY <1>4, <1>6, <1>8, <1>9, <1>10, <1>11, <1>12

\* A header that is added is one that has arrived.
LEMMA HeaderAdded ==
  ASSUME RequestOK, NEW u \in HeaderUnits
  PROVE  LET r == [req EXCEPT !.headers = Append(@, u)]
         IN  /\ r = [method |-> r.method, version |-> r.version, path |-> r.path,
                     params |-> r.params, headers |-> r.headers, ranges |-> r.ranges,
                     body |-> r.body]
             /\ r.headers \in Seq(HeaderUnits) /\ r.ranges = req.ranges
             /\ r.method = req.method
<1>1. [req EXCEPT !.headers = Append(req.headers, u)] =
          [method |-> req.method, version |-> req.version, path |-> req.path,
           params |-> req.params, headers |-> Append(req.headers, u), ranges |-> req.ranges,
           body |-> req.body]
  BY RequestChanged DEF RequestOK
<1>2. Append(req.headers, u) \in Seq(HeaderUnits)
  BY AppendProperties DEF RequestOK
<1>3. [req EXCEPT !.headers = Append(@, u)] = [req EXCEPT !.headers = Append(req.headers, u)]
  OBVIOUS
<1> QED
  BY <1>1, <1>2, <1>3

\* A request that changes in its headers, its ranges or its body.
LEMMA ChangedRequest ==
  ASSUME RequestOK, UNCHANGED stream, req'.method = req.method,
         req' = [method |-> req'.method, version |-> req'.version, path |-> req'.path,
                 params |-> req'.params, headers |-> req'.headers, ranges |-> req'.ranges,
                 body |-> req'.body],
         req'.headers \in Seq(HeaderUnits), req'.ranges \in Seq(RangeEnds \X RangeEnds),
         pc' \in InRequest => pc \in InRequest
  PROVE  RequestOK'
  BY DEF RequestOK, HeaderUnits

LEMMA RangesSet ==
  ASSUME RequestOK, NEW x
  PROVE  LET r == [req EXCEPT !.ranges = x]
         IN  /\ r = [method |-> r.method, version |-> r.version, path |-> r.path,
                     params |-> r.params, headers |-> r.headers, ranges |-> r.ranges,
                     body |-> r.body]
             /\ r.headers = req.headers /\ r.ranges = x /\ r.method = req.method
<1>1. [req EXCEPT !.ranges = x] =
          [method |-> req.method, version |-> req.version, path |-> req.path,
           params |-> req.params, headers |-> req.headers, ranges |-> x, body |-> req.body]
  BY RequestChanged DEF RequestOK
<1> QED
  BY <1>1

LEMMA BodyGrown ==
  ASSUME RequestOK, NEW x
  PROVE  LET r == [req EXCEPT !.body = @ \o x]
         IN  /\ r = [method |-> r.method, version |-> r.version, path |-> r.path,
                     params |-> r.params, headers |-> r.headers, ranges |-> r.ranges,
                     body |-> r.body]
             /\ r.headers = req.headers /\ r.ranges = req.ranges /\ r.method = req.method
<1> DEFINE y == req.body \o x
<1>1. [req EXCEPT !.body = @ \o x] = [req EXCEPT !.body = y]
  OBVIOUS
<1> HIDE DEF y
<1>2. [req EXCEPT !.body = y] =
          [method |-> req.method, version |-> req.version, path |-> req.path,
           params |-> req.params, headers |-> req.headers, ranges |-> req.ranges, body |-> y]
  BY RequestChanged DEF RequestOK
<1> QED
  BY <1>1, <1>2

\* While a request is read its headers, its ranges and its body change.
LEMMA ReadsOn ==
  ASSUME ConnInv, UNCHANGED <<script, stream, sent, left, res>>, RequestOK',
         taken' \in 0..sent, need' \in Nat, pc \in InRequest, pc' \in InRequest
  PROVE  ConnInv'
<1>1. InputOK'
  <2>1. InputOK /\ sent' = sent /\ UNCHANGED <<script, stream>>
    BY DEF ConnInv
  <2>2. sent' \in sent..Len(stream)
    BY ONLY <2>1, StreamFacts DEF InputOK
  <2> QED
    BY <2>1, <2>2, SameInput
<1>2. pc \notin {"reply", "reply body", "terminated"} /\ pc' \notin {"reply", "reply body"}
      /\ pc \notin Ended
  BY DEF InRequest, Ended
<1> QED
  BY <1>1, <1>2, NoAnswerYet, SameCount DEF ConnInv

LEMMA HeaderKeeps ==
  ASSUME ConnInv, ReadHeader
  PROVE  ConnInv'
<1> DEFINE line == SubSeq(Arrived, 1, LineLength)
<1>1. UNCHANGED <<script, stream, sent, left, need>> /\ pc = "headers"
  BY DEF ReadHeader, client
<1>2. \/ LineLength > 0 /\ taken' = taken + LineLength
      \/ taken' = taken
      \/ taken' = sent
  BY DEF ReadHeader, GetLine, reading
<1>3. taken' \in 0..sent /\ need' \in Nat
  BY <1>1, <1>2, TakenByLine DEF ConnInv, InputOK
<1>4. \/ LineLength > 0 /\ GotHeader(line) /\ UNCHANGED res
      \/ Answer(400) /\ UNCHANGED req
  BY DEF ReadHeader, GetLine
<1>5. pc \notin {"reply", "reply body", "terminated"} /\ pc \notin Ended /\ pc \in InRequest
  BY <1>1 DEF Ended, InRequest
<1>6. CASE Answer(400) /\ UNCHANGED req
  BY <1>1, <1>3, <1>5, <1>6, Refuses
<1>7. CASE /\ LineLength > 0 /\ UNCHANGED <<pc, res>>
           /\ req' = [req EXCEPT !.headers = Append(@, line[1])] /\ IsWord(line[1], "header")
  <2>1. line[1] \in HeaderUnits
    BY <1>7, LineFacts DEF ConnInv, HeaderUnits
  <2> HIDE DEF line
  <2>2. RequestOK'
    BY <1>1, <1>5, <1>7, <2>1, HeaderAdded, ChangedRequest DEF ConnInv, RequestOK
  <2> QED
    BY <1>1, <1>3, <1>5, <1>7, <2>2, ReadsOn
<1>8. CASE UNCHANGED <<pc, res, req>>
  BY <1>1, <1>3, <1>5, <1>8, Onward
<1>9. CASE /\ req' = [req EXCEPT !.ranges = parse_range_header(HeaderOf(req, "Range", <<>>))]
           /\ pc' \in {"continue", "routing"} /\ UNCHANGED res
  <2> DEFINE x == parse_range_header(HeaderOf(req, "Range", <<>>))
  <2>1. x \in Seq(RangeEnds \X RangeEnds)
    BY RequestHeaders DEF ConnInv
  <2> HIDE DEF x
  <2>2. pc' \in InRequest
    BY <1>9 DEF InRequest
  <2>3. req' = [req EXCEPT !.ranges = x]
    BY <1>9 DEF x
  <2>4. RequestOK'
    BY <1>1, <1>5, <2>1, <2>3, RangesSet, ChangedRequest DEF ConnInv, RequestOK
  <2> QED
    BY <1>1, <1>3, <1>5, <1>9, <2>2, <2>4, ReadsOn
<1>10. ASSUME LineLength > 0, GotHeader(line), UNCHANGED res
       PROVE  \/ /\ LineLength > 0 /\ UNCHANGED <<pc, res>>
                 /\ req' = [req EXCEPT !.headers = Append(@, line[1])]
                 /\ IsWord(line[1], "header")
              \/ UNCHANGED <<pc, res, req>>
              \/ /\ req' = [req EXCEPT !.ranges =
                               parse_range_header(HeaderOf(req, "Range", <<>>))]
                 /\ pc' \in {"continue", "routing"} /\ UNCHANGED res
              \/ EndProcess /\ UNCHANGED <<req, res>>
  <2> HIDE DEF line
  <2> QED
    BY <1>10 DEF GotHeader, parse_header, ParseRanges
<1>11. CASE EndProcess /\ UNCHANGED <<req, res>>
  BY <1>1, <1>3, <1>5, <1>11, Dies
<1> QED
  BY <1>4, <1>6, <1>7, <1>8, <1>9, <1>10, <1>11

LEMMA ContinueKeeps ==
  ASSUME ConnInv, WriteContinue
  PROVE  ConnInv'
<1>1. /\ UNCHANGED <<script, stream, sent, taken, need, left, req, res>>
      /\ pc = "continue" /\ pc' = "routing"
  BY DEF WriteContinue, Write, client, reading
<1>2. taken' \in 0..sent /\ need' \in Nat
  BY <1>1 DEF ConnInv, InputOK
<1> QED
  BY <1>1, <1>2, Onward DEF InRequest, Ended

LEMMA RoutingKeeps ==
  ASSUME ConnInv, Routing
  PROVE  ConnInv'
<1> DEFINE length == HeaderOf(req, "Content-Length", -1)
<1>1. UNCHANGED <<script, stream, sent, taken, left, req>> /\ pc = "routing"
  BY DEF Routing, client, reading
<1>2. length \in Nat \union {-1}
  BY RequestHeaders DEF ConnInv
<1>3. \/ Answer(400) /\ need' = 0
      \/ Answer(415) /\ need' = 0
      \/ read_content
      \/ pc' = "dispatch" /\ UNCHANGED <<res, need>>
  BY DEF Routing, PrepareContent, prepare_content_receiver
<1>4. taken' \in 0..sent /\ need \in Nat
  BY <1>1 DEF ConnInv, InputOK
<1>5. pc \notin {"reply", "reply body", "terminated"} /\ pc \notin Ended /\ pc \in InRequest
  BY <1>1 DEF Ended, InRequest
<1>6. CASE Answer(400) /\ need' = 0
  BY <1>1, <1>4, <1>5, <1>6, Refuses
<1>7. CASE Answer(415) /\ need' = 0
  BY <1>1, <1>4, <1>5, <1>7, Refuses
<1>8. CASE pc' = "dispatch" /\ UNCHANGED <<res, need>>
  BY <1>1, <1>4, <1>5, <1>8, Onward DEF Ended
<1>9. CASE read_content
  <2>1. /\ need' = IF ~is_chunked_transfer_encoding /\ length > 0 THEN length ELSE 0
        /\ pc' = IF is_chunked_transfer_encoding THEN "chunk size"
                 ELSE CASE length = -1 -> "until close"
                        [] length = 0  -> "received"
                        [] length > 0  -> "with length"
        /\ UNCHANGED res
    BY <1>9 DEF read_content
  <2> HIDE DEF length
  <2>2. length = -1 \/ length = 0 \/ length > 0
    BY <1>2
  <2>3. pc' \in {"chunk size", "until close", "received", "with length"}
    BY <2>1, <2>2
  <2>4. \/ need' = 0
        \/ need' = length /\ length > 0
    <3>1. CASE ~is_chunked_transfer_encoding /\ length > 0
      BY <2>1, <3>1
    <3>2. CASE ~(~is_chunked_transfer_encoding /\ length > 0)
      BY <2>1, <3>2
    <3> QED
      BY <3>1, <3>2
  <2>5. need' \in Nat
    BY ONLY <1>2, <2>4
  <2> QED
    BY <1>1, <1>4, <1>5, <2>1, <2>3, <2>5, Onward DEF Ended
<1> QED
  BY <1>3, <1>6, <1>7, <1>8, <1>9

\* What Receive does with a piece: the body grows, or the parser is called.
LEMMA ReceiveKeeps ==
  ASSUME ConnInv, UNCHANGED <<script, stream, sent, left>>,
         taken' \in 0..sent, need' \in Nat,
         pc \in InRequest, NEW piece, NEW onward \in InRequest, Receive(piece, onward)
  PROVE  ConnInv'
<1>1. pc \notin {"reply", "reply body", "terminated"} /\ pc \notin Ended
  BY DEF InRequest, Ended
<1>2. \/ Answer(400) /\ UNCHANGED req
      \/ pc' = onward /\ UNCHANGED <<res, req>>
      \/ req' = [req EXCEPT !.body = @ \o piece] /\ pc' = onward /\ UNCHANGED res
  BY DEF Receive
<1>3. CASE Answer(400) /\ UNCHANGED req
  BY <1>1, <1>3, Refuses
<1>4. CASE pc' = onward /\ UNCHANGED <<res, req>>
  <2>1. RequestOK'
    BY <1>4, SameRequest DEF ConnInv
  <2> QED
    BY <1>4, <2>1, ReadsOn
<1>5. CASE req' = [req EXCEPT !.body = @ \o piece] /\ pc' = onward /\ UNCHANGED res
  <2>1. RequestOK'
    BY <1>5, BodyGrown, ChangedRequest DEF ConnInv, RequestOK
  <2> QED
    BY <1>5, <2>1, ReadsOn
<1> QED
  BY <1>2, <1>3, <1>4, <1>5

LEMMA ReadWithLengthKeeps ==
  ASSUME ConnInv, ReadWithLength
  PROVE  ConnInv'
<1> DEFINE piece == Piece(need)
           onward == IF Len(piece) < need THEN pc
                     ELSE IF pc = "with length" THEN "received" ELSE "chunk end"
<1>1. UNCHANGED <<script, stream, sent, left>> /\ pc \in {"with length", "chunk data"}
  BY DEF ReadWithLength, client
<1>2. \/ taken' = taken + Len(piece) /\ need' = need - Len(piece) /\ Receive(piece, onward)
      \/ taken' = taken /\ Answer(400) /\ UNCHANGED <<req, need>>
  BY ZenonT(60) DEF ReadWithLength, Read, NotReceived, reading
<1>3. /\ InputOK /\ need \in Nat /\ taken \in 0..sent /\ Len(piece) \in 0..need
      /\ taken + Len(piece) \in 0..sent
  BY PieceFacts DEF ConnInv, InputOK
<1>4. pc \in InRequest /\ onward \in InRequest
  BY <1>1 DEF InRequest
<1>5. pc \notin {"reply", "reply body", "terminated"} /\ pc \notin Ended
  BY <1>1 DEF Ended
<1> HIDE DEF piece, onward
<1>6. CASE taken' = taken + Len(piece) /\ need' = need - Len(piece) /\ Receive(piece, onward)
  <2>1. taken' \in 0..sent /\ need' \in Nat
    BY ONLY <1>3, <1>6
  <2> QED
    BY <1>1, <1>4, <1>6, <2>1, ReceiveKeeps
<1>7. CASE taken' = taken /\ Answer(400) /\ UNCHANGED <<req, need>>
  BY <1>1, <1>3, <1>5, <1>7, Refuses
<1> QED
  BY <1>2, <1>6, <1>7

LEMMA ReadUntilCloseKeeps ==
  ASSUME ConnInv, ReadUntilClose
  PROVE  ConnInv'
<1> DEFINE piece == Piece(RecvBuf)
<1>1. UNCHANGED <<script, stream, sent, left, need>> /\ pc = "until close"
  BY DEF ReadUntilClose, client
<1>2. \/ taken' = taken + Len(piece) /\ Receive(piece, pc)
      \/ taken' = taken /\ pc' = "received" /\ UNCHANGED <<req, res>>
      \/ taken' = taken /\ Answer(400) /\ UNCHANGED req
  BY DEF ReadUntilClose, Read, NotReceived, reading
<1>3. /\ InputOK /\ need' \in Nat /\ taken \in 0..sent /\ RecvBuf \in Nat
      /\ taken + Len(piece) \in 0..sent
  BY <1>1, PieceFacts, LimitsAssumption DEF ConnInv, InputOK
<1>4. pc \in InRequest /\ pc \notin {"reply", "reply body", "terminated"} /\ pc \notin Ended
  BY <1>1 DEF InRequest, Ended
<1> HIDE DEF piece
<1>5. CASE taken' = taken + Len(piece) /\ Receive(piece, pc)
  BY <1>1, <1>3, <1>4, <1>5, ReceiveKeeps
<1>6. CASE taken' = taken /\ pc' = "received" /\ UNCHANGED <<req, res>>
  BY <1>1, <1>3, <1>4, <1>6, Onward DEF Ended
<1>7. CASE taken' = taken /\ Answer(400) /\ UNCHANGED req
  BY <1>1, <1>3, <1>4, <1>7, Refuses
<1> QED
  BY <1>2, <1>5, <1>6, <1>7

LEMMA ContentReadKeeps ==
  ASSUME ConnInv, ContentRead
  PROVE  ConnInv'
<1>1. UNCHANGED <<script, stream, sent, taken, need, left, req>> /\ pc = "received"
  BY DEF ContentRead, client, reading
<1>2. taken' \in 0..sent /\ need' \in Nat
  BY <1>1 DEF ConnInv, InputOK
<1>3. pc \in InRequest /\ pc \notin {"reply", "reply body", "terminated"} /\ pc \notin Ended
  BY <1>1 DEF InRequest, Ended
<1>4. \/ Answer(400)
      \/ pc' = "dispatch" /\ UNCHANGED res
      \/ EndProcess /\ UNCHANGED res
  BY DEF ContentRead
<1>5. CASE Answer(400)
  BY <1>1, <1>2, <1>3, <1>5, Refuses
<1>6. CASE pc' = "dispatch" /\ UNCHANGED res
  BY <1>1, <1>2, <1>3, <1>6, Onward DEF Ended
<1>7. CASE EndProcess /\ UNCHANGED res
  BY <1>1, <1>2, <1>3, <1>7, Dies
<1> QED
  BY <1>4, <1>5, <1>6, <1>7

\* What a handler makes of a response.
LEMMA ResponseChanged ==
  ASSUME NEW s, NEW h, NEW b, NEW d, NEW r,
         r = [status |-> s, headers |-> h, body |-> b, head |-> d], NEW x
  PROVE  /\ [r EXCEPT !.status = x] = [status |-> x, headers |-> h, body |-> b, head |-> d]
         /\ [r EXCEPT !.headers = x] = [status |-> s, headers |-> x, body |-> b, head |-> d]
         /\ [r EXCEPT !.body = x] = [status |-> s, headers |-> h, body |-> x, head |-> d]
         /\ [r EXCEPT !.head = x] = [status |-> s, headers |-> h, body |-> b, head |-> x]
         /\ r.headers = h
  OBVIOUS

LEMMA ContentSet ==
  ASSUME NEW s, NEW h, NEW b, NEW d, NEW r,
         r = [status |-> s, headers |-> h, body |-> b, head |-> d], NEW text
  PROVE  set_content(r, text) =
             [status |-> s, headers |-> Append(h, Plain), body |-> text, head |-> d]
<1> DEFINE c == [r EXCEPT !.body = text]
           name == "Content-Type"
           value == "text/plain"
<1>1. c = [status |-> s, headers |-> h, body |-> text, head |-> d]
  OBVIOUS
<1>2. set_content(r, text) = set_header(c, name, value) /\ Plain = <<"header", name, value>>
  BY DEF set_content, Plain
<1> HIDE DEF c, name, value
<1>3. set_header(c, name, value) =
          [status |-> s, headers |-> Append(h, <<"header", name, value>>), body |-> text,
           head |-> d]
  <2> DEFINE x == Append(h, <<"header", name, value>>)
  <2>1. c.headers = h
    BY <1>1
  <2>2. set_header(c, name, value) = [c EXCEPT !.headers = x]
    BY <2>1 DEF set_header
  <2> HIDE DEF x
  <2>3. [c EXCEPT !.headers = x] = [status |-> s, headers |-> x, body |-> text, head |-> d]
    BY ONLY <1>1
  <2> QED
    BY <2>2, <2>3 DEF x
<1> QED
  BY <1>2, <1>3

LEMMA FirstHeaders ==
  ASSUME NEW x
  PROVE  Append(<<>>, x) = <<x>> /\ Append(<<x>>, x) = <<x, x>>
<1> DEFINE S == {x}
<1>1. <<>> \in Seq(S) /\ <<x>> \in Seq(S) /\ <<x, x>> \in Seq(S) /\ x \in S
  OBVIOUS
<1>2. /\ Append(<<>>, x) \in Seq(S) /\ Len(Append(<<>>, x)) = 1
      /\ Append(<<>>, x)[1] = x
  BY <1>1, AppendProperties
<1>3. /\ Append(<<x>>, x) \in Seq(S) /\ Len(Append(<<x>>, x)) = 2
      /\ Append(<<x>>, x)[1] = x /\ Append(<<x>>, x)[2] = x
  BY <1>1, AppendProperties
<1>4. Len(<<x>>) = 1 /\ <<x>>[1] = x /\ Len(<<x, x>>) = 2 /\ <<x, x>>[1] = x /\ <<x, x>>[2] = x
  OBVIOUS
<1> HIDE DEF S
<1>5. Append(<<>>, x) = <<x>>
  <2>1. \A i \in 1..Len(<<x>>) : Append(<<>>, x)[i] = <<x>>[i]
    BY <1>2, <1>4
  <2> QED
    BY <1>1, <1>2, <1>4, <2>1, SeqEqual
<1>6. Append(<<x>>, x) = <<x, x>>
  <2>1. \A i \in 1..Len(<<x, x>>) : Append(<<x>>, x)[i] = <<x, x>>[i]
    <3>1. \A i \in 1..2 : i = 1 \/ i = 2
      OBVIOUS
    <3> QED
      BY <1>3, <1>4, <3>1
  <2> QED
    BY <1>1, <1>3, <1>4, <2>1, SeqEqual
<1> QED
  BY <1>5, <1>6

\* The responses that handlers leave.
Response(status, headers, body) ==
    [status |-> status, headers |-> headers, body |-> body, head |-> FALSE]

LEMMA HandlersSay ==
  ASSUME res = NoResponse, NEW text, NEW other, NEW status
  PROVE  /\ set_content(res, text) = Response(-1, <<Plain>>, text)
         /\ Failed(status, text) = Response(status, <<Plain>>, text)
         /\ CaughtException = Response(500, <<What>>, <<>>)
         /\ set_content(Failed(status, text), other) = Response(status, <<Plain, Plain>>, other)
         /\ [res EXCEPT !.status = status] = Response(status, <<>>, <<>>)
<1> DEFINE none == -1
           empty == <<>>
           no == FALSE
           Made(s, h, b) == [status |-> s, headers |-> h, body |-> b, head |-> no]
           f == Failed(status, text)
<1>0. \A s, h, b : Response(s, h, b) = Made(s, h, b)
  BY DEF Response
<1>1. /\ Append(empty, Plain) = <<Plain>> /\ Append(empty, What) = <<What>>
      /\ Append(<<Plain>>, Plain) = <<Plain, Plain>>
  BY FirstHeaders
<1>2. res = [status |-> none, headers |-> empty, body |-> empty, head |-> no]
  BY DEF NoResponse
<1> HIDE DEF none, empty, no
<1>3. set_content(res, text) = Made(none, <<Plain>>, text)
  BY <1>1, <1>2, ContentSet
<1>4. f = Made(status, <<Plain>>, text)
  <2> DEFINE c == set_content(res, text)
  <2>1. f = [c EXCEPT !.status = status] /\ c = Made(none, <<Plain>>, text)
    BY <1>3 DEF Failed
  <2> HIDE DEF c, f
  <2> QED
    BY <2>1, ResponseChanged
<1>5. set_content(f, other) = Made(status, <<Plain, Plain>>, other)
  <2> HIDE DEF f
  <2> QED
    BY <1>1, <1>4, ContentSet
<1>6. [res EXCEPT !.status = status] = Made(status, empty, empty)
  BY ONLY <1>2
<1>7. CaughtException = Made(500, <<What>>, empty)
  <2> DEFINE c == [res EXCEPT !.status = 500]
  <2>1. c = Made(500, empty, empty)
    BY ONLY <1>2
  <2> DEFINE name == "EXCEPTION_WHAT"
             value == "what"
  <2>2. CaughtException = set_header(c, name, value) /\ What = <<"header", name, value>>
    BY DEF CaughtException, What
  <2> DEFINE x == Append(empty, <<"header", name, value>>)
  <2>3. c.headers = empty
    BY <2>1
  <2>4. set_header(c, name, value) = [c EXCEPT !.headers = x]
    BY <2>3 DEF set_header
  <2> HIDE DEF c, name, value, x
  <2>5. [c EXCEPT !.headers = x] = Made(500, x, empty)
    BY ONLY <2>1
  <2>6. x = <<What>>
    BY <1>1, <2>2 DEF x
  <2> QED
    BY <2>2, <2>4, <2>5, <2>6
<1> HIDE DEF Made
<1> QED
  BY <1>0, <1>3, <1>4, <1>5, <1>6, <1>7 DEF none, empty

LEMMA DispatchAnswers ==
  ASSUME ConnInv, Dispatch
  PROVE  \/ \E status \in {400, 404} : res' = Response(status, <<>>, <<>>)
         \/ res' = Response(500, <<What>>, <<>>)
         \/ \E status \in {-1, 400, 500}, k \in {"imported", "rows", "error"} :
                res' = Response(status, <<Plain>>, Texts[k])
         \/ res' = Response(400, <<Plain, Plain>>, Texts["rows"])
<1>1. res = NoResponse /\ req.method \in Methods
  BY DEF Dispatch, ConnInv, ResponseOK, RequestOK, InRequest
<1>2. \/ processQueryRequest
      \/ processImportRequest
      \/ Refused(404)
      \/ Refused(400)
  <2> USE DEF Dispatch
  <2>1. CASE req.method \in {"GET", "HEAD"}
    BY <2>1
  <2>2. CASE req.method = "POST"
    BY <2>2
  <2>3. CASE req.method \in {"PUT", "DELETE", "OPTIONS", "PATCH"}
    BY <2>3
  <2>4. CASE req.method \in {"CONNECT", "TRACE", "PRI"}
    BY <2>4
  <2> QED
    BY <1>1, <2>1, <2>2, <2>3, <2>4 DEF Methods
<1>3. CASE processQueryRequest
  <2>1. \/ res' = Failed(400, Texts["error"])
        \/ res' = set_content(res, Texts["rows"])
        \/ res' = Failed(500, Texts["error"])
        \/ res' = CaughtException
        \/ res' = set_content(Failed(400, Texts["error"]), Texts["rows"])
    BY <1>3 DEF processQueryRequest
  <2>2. ASSUME NEW s, NEW t
        PROVE  Failed(s, t) = Response(s, <<Plain>>, t)
    BY <1>1, HandlersSay, ZenonT(60)
  <2>3. /\ Failed(400, Texts["error"]) = Response(400, <<Plain>>, Texts["error"])
        /\ Failed(500, Texts["error"]) = Response(500, <<Plain>>, Texts["error"])
    BY <2>2
  <2>4. set_content(Failed(400, Texts["error"]), Texts["rows"]) =
            Response(400, <<Plain, Plain>>, Texts["rows"])
    BY <1>1, HandlersSay
  <2>5. /\ set_content(res, Texts["rows"]) = Response(-1, <<Plain>>, Texts["rows"])
        /\ CaughtException = Response(500, <<What>>, <<>>)
    BY <1>1, HandlersSay
  <2> QED
    BY <2>1, <2>3, <2>4, <2>5
<1>4. CASE processImportRequest
  <2>1. \/ res' = set_content(res, Texts["imported"])
        \/ res' = CaughtException
    BY <1>4 DEF processImportRequest
  <2>2. /\ set_content(res, Texts["imported"]) = Response(-1, <<Plain>>, Texts["imported"])
        /\ CaughtException = Response(500, <<What>>, <<>>)
    BY <1>1, HandlersSay
  <2> QED
    BY <2>1, <2>2
<1>5. CASE Refused(404) \/ Refused(400)
  <2>1. /\ [res EXCEPT !.status = 404] = Response(404, <<>>, <<>>)
        /\ [res EXCEPT !.status = 400] = Response(400, <<>>, <<>>)
    BY <1>1, HandlersSay, ZenonT(60)
  <2> QED
    BY <1>5, <2>1 DEF Refused
<1> QED
  BY <1>2, <1>3, <1>4, <1>5

LEMMA DispatchKeeps ==
  ASSUME ConnInv, Dispatch
  PROVE  ConnInv'
<1>1. /\ UNCHANGED <<script, stream, sent, taken, need, left, req>>
      /\ pc = "dispatch" /\ pc' = "reply"
  BY DEF Dispatch, client, reading
<1>2. InputOK'
  <2>1. InputOK /\ sent' = sent /\ UNCHANGED <<script, stream>>
    BY <1>1 DEF ConnInv
  <2>2. sent' \in sent..Len(stream)
    BY ONLY <2>1, StreamFacts DEF InputOK
  <2>3. taken' \in 0..sent /\ need' \in Nat
    BY <1>1 DEF ConnInv, InputOK
  <2> QED
    BY <2>1, <2>2, <2>3, SameInput
<1>3. RequestOK' /\ CountOK'
  BY <1>1, SameRequest, SameCount DEF ConnInv, InRequest, Ended
<1>4. \E status, headers, body :
          /\ res' = Response(status, headers, body)
          /\ \/ headers \in {<<>>, <<What>>} /\ body = <<>>
             \/ headers = <<Plain>>
             \/ headers = <<Plain, Plain>> /\ status = 400
          /\ body = <<>> \/ \E k \in {"imported", "rows", "error"} : body = Texts[k]
  BY DispatchAnswers
<1>5. PICK status, headers, body :
          /\ res' = Response(status, headers, body)
          /\ \/ headers \in {<<>>, <<What>>} /\ body = <<>>
             \/ headers = <<Plain>>
             \/ headers = <<Plain, Plain>> /\ status = 400
          /\ body = <<>> \/ \E k \in {"imported", "rows", "error"} : body = Texts[k]
  BY <1>4
<1>6. body \in Seq(Range(body))
  <2>1. CASE body = <<>>
    BY <2>1, NothingTyped
  <2>2. CASE \E k \in {"imported", "rows", "error"} : body = Texts[k]
    BY <2>2, TextsAssumption
  <2> QED
    BY <1>5, <2>1, <2>2
<1>7. res' = [status |-> status, headers |-> headers, body |-> body, head |-> FALSE]
  BY <1>5 DEF Response
<1>8. AnswerOK'
  <2>1. req'.ranges \in Seq(RangeEnds \X RangeEnds)
    BY <1>3 DEF RequestOK
  <2>2. res'.headers = headers /\ res'.body = body /\ res'.status = status
    BY <1>7
  <2> QED
    BY <1>5, <1>6, <2>1, <2>2 DEF AnswerOK
<1>9. ResponseOK'
  BY <1>1, <1>7, <1>8 DEF ResponseOK
<1> QED
  BY <1>2, <1>3, <1>9 DEF ConnInv

LEMMA WriteHeadKeeps ==
  ASSUME ConnInv, WriteHead
  PROVE  ConnInv'
<1>1. /\ UNCHANGED <<script, stream, sent, taken, need, left, req>>
      /\ pc = "reply" /\ pc' = "reply body"
  BY DEF WriteHead, Write, client, reading
<1>2. InputOK'
  <2>1. InputOK /\ sent' = sent /\ UNCHANGED <<script, stream>>
    BY <1>1 DEF ConnInv
  <2>2. sent' \in sent..Len(stream)
    BY ONLY <2>1, StreamFacts DEF InputOK
  <2>3. taken' \in 0..sent /\ need' \in Nat
    BY <1>1 DEF ConnInv, InputOK
  <2> QED
    BY <2>1, <2>2, <2>3, SameInput
<1>3. RequestOK' /\ CountOK'
  BY <1>1, SameRequest, SameCount DEF ConnInv, InRequest, Ended
<1>4. \E done : res' = [res EXCEPT !.head = done]
  BY DEF WriteHead, Write
<1>5. PICK done : res' = [res EXCEPT !.head = done]
  BY <1>4
<1>6. res = [status |-> res.status, headers |-> res.headers, body |-> res.body,
             head |-> res.head]
  BY DEF ConnInv, ResponseOK
<1>7. res' = [status |-> res.status, headers |-> res.headers, body |-> res.body, head |-> done]
  BY <1>5, <1>6, ResponseChanged
<1>8. AnswerOK'
  <2>1. res'.headers = res.headers /\ res'.body = res.body /\ res'.status = res.status
    BY <1>7
  <2>2. AnswerOK
    BY <1>1 DEF ConnInv, ResponseOK
  <2> QED
    BY <1>1, <2>1, <2>2 DEF AnswerOK
<1>9. ResponseOK'
  BY <1>1, <1>7, <1>8 DEF ResponseOK
<1> QED
  BY <1>2, <1>3, <1>9 DEF ConnInv

LEMMA WriteBodyKeeps ==
  ASSUME ConnInv, WriteBody
  PROVE  ConnInv'
<1>1. /\ UNCHANGED <<script, stream, sent, taken>> /\ need' = 0
      /\ req' = NoRequest /\ res' = NoResponse
      /\ pc = "reply body" /\ pc' = IF left = 1 THEN "close" ELSE "keep_alive"
      /\ left' = left - 1
  BY DEF WriteBody, Write, Forget, client, reading
<1>2. InputOK'
  <2>1. InputOK /\ sent' = sent /\ UNCHANGED <<script, stream>>
    BY <1>1 DEF ConnInv
  <2>2. sent' \in sent..Len(stream)
    BY ONLY <2>1, StreamFacts DEF InputOK
  <2>3. taken' \in 0..sent /\ need' \in Nat
    BY <1>1 DEF ConnInv, InputOK
  <2> QED
    BY <2>1, <2>2, <2>3, SameInput
<1>3. RequestOK'
  <2>1. pc' \notin InRequest
    BY <1>1 DEF InRequest
  <2> QED
    BY <1>1, <2>1, FreshRequest DEF NoRequest
<1>4. ResponseOK'
  BY <1>1 DEF ResponseOK, NoResponse
<1>5. CountOK'
  <2>1. left \in Nat /\ left > 0
    BY <1>1 DEF ConnInv, CountOK, Ended
  <2>2. left - 1 \in Nat /\ (left # 1 => left - 1 > 0)
    BY <2>1
  <2>3. left = 1 => pc' = "close"
    BY <1>1
  <2> QED
    BY <1>1, <2>2, <2>3 DEF CountOK, Ended
<1> QED
  BY <1>2, <1>3, <1>4, <1>5 DEF ConnInv

LEMMA TerminateKeeps ==
  ASSUME ConnInv, Terminate
  PROVE  ConnInv'
<1>1. /\ UNCHANGED <<script, stream, sent, taken, need, left, req, res>>
      /\ pc = "reply" /\ pc' = "terminated"
  BY DEF Terminate, EndProcess, client, reading
<1>2. InputOK'
  <2>1. InputOK /\ sent' = sent /\ UNCHANGED <<script, stream>>
    BY <1>1 DEF ConnInv
  <2>2. sent' \in sent..Len(stream)
    BY ONLY <2>1, StreamFacts DEF InputOK
  <2>3. taken' \in 0..sent /\ need' \in Nat
    BY <1>1 DEF ConnInv, InputOK
  <2> QED
    BY <2>1, <2>2, <2>3, SameInput
<1>3. RequestOK' /\ CountOK'
  BY <1>1, SameRequest, SameCount DEF ConnInv, InRequest, Ended
<1>4. ResponseOK'
  BY <1>1 DEF ConnInv, ResponseOK
<1> QED
  BY <1>2, <1>3, <1>4 DEF ConnInv

LEMMA NothingKeeps ==
  ASSUME ConnInv, UNCHANGED vars
  PROVE  ConnInv'
<1>1. UNCHANGED <<script, stream, sent, taken, need, left, req, res, pc>>
  BY DEF vars, client, reading
<1>2. InputOK'
  BY <1>1 DEF ConnInv, InputOK
<1>3. RequestOK' /\ CountOK' /\ ResponseOK'
  BY <1>1, SameRequest, SameCount, SameResponse DEF ConnInv
<1> QED
  BY <1>2, <1>3 DEF ConnInv

LEMMA WorkerKeeps ==
  ASSUME ConnInv, Worker
  PROVE  ConnInv'
<1>1. CASE AwaitRequest \/ IdleTooLong \/ CloseSocket
  BY <1>1, LoopKeeps
<1>2. CASE ReadRequestLine
  BY <1>2, RequestLineKeeps
<1>3. CASE SkipHeader
  BY <1>3, SkipHeaderKeeps
<1>4. CASE ReadHeader
  BY <1>4, HeaderKeeps
<1>5. CASE WriteContinue
  BY <1>5, ContinueKeeps
<1>6. CASE Routing
  BY <1>6, RoutingKeeps
<1>7. CASE ReadWithLength
  BY <1>7, ReadWithLengthKeeps
<1>8. CASE ReadUntilClose
  BY <1>8, ReadUntilCloseKeeps
<1>9. CASE ReadChunkSize
  BY <1>9, ChunkSizeKeeps
<1>10. CASE ReadChunkEnd \/ ReadLastChunk
  BY <1>10, ChunkLinesKeep
<1>11. CASE ContentRead
  BY <1>11, ContentReadKeeps
<1>12. CASE Dispatch
  BY <1>12, DispatchKeeps
<1>13. CASE WriteHead
  BY <1>13, WriteHeadKeeps
<1>14. CASE WriteBody
  BY <1>14, WriteBodyKeeps
<1>15. CASE Terminate
  BY <1>15, TerminateKeeps
<1> QED
  BY <1>1, <1>2, <1>3, <1>4, <1>5, <1>6, <1>7, <1>8, <1>9, <1>10, <1>11, <1>12, <1>13, <1>14,
     <1>15 DEF Worker

\* What the worker knows of its connection between two steps: it has read no more than was
\* sent, the headers of the request are among what was sent, the response is empty until
\* the request is answered, and a request that is begun is one of those that are left.
THEOREM ConnectionInvariant == Spec => []ConnInv
<1>1. ConnInv /\ [Next]_vars => ConnInv'
  BY ClientKeeps, WorkerKeeps, NothingKeeps DEF Next
<1> QED
  BY <1>1, InitConn, PTL DEF Spec

-----------------------------------------------------------------------------
(* The replies.                                                             *)

LEMMA OnlyWriteBodyReplies ==
  ASSUME [Next]_vars
  PROVE  UNCHANGED replies \/ WriteBody
<1>1. CASE Client
  BY <1>1 DEF Client, Send, Close, Reset, made
<1>2. CASE AwaitRequest \/ IdleTooLong \/ CloseSocket \/ ReadRequestLine \/ SkipHeader \/ ReadHeader
  BY <1>2 DEF AwaitRequest, IdleTooLong, CloseSocket, ReadRequestLine, SkipHeader, ReadHeader, made
<1>3. CASE WriteContinue \/ Routing \/ ReadWithLength \/ ReadUntilClose
  BY <1>3 DEF WriteContinue, Routing, ReadWithLength, ReadUntilClose, made
<1>4. CASE ReadChunkSize \/ ReadChunkEnd \/ ReadLastChunk \/ ContentRead
  BY <1>4 DEF ReadChunkSize, ReadChunkEnd, ReadLastChunk, ContentRead, made
<1>5. CASE Dispatch \/ WriteHead \/ Terminate
  BY <1>5 DEF Dispatch, WriteHead, Terminate, made
<1>6. CASE UNCHANGED vars
  BY <1>6 DEF vars, made
<1> QED
  BY <1>1, <1>2, <1>3, <1>4, <1>5, <1>6 DEF Next, Worker

LEMMA ReplyWritten ==
  ASSUME ConnInv, WriteBody
  PROVE  \E written \in {<<>>, Body} :
             /\ replies' = Append(replies, ReplyOf(written))
             /\ ExactReply(ReplyOf(written))
             /\ left = 1 => HeaderOf(ReplyOf(written), "Connection", "") = "close"
<1>1. \E written \in {<<>>, Body} : replies' = Append(replies, ReplyOf(written))
  BY DEF WriteBody, Write
<1>2. AnswerOK
  BY DEF WriteBody, ConnInv, ResponseOK
<1>3. ASSUME NEW written \in {<<>>, Body}
      PROVE  /\ ExactReply(ReplyOf(written))
             /\ left = 1 => HeaderOf(ReplyOf(written), "Connection", "") = "close"
  BY <1>2, <1>3, ReplyIsExact DEF LastOne
<1> QED
  BY <1>1, <1>3

LEMMA ReplyAppended ==
  ASSUME NEW s, s \in Seq(Range(s)), NEW x
  PROVE  /\ Append(s, x) \in Seq(Range(Append(s, x)))
         /\ Len(Append(s, x)) = Len(s) + 1
         /\ DOMAIN Append(s, x) = 1..(Len(s) + 1) /\ DOMAIN s = 1..Len(s) /\ Len(s) \in Nat
         /\ \A j \in 1..Len(s) : Append(s, x)[j] = s[j]
         /\ Append(s, x)[Len(s) + 1] = x
<1> DEFINE S == Range(s) \union {x}
           t == Append(s, x)
<1>1. s \in Seq(S)
  <2>1. /\ DOMAIN s = 1..Len(s) /\ Len(s) \in Nat
        /\ \A j \in 1..Len(s) : s[j] \in S
    BY LenProperties, ElementOfSeq
  <2> QED
    BY <2>1, LenProperties
<1>2. /\ t \in Seq(S) /\ Len(t) = Len(s) + 1 /\ \A j \in 1..Len(s) : t[j] = s[j]
      /\ t[Len(s) + 1] = x
  BY <1>1, AppendProperties
<1> HIDE DEF t
<1>3. /\ DOMAIN s = 1..Len(s) /\ Len(s) \in Nat /\ DOMAIN t = 1..Len(t)
      /\ t = [j \in 1..Len(t) |-> t[j]]
  BY <1>1, <1>2, LenProperties
<1>4. t \in Seq(Range(t))
  <2>1. \A j \in 1..Len(t) : t[j] \in Range(t)
    BY <1>3 DEF Range
  <2> HIDE DEF S
  <2>2. Len(t) \in Nat
    BY <1>2, <1>3
  <2> QED
    BY <1>3, <2>1, <2>2
<1> QED
  BY <1>2, <1>3, <1>4 DEF t

LEMMA RepliesKeep ==
  ASSUME ConnInv, RepliesOK, [Next]_vars
  PROVE  RepliesOK'
<1>1. CASE UNCHANGED replies
  BY <1>1 DEF RepliesOK, RangesExact
<1>2. CASE WriteBody
  <2>1. PICK written \in {<<>>, Body} :
            replies' = Append(replies, ReplyOf(written)) /\ ExactReply(ReplyOf(written))
    BY <1>2, ReplyWritten
  <2> DEFINE r == ReplyOf(written)
  <2>2. replies' = Append(replies, r) /\ ExactReply(r) /\ replies \in Seq(Range(replies))
    BY <2>1 DEF RepliesOK
  <2> HIDE DEF r
  <2>3. /\ replies' \in Seq(Range(replies'))
        /\ DOMAIN replies' = 1..(Len(replies) + 1) /\ DOMAIN replies = 1..Len(replies)
        /\ Len(replies) \in Nat
        /\ \A j \in 1..Len(replies) : replies'[j] = replies[j]
        /\ replies'[Len(replies) + 1] = r
    BY <2>2, ReplyAppended
  <2>4. \A j \in 1..Len(replies) : ExactReply(replies[j])
    BY <2>3 DEF RepliesOK, RangesExact
  <2>5. \A j \in 1..(Len(replies) + 1) : j \in 1..Len(replies) \/ j = Len(replies) + 1
    BY <2>3
  <2>6. \A j \in DOMAIN replies' : ExactReply(replies'[j])
    BY <2>2, <2>3, <2>4, <2>5
  <2> QED
    BY <2>3, <2>6 DEF RepliesOK, RangesExact
<1> QED
  BY <1>1, <1>2, OnlyWriteBodyReplies

LEMMA RepliesTyped == Spec => []RepliesOK
<1>1. Init => RepliesOK
  <2> SUFFICES ASSUME Init PROVE RepliesOK
    OBVIOUS
  <2>1. replies = <<>>
    BY DEF Init
  <2>2. <<>> \in Seq(Range(<<>>)) /\ DOMAIN <<>> = {}
    BY NothingTyped
  <2> QED
    BY <2>1, <2>2 DEF RepliesOK, RangesExact
<1>2. ConnInv /\ RepliesOK /\ [Next]_vars => RepliesOK'
  BY RepliesKeep
<1> QED
  BY <1>1, <1>2, ConnectionInvariant, PTL DEF Spec

\* Every reply to a request for ranges that lie within the answer has exactly the places
\* that are asked for and the headers that describe them, and tells nothing of what a
\* handler threw: whatever was answered, for any ranges, answers and connection.
THEOREM RepliesAreExact == Spec => []RangesExact
<1>1. RepliesOK => RangesExact
  BY DEF RepliesOK
<1> QED
  BY <1>1, RepliesTyped, PTL

-----------------------------------------------------------------------------
(* The loop over the requests of a connection.                              *)

Between == {"keep_alive"} \union Ended

Phase == CASE pc = "keep_alive" -> "idle"
           [] pc \in {"close", "closed", "terminated"} -> "ended"
           [] OTHER -> "busy"

Told == replies # <<>> /\ HeaderOf(Last(replies), "Connection", "") = "close"

LEMMA PhaseOf ==
  /\ pc = "keep_alive" => Phase = "idle"
  /\ pc \in Ended => Phase = "ended"
  /\ pc \notin Between => Phase = "busy"
  BY DEF Phase, Ended, Between

LEMMA PhaseNext ==
  /\ pc' = "keep_alive" => Phase' = "idle"
  /\ pc' \in Ended => Phase' = "ended"
  /\ pc' \notin Between => Phase' = "busy"
  BY DEF Phase, Ended, Between

\* What is read of a request leaves the worker busy with it, or ends the process.
LEMMA BusyReading ==
  ASSUME ConnInv,
         \/ SkipHeader \/ ReadHeader \/ WriteContinue \/ Routing
         \/ ReadWithLength \/ ReadUntilClose \/ ReadChunkSize \/ ReadChunkEnd
         \/ ReadLastChunk \/ ContentRead \/ Dispatch \/ WriteHead
  PROVE  /\ pc \notin Between /\ UNCHANGED <<left, replies>>
         /\ pc' \notin Between \/ pc' = "terminated"
<1> USE DEF Between, Ended, EndProcess, made
<1>1. CASE SkipHeader
  BY <1>1 DEF SkipHeader, GetLine, Answer
<1>2. CASE ReadHeader
  BY <1>2 DEF ReadHeader, GetLine, GotHeader, ParseRanges, Answer
<1>3. CASE WriteContinue
  BY <1>3 DEF WriteContinue
<1>4. CASE Routing
  <2> DEFINE length == HeaderOf(req, "Content-Length", -1)
  <2>1. length \in Nat \union {-1}
    BY RequestHeaders DEF ConnInv
  <2>2. pc = "routing" /\ UNCHANGED <<left, replies>>
    BY <1>4 DEF Routing
  <2>3. \/ pc' \in {"reply", "dispatch"}
        \/ pc' = IF is_chunked_transfer_encoding THEN "chunk size"
                 ELSE CASE length = -1 -> "until close"
                        [] length = 0  -> "received"
                        [] length > 0  -> "with length"
    BY <1>4 DEF Routing, PrepareContent, prepare_content_receiver, read_content, Answer
  <2> HIDE DEF length
  <2>4. length = -1 \/ length = 0 \/ length > 0
    BY <2>1
  <2> QED
    BY <2>2, <2>3, <2>4
<1>5. CASE ReadWithLength
  <2> DEFINE piece == Piece(need)
             onward == IF Len(piece) < need THEN pc
                       ELSE IF pc = "with length" THEN "received" ELSE "chunk end"
  <2>1. pc \in {"with length", "chunk data"} /\ UNCHANGED <<left, replies>>
    BY <1>5 DEF ReadWithLength
  <2>2. Receive(piece, onward) \/ Answer(400)
    BY <1>5 DEF ReadWithLength, Read, NotReceived
  <2>3. onward \in {pc, "received", "chunk end"}
    OBVIOUS
  <2> HIDE DEF piece, onward
  <2>4. pc' \in {onward, "reply"}
    BY <2>2 DEF Receive, Answer
  <2> QED
    BY <2>1, <2>3, <2>4
<1>6. CASE ReadUntilClose
  BY <1>6 DEF ReadUntilClose, Read, Receive, NotReceived, Answer
<1>7. CASE ReadChunkSize
  BY <1>7 DEF ReadChunkSize, GetLine, Answer
<1>8. CASE ReadChunkEnd
  BY <1>8 DEF ReadChunkEnd, GetLine, Answer
<1>9. CASE ReadLastChunk
  BY <1>9 DEF ReadLastChunk, GetLine, Answer
<1>10. CASE ContentRead
  BY <1>10 DEF ContentRead, Answer
<1>11. CASE Dispatch
  BY <1>11 DEF Dispatch
<1>12. CASE WriteHead
  BY <1>12 DEF WriteHead
<1> QED
  BY <1>1, <1>2, <1>3, <1>4, <1>5, <1>6, <1>7, <1>8, <1>9, <1>10, <1>11, <1>12

\* Every step of a connection is a step of the loop, or none.
LoopStep ==
    \/ UNCHANGED <<Phase, left, Told>>
    \/ Phase = "idle" /\ left > 0 /\ Phase' = "busy" /\ UNCHANGED <<left, Told>>
    \/ /\ Phase = "busy" /\ left' = left - 1 /\ Told' \in {TRUE, left = 1}
       /\ Phase' = IF left = 1 THEN "ended" ELSE "idle"
    \/ Phase \in {"idle", "busy"} /\ Phase' = "ended" /\ UNCHANGED <<left, Told>>

LEMMA StepsOfTheLoop ==
  ASSUME ConnInv, RepliesOK, [Next]_vars
  PROVE  LoopStep
<1>1. UNCHANGED replies => UNCHANGED Told
  BY DEF Told
<1>2. CASE Client \/ UNCHANGED vars
  <2>1. UNCHANGED <<pc, left, replies>>
    BY <1>2 DEF Client, Send, Close, Reset, vars, made
  <2>2. UNCHANGED Phase
    BY <2>1 DEF Phase
  <2> QED
    BY <1>1, <2>1, <2>2 DEF LoopStep
<1>3. CASE AwaitRequest
  <2>1. pc = "keep_alive" /\ pc' = "request line" /\ UNCHANGED <<left, replies>>
    BY <1>3 DEF AwaitRequest, made
  <2>2. left > 0
    BY <2>1 DEF ConnInv, CountOK, Ended
  <2> QED
    BY <1>1, <2>1, <2>2, PhaseOf, PhaseNext DEF LoopStep, Between, Ended
<1>4. CASE IdleTooLong
  <2>1. pc = "keep_alive" /\ pc' = "close" /\ UNCHANGED <<left, replies>>
    BY <1>4 DEF IdleTooLong, made
  <2> QED
    BY <1>1, <2>1, PhaseOf, PhaseNext DEF LoopStep, Ended
<1>5. CASE CloseSocket
  <2>1. pc = "close" /\ pc' = "closed" /\ UNCHANGED <<left, replies>>
    BY <1>5 DEF CloseSocket, made
  <2> QED
    BY <1>1, <2>1, PhaseOf, PhaseNext DEF LoopStep, Ended
<1>6. CASE ReadRequestLine
  <2>1. /\ pc = "request line"
        /\ pc' \in {"skip headers", "reply", "headers", "close", "terminated"}
        /\ UNCHANGED <<left, replies>>
    BY <1>6 DEF ReadRequestLine, GetLine, GotRequestLine, EndProcess, HangUp, made
  <2>2. CASE pc' \in {"close", "terminated"}
    BY <1>1, <2>1, <2>2, PhaseOf, PhaseNext DEF LoopStep, Between, Ended
  <2>3. CASE pc' \notin {"close", "terminated"}
    BY <1>1, <2>1, <2>3, PhaseOf, PhaseNext DEF LoopStep, Between, Ended
  <2> QED
    BY <2>2, <2>3
<1>7. CASE \/ SkipHeader \/ ReadHeader \/ WriteContinue \/ Routing
           \/ ReadWithLength \/ ReadUntilClose \/ ReadChunkSize \/ ReadChunkEnd
           \/ ReadLastChunk \/ ContentRead \/ Dispatch \/ WriteHead
  <2>1. /\ pc \notin Between /\ UNCHANGED <<left, replies>>
        /\ pc' \notin Between \/ pc' = "terminated"
    BY <1>7, BusyReading
  <2>2. CASE pc' = "terminated"
    BY <1>1, <2>1, <2>2, PhaseOf, PhaseNext DEF LoopStep, Ended
  <2>3. CASE pc' \notin Between
    BY <1>1, <2>1, <2>3, PhaseOf, PhaseNext DEF LoopStep
  <2> QED
    BY <2>1, <2>2, <2>3
<1>8. CASE WriteBody
  <2>1. /\ pc = "reply body" /\ pc' = IF left = 1 THEN "close" ELSE "keep_alive"
        /\ left' = left - 1
    BY <1>8 DEF WriteBody
  <2>2. PICK written \in {<<>>, Body} :
            /\ replies' = Append(replies, ReplyOf(written))
            /\ left = 1 => HeaderOf(ReplyOf(written), "Connection", "") = "close"
    BY <1>8, ReplyWritten
  <2> DEFINE r == ReplyOf(written)
  <2>3. /\ replies' = Append(replies, r) /\ replies \in Seq(Range(replies))
        /\ left = 1 => HeaderOf(r, "Connection", "") = "close"
    BY <2>2 DEF RepliesOK
  <2> HIDE DEF r
  <2>4. Told' \in BOOLEAN /\ (left = 1 => Told' = TRUE)
    <3>1. /\ replies' \in Seq(Range(replies')) /\ Len(replies) \in Nat
          /\ DOMAIN replies' = 1..(Len(replies) + 1)
          /\ replies'[Len(replies) + 1] = r
      BY <2>3, ReplyAppended
    <3>2. Len(replies') = Len(replies) + 1
      BY <2>3, ReplyAppended
    <3>3. replies' # <<>> /\ Last(replies') = r
      BY <3>1, <3>2, EmptySeq DEF Last
    <3>4. Told' = (HeaderOf(r, "Connection", "") = "close")
      BY <3>3 DEF Told
    <3> QED
      BY <2>3, <3>4
  <2>5. Told' \in {TRUE, left = 1}
    BY <2>4
  <2>6. Phase = "busy" /\ Phase' = IF left = 1 THEN "ended" ELSE "idle"
    BY <2>1, PhaseOf, PhaseNext DEF Between, Ended
  <2> QED
    BY <2>1, <2>5, <2>6 DEF LoopStep
<1>9. CASE Terminate
  <2>1. pc = "reply" /\ pc' = "terminated" /\ UNCHANGED <<left, replies>>
    BY <1>9 DEF Terminate, EndProcess, made
  <2> QED
    BY <1>1, <2>1, PhaseOf, PhaseNext DEF LoopStep, Between, Ended
<1> QED
  BY <1>2, <1>3, <1>4, <1>5, <1>6, <1>7, <1>8, <1>9 DEF Next, Worker

\* The safety half of KeepsPromise: a connection is answered at most MaxRequests times,
\* the last answer tells the client so, and nothing is answered after that.
THEOREM ConnectionKeepsPromise == Spec => Promise!Init /\ [][Promise!Next]_(Promise!vars)
<1>1. Init => Promise!Init
  <2> SUFFICES ASSUME Init PROVE Promise!Init
    OBVIOUS
  <2>1. pc = "keep_alive" /\ left = MaxRequests /\ replies = <<>>
    BY DEF Init
  <2> QED
    BY <2>1 DEF Promise!Init
<1>2. ConnInv /\ RepliesOK /\ [Next]_vars => [Promise!Next]_(Promise!vars)
  <2> SUFFICES ASSUME ConnInv, RepliesOK, [Next]_vars PROVE [Promise!Next]_(Promise!vars)
    OBVIOUS
  <2>1. LoopStep
    BY StepsOfTheLoop
  <2> QED
    BY <2>1 DEF LoopStep, Phase, Told, Promise!Next, Promise!Begin, Promise!Answer,
                Promise!GiveUp, Promise!vars
<1> QED
  BY <1>1, <1>2, ConnectionInvariant, RepliesTyped, PTL DEF Spec

-----------------------------------------------------------------------------
(* Texts one behind the other.                                              *)

\* Some function joins the first n texts, as flatten in FlattenSeq does.
IsJoin(g, t, n) == g = [k \in 1..n |-> IF k = 1 THEN t[k] ELSE g[k - 1] \o t[k]]

LEMMA JoinExists ==
  ASSUME NEW t, NEW n \in Nat
  PROVE  \E g : IsJoin(g, t, n)
<1> DEFINE Bad == {k \in Nat : ~\E g : IsJoin(g, t, k)}
<1> SUFFICES ASSUME n \in Bad PROVE FALSE
  OBVIOUS
<1>1. PICK b \in Bad : \A k \in Bad : b <= k
  <2>1. Bad \in SUBSET Nat /\ Bad # {}
    OBVIOUS
  <2> HIDE DEF Bad
  <2> QED
    BY <2>1, LeastOf
<1>2. b \in Nat /\ ~\E g : IsJoin(g, t, b)
  OBVIOUS
<1>3. CASE b = 0
  <2> DEFINE g == [k \in 1..0 |-> t[k]]
  <2>1. IsJoin(g, t, 0)
    <3>1. 1..0 = {}
      OBVIOUS
    <3> QED
      BY <3>1 DEF IsJoin
  <2> QED
    BY <1>2, <1>3, <2>1
<1>4. CASE b # 0
  <2>1. b - 1 \in Nat /\ b - 1 \notin Bad
    BY <1>1, <1>2, <1>4
  <2>2. PICK g : IsJoin(g, t, b - 1)
    BY <2>1
  <2> DEFINE Joins(k) == IF k = 1 THEN t[k] ELSE g[k - 1] \o t[k]
             h == [k \in 1..b |-> Joins(k)]
  <2>3. g = [k \in 1..(b - 1) |-> Joins(k)]
    BY <2>2 DEF IsJoin
  <2>4. \A k \in 1..(b - 1) : h[k] = g[k]
    <3>1. \A k \in 1..(b - 1) : k \in 1..b
      BY <1>2
    <3>2. \A k \in 1..(b - 1) : g[k] = Joins(k)
      BY <2>3
    <3>3. \A k \in 1..b : h[k] = Joins(k)
      OBVIOUS
    <3> HIDE DEF h, Joins
    <3> QED
      BY <3>1, <3>2, <3>3
  <2>5. \A k \in 1..b : Joins(k) = IF k = 1 THEN t[k] ELSE h[k - 1] \o t[k]
    <3>1. \A k \in 1..b : k # 1 => k - 1 \in 1..(b - 1)
      BY <1>2
    <3> HIDE DEF h
    <3> QED
      BY <2>4, <3>1
  <2>6. h = [k \in 1..b |-> IF k = 1 THEN t[k] ELSE h[k - 1] \o t[k]]
    <3> DEFINE w == h
    <3>1. w = [k \in 1..b |-> Joins(k)]
      OBVIOUS
    <3>2. \A k \in 1..b : Joins(k) = IF k = 1 THEN t[k] ELSE w[k - 1] \o t[k]
      BY <2>5
    <3> HIDE DEF w, Joins
    <3>3. [k \in 1..b |-> Joins(k)] = [k \in 1..b |-> IF k = 1 THEN t[k] ELSE w[k - 1] \o t[k]]
      BY <3>2
    <3>4. w = [k \in 1..b |-> IF k = 1 THEN t[k] ELSE w[k - 1] \o t[k]]
      BY <3>1, <3>3
    <3> QED
      BY <3>4 DEF w
  <2>7. IsJoin(h, t, b)
    <3> HIDE DEF h
    <3> QED
      BY <2>6 DEF IsJoin
  <2> QED
    BY <1>2, <2>7
<1> QED
  BY <1>3, <1>4

LEMMA JoinsAgree ==
  ASSUME NEW t, NEW n \in Nat, NEW m \in Nat, NEW g, NEW h, IsJoin(g, t, n), IsJoin(h, t, m),
         NEW k \in 1..n, k <= m
  PROVE  g[k] = h[k]
<1> DEFINE Bad == {j \in Nat : j \in 1..n /\ j <= m /\ g[j] # h[j]}
<1> SUFFICES ASSUME k \in Bad PROVE FALSE
  OBVIOUS
<1>1. PICK b \in Bad : \A j \in Bad : b <= j
  <2>1. Bad \in SUBSET Nat /\ Bad # {}
    OBVIOUS
  <2> HIDE DEF Bad
  <2> QED
    BY <2>1, LeastOf
<1>2. b \in 1..n /\ b \in 1..m /\ g[b] # h[b]
  OBVIOUS
<1>3. \A j \in 1..n : g[j] = IF j = 1 THEN t[j] ELSE g[j - 1] \o t[j]
  BY DEF IsJoin
<1>4. \A j \in 1..m : h[j] = IF j = 1 THEN t[j] ELSE h[j - 1] \o t[j]
  BY DEF IsJoin
<1>5. b # 1
  BY <1>2, <1>3, <1>4
<1>6. b - 1 \in Nat /\ b - 1 \in 1..n /\ b - 1 <= m /\ b - 1 \notin Bad
  BY <1>1, <1>2, <1>5
<1>7. g[b - 1] = h[b - 1]
  BY <1>6
<1> QED
  BY <1>2, <1>3, <1>4, <1>5, <1>7

\* The texts that come before place i of a script.
Joined(s, i) == FlattenSeq([k \in 1..i |-> s[k].text])

LEMMA JoinedBy ==
  ASSUME NEW s, NEW n \in Nat, n > 0
  PROVE  \E g : IsJoin(g, [k \in 1..n |-> s[k].text], n)
                /\ FlattenSeq([k \in 1..n |-> s[k].text]) = g[n]
<1> DEFINE t == [k \in 1..n |-> s[k].text]
           g == CHOOSE g : g = [k \in 1..n |-> IF k = 1 THEN t[k] ELSE g[k - 1] \o t[k]]
<1>1. Len(t) = n
  OBVIOUS
<1>2. FlattenSeq(t) = g[n]
  <2>1. FlattenSeq(t) = IF Len(t) = 0 THEN t
                        ELSE LET flatten[k \in 1..Len(t)] ==
                                     IF k = 1 THEN t[k] ELSE flatten[k - 1] \o t[k]
                             IN  flatten[Len(t)]
    BY DEF FlattenSeq
  <2> HIDE DEF t
  <2> QED
    BY <1>1, <2>1
<1>3. \E f : f = [k \in 1..n |-> IF k = 1 THEN t[k] ELSE f[k - 1] \o t[k]]
  BY JoinExists DEF IsJoin
<1>4. g = [k \in 1..n |-> IF k = 1 THEN t[k] ELSE g[k - 1] \o t[k]]
  <2> HIDE DEF t
  <2> QED
    BY <1>3
<1>5. IsJoin(g, t, n)
  <2> HIDE DEF t, g
  <2> QED
    BY <1>4 DEF IsJoin
<1> QED
  BY <1>2, <1>5

\* Each text stands behind those before it.
LEMMA OneMoreJoined ==
  ASSUME NEW s, NEW n \in Nat, n = 0 => s[1].text = s[1].text \o <<>>
  PROVE  /\ n > 0 => Joined(s, n + 1) = Joined(s, n) \o s[n + 1].text
         /\ Joined(s, 1) = s[1].text
         /\ Joined(s, 0) = <<>>
<1> DEFINE t(k) == [j \in 1..k |-> s[j].text]
<1>1. Joined(s, 0) = <<>>
  <2>1. t(0) = <<>>
    OBVIOUS
  <2>2. Len(t(0)) = 0
    OBVIOUS
  <2> HIDE DEF t
  <2>3. FlattenSeq(t(0)) = t(0)
    BY <2>2 DEF FlattenSeq
  <2> QED
    BY <2>1, <2>3 DEF Joined, t
<1>2. Joined(s, 1) = s[1].text
  <2>1. PICK g : IsJoin(g, t(1), 1) /\ FlattenSeq(t(1)) = g[1]
    <3>1. \A k \in Nat : k > 0 => \E g : IsJoin(g, t(k), k) /\ FlattenSeq(t(k)) = g[k]
      BY JoinedBy
    <3> HIDE DEF t
    <3> QED
      BY <3>1
  <2>2. g[1] = t(1)[1]
    <3> HIDE DEF t
    <3>1. \A k \in 1..1 : g[k] = IF k = 1 THEN t(1)[k] ELSE g[k - 1] \o t(1)[k]
      BY <2>1 DEF IsJoin
    <3> QED
      BY <3>1
  <2>3. t(1)[1] = s[1].text
    OBVIOUS
  <2> HIDE DEF t
  <2> QED
    BY <2>1, <2>2, <2>3 DEF Joined, t
<1>3. ASSUME n > 0 PROVE Joined(s, n + 1) = Joined(s, n) \o s[n + 1].text
  <2>1. PICK g : IsJoin(g, t(n), n) /\ FlattenSeq(t(n)) = g[n]
    BY <1>3, JoinedBy
  <2>2. PICK h : IsJoin(h, t(n + 1), n + 1) /\ FlattenSeq(t(n + 1)) = h[n + 1]
    <3>1. \A k \in Nat : k > 0 => \E h : IsJoin(h, t(k), k) /\ FlattenSeq(t(k)) = h[k]
      BY JoinedBy
    <3>2. n + 1 \in Nat /\ n + 1 > 0
      OBVIOUS
    <3> HIDE DEF t
    <3> QED
      BY <3>1, <3>2
  <2>3. \A k \in 1..n : t(n)[k] = t(n + 1)[k] /\ t(n + 1)[k] = s[k].text
    OBVIOUS
  <2>4. t(n + 1)[n + 1] = s[n + 1].text
    OBVIOUS
  <2>5. Joined(s, n + 1) = FlattenSeq(t(n + 1)) /\ Joined(s, n) = FlattenSeq(t(n))
    BY DEF Joined
  <2> HIDE DEF t
  <2>6. IsJoin(g, t(n + 1), n)
    <3>1. g = [k \in 1..n |-> IF k = 1 THEN t(n)[k] ELSE g[k - 1] \o t(n)[k]]
      BY <2>1 DEF IsJoin
    <3>2. [k \in 1..n |-> IF k = 1 THEN t(n)[k] ELSE g[k - 1] \o t(n)[k]]
            = [k \in 1..n |-> IF k = 1 THEN t(n + 1)[k] ELSE g[k - 1] \o t(n + 1)[k]]
      BY <2>3
    <3> QED
      BY <3>1, <3>2 DEF IsJoin
  <2>7. g[n] = h[n]
    <3>1. n \in 1..n /\ n <= n + 1 /\ n + 1 \in Nat
      BY <1>3
    <3> QED
      BY <2>2, <2>6, <3>1, JoinsAgree
  <2>8. h[n + 1] = h[n] \o t(n + 1)[n + 1]
    <3>1. \A k \in 1..(n + 1) : h[k] = IF k = 1 THEN t(n + 1)[k] ELSE h[k - 1] \o t(n + 1)[k]
      BY <2>2 DEF IsJoin
    <3>2. n + 1 \in 1..(n + 1) /\ n + 1 # 1 /\ (n + 1) - 1 = n
      BY <1>3
    <3> QED
      BY <3>1, <3>2
  <2> QED
    BY <2>1, <2>2, <2>4, <2>5, <2>7, <2>8
<1> QED
  BY <1>1, <1>2, <1>3

LEMMA JoinedStep ==
  ASSUME NEW s, NEW E, NEW n \in Nat, Joined(s, n) \in Seq(E), s[n + 1].text \in Seq(E)
  PROVE  /\ Joined(s, n + 1) = Joined(s, n) \o s[n + 1].text
         /\ Joined(s, n + 1) \in Seq(E)
         /\ Len(Joined(s, n)) \in Nat /\ Len(s[n + 1].text) \in Nat
         /\ Len(Joined(s, n + 1)) = Len(Joined(s, n)) + Len(s[n + 1].text)
         /\ \A k \in 1..Len(Joined(s, n)) : Joined(s, n + 1)[k] = Joined(s, n)[k]
         /\ \A k \in 1..Len(s[n + 1].text) :
               Joined(s, n + 1)[Len(Joined(s, n)) + k] = s[n + 1].text[k]
<1>1. Joined(s, n + 1) = Joined(s, n) \o s[n + 1].text
  <2>1. CASE n = 0
    <3>1. s[1].text = s[1].text \o <<>> /\ <<>> \o s[1].text = s[1].text
      BY <2>1
    <3>2. Joined(s, 0) = <<>> /\ Joined(s, 1) = s[1].text
      BY <2>1, <3>1, OneMoreJoined
    <3> QED
      BY <2>1, <3>1, <3>2
  <2>2. CASE n # 0
    <3>1. n > 0
      BY <2>2
    <3> QED
      BY <2>2, <3>1, OneMoreJoined
  <2> QED
    BY <2>1, <2>2
<1>2. /\ Joined(s, n) \o s[n + 1].text \in Seq(E)
      /\ Len(Joined(s, n)) \in Nat /\ Len(s[n + 1].text) \in Nat
      /\ Len(Joined(s, n) \o s[n + 1].text) = Len(Joined(s, n)) + Len(s[n + 1].text)
      /\ \A k \in 1..Len(Joined(s, n)) : (Joined(s, n) \o s[n + 1].text)[k] = Joined(s, n)[k]
      /\ \A k \in 1..Len(s[n + 1].text) :
            (Joined(s, n) \o s[n + 1].text)[Len(Joined(s, n)) + k] = s[n + 1].text[k]
  BY ConcatProperties, LenProperties
<1> QED
  BY <1>1, <1>2

LEMMA JoinedTyped ==
  ASSUME NEW s, NEW E, NEW n \in Nat, \A k \in 1..n : s[k].text \in Seq(E)
  PROVE  Joined(s, n) \in Seq(E)
<1> DEFINE Bad == {k \in Nat : k <= n /\ Joined(s, k) \notin Seq(E)}
<1> SUFFICES ASSUME n \in Bad PROVE FALSE
  OBVIOUS
<1>1. PICK b \in Bad : \A k \in Bad : b <= k
  <2>1. Bad \in SUBSET Nat /\ Bad # {}
    OBVIOUS
  <2> HIDE DEF Bad
  <2> QED
    BY <2>1, LeastOf
<1>2. b \in Nat /\ b <= n /\ Joined(s, b) \notin Seq(E)
  OBVIOUS
<1>3. b # 0
  <2>1. Joined(s, 0) = <<>>
    <3>1. [k \in 1..0 |-> s[k].text] = <<>> /\ Len(<<>>) = 0
      OBVIOUS
    <3>2. Joined(s, 0) = FlattenSeq(<<>>)
      BY <3>1 DEF Joined
    <3> QED
      BY <3>1, <3>2 DEF FlattenSeq
  <2>2. <<>> \in Seq(E)
    OBVIOUS
  <2> QED
    BY <1>2, <2>1, <2>2
<1>4. b - 1 \in Nat /\ b - 1 <= n /\ b - 1 \notin Bad /\ (b - 1) + 1 = b /\ b \in 1..n
  BY <1>1, <1>2, <1>3
<1>5. Joined(s, b - 1) \in Seq(E)
  BY <1>4
<1>6. Joined(s, (b - 1) + 1) \in Seq(E)
  BY <1>4, <1>5, JoinedStep
<1> QED
  BY <1>2, <1>4, <1>6

LEMMA JoinedGrows ==
  ASSUME NEW s, NEW E, NEW n \in Nat, \A k \in 1..n : s[k].text \in Seq(E), NEW i \in 0..n
  PROVE  /\ Len(Joined(s, i)) \in Nat /\ Len(Joined(s, n)) \in Nat
         /\ Len(Joined(s, i)) <= Len(Joined(s, n))
         /\ \A k \in 1..Len(Joined(s, i)) : Joined(s, n)[k] = Joined(s, i)[k]
<1> DEFINE Good(j) == /\ Len(Joined(s, i)) <= Len(Joined(s, j))
                      /\ \A k \in 1..Len(Joined(s, i)) : Joined(s, j)[k] = Joined(s, i)[k]
           Bad == {j \in Nat : i <= j /\ j <= n /\ ~Good(j)}
<1>1. \A j \in 0..n : Joined(s, j) \in Seq(E) /\ Len(Joined(s, j)) \in Nat
  <2> SUFFICES ASSUME NEW j \in 0..n PROVE Joined(s, j) \in Seq(E) /\ Len(Joined(s, j)) \in Nat
    OBVIOUS
  <2>1. j \in Nat /\ \A k \in 1..j : s[k].text \in Seq(E)
    OBVIOUS
  <2>2. Joined(s, j) \in Seq(E)
    BY <2>1, JoinedTyped
  <2> QED
    BY <2>2, LenProperties
<1>2. i \in 0..n /\ n \in 0..n /\ i \in Nat
  OBVIOUS
<1> SUFFICES ASSUME n \in Bad PROVE FALSE
  BY <1>1, <1>2
<1>3. PICK b \in Bad : \A j \in Bad : b <= j
  <2>1. Bad \in SUBSET Nat /\ Bad # {}
    OBVIOUS
  <2> HIDE DEF Bad
  <2> QED
    BY <2>1, LeastOf
<1>4. b \in Nat /\ i <= b /\ b <= n /\ ~Good(b)
  OBVIOUS
<1>5. b # i
  <2>1. Good(i)
    BY <1>1, <1>2
  <2> HIDE DEF Good
  <2> QED
    BY <1>4, <2>1
<1>6. b - 1 \in Nat /\ i <= b - 1 /\ b - 1 <= n /\ b - 1 \notin Bad /\ (b - 1) + 1 = b
      /\ b - 1 \in 0..n /\ b \in 1..n
  BY <1>2, <1>3, <1>4, <1>5
<1>7. Good(b - 1)
  <2> HIDE DEF Good
  <2> QED
    BY <1>6
<1>8. PICK c \in Nat : c = b - 1 /\ c + 1 = b /\ c \in 0..n
  BY <1>6
<1>9. /\ Len(Joined(s, c)) \in Nat /\ Len(s[c + 1].text) \in Nat
      /\ Len(Joined(s, c + 1)) = Len(Joined(s, c)) + Len(s[c + 1].text)
      /\ \A k \in 1..Len(Joined(s, c)) : Joined(s, c + 1)[k] = Joined(s, c)[k]
  <2>1. Joined(s, c) \in Seq(E) /\ s[c + 1].text \in Seq(E)
    BY <1>1, <1>6, <1>8
  <2> QED
    BY <2>1, JoinedStep
<1>10. Len(Joined(s, i)) \in Nat
  BY <1>1, <1>2
<1>11. Good(c)
  BY <1>7, <1>8
<1>12. Len(Joined(s, i)) <= Len(Joined(s, c + 1))
  <2>1. Len(Joined(s, i)) <= Len(Joined(s, c))
    BY <1>11
  <2> QED
    BY <1>9, <1>10, <2>1
<1>13. ASSUME NEW k \in 1..Len(Joined(s, i)) PROVE Joined(s, c + 1)[k] = Joined(s, i)[k]
  <2>1. k \in 1..Len(Joined(s, c)) /\ Joined(s, c)[k] = Joined(s, i)[k]
    BY <1>9, <1>10, <1>11
  <2> QED
    BY <1>9, <2>1
<1>14. Good(c + 1)
  BY <1>12, <1>13
<1>15. Good(b)
  <2> HIDE DEF Good
  <2> QED
    BY <1>8, <1>14
<1> QED
  BY <1>4, <1>15

-----------------------------------------------------------------------------
(* Messages in the stream.                                                  *)

EndOf(i) == BeginOf(i + 1)
BodyOfMessage(i) == BeginOf(i) + HeadOf(script[i])

LEMMA BeforeJoined ==
  ASSUME NEW s, NEW i \in Int
  PROVE  Before(s, i) = Joined(s, i - 1)
  BY DEF Before, Joined

\* Where message i stands, and how it is written.
LEMMA MessageFacts ==
  ASSUME InputOK
  PROVE  /\ Len(script) \in Nat /\ DOMAIN script = 1..Len(script)
         /\ BeginOf(1) = 0 /\ BeginOf(Len(script) + 1) = Len(stream)
         /\ \A i \in 1..(Len(script) + 1) : BeginOf(i) \in 0..Len(stream)
         /\ \A i \in 1..Len(script) :
               LET text == script[i].text
               IN  /\ Len(text) \in Nat /\ EndOf(i) = BeginOf(i) + Len(text)
                   /\ \A k \in 1..Len(text) : stream[BeginOf(i) + k] = text[k]
         /\ \A j \in 1..(Len(script) + 1) : \A i \in 1..j : BeginOf(i) <= BeginOf(j)
<1> DEFINE n == Len(script)
<1>1. /\ script \in Scripts /\ stream = Said(script) /\ script \in Seq(Range(script))
      /\ \A i \in DOMAIN script : script[i].text \in Seq(Range(script[i].text))
  BY MessagesAssumption DEF InputOK
<1>2. n \in Nat /\ DOMAIN script = 1..n
  BY <1>1, LenProperties
<1>3. PICK E : \A i \in 1..n : script[i].text \in Seq(E)
  <2> DEFINE E == UNION {Range(script[i].text) : i \in 1..n}
  <2> SUFFICES ASSUME NEW i \in 1..n PROVE script[i].text \in Seq(E)
    OBVIOUS
  <2>1. script[i].text \in Seq(Range(script[i].text))
    BY <1>1, <1>2
  <2>2. Range(script[i].text) \in SUBSET E
    OBVIOUS
  <2>3. /\ Len(script[i].text) \in Nat
        /\ script[i].text \in [1..Len(script[i].text) -> Range(script[i].text)]
    BY <2>1, LenProperties
  <2> HIDE DEF E
  <2>4. script[i].text \in [1..Len(script[i].text) -> E]
    BY <2>2, <2>3
  <2> QED
    BY <2>3, <2>4
<1>4. \A i \in 1..(n + 1) : BeginOf(i) = Len(Joined(script, i - 1))
  BY <1>2, BeforeJoined DEF BeginOf
<1>5. stream = Joined(script, n)
  BY <1>1, <1>2 DEF Said, Joined
<1>6. \A j \in 0..n : \A i \in 0..j :
         /\ Len(Joined(script, i)) \in Nat /\ Len(Joined(script, j)) \in Nat
         /\ Len(Joined(script, i)) <= Len(Joined(script, j))
         /\ \A k \in 1..Len(Joined(script, i)) : Joined(script, j)[k] = Joined(script, i)[k]
  <2> TAKE j \in 0..n
  <2>1. j \in Nat /\ \A k \in 1..j : script[k].text \in Seq(E)
    BY <1>2, <1>3
  <2> QED
    BY <2>1, JoinedGrows
<1>7. BeginOf(1) = 0
  <2>1. Joined(script, 0) = <<>>
    <3>1. [k \in 1..0 |-> script[k].text] = <<>> /\ Len(<<>>) = 0
      OBVIOUS
    <3>2. Joined(script, 0) = FlattenSeq(<<>>)
      BY <3>1 DEF Joined
    <3> QED
      BY <3>1, <3>2 DEF FlattenSeq
  <2>2. 1 \in 1..(n + 1) /\ 1 - 1 = 0 /\ Len(<<>>) = 0
    BY <1>2
  <2> QED
    BY <1>4, <2>1, <2>2
<1>8. BeginOf(n + 1) = Len(stream)
  <2>1. n + 1 \in 1..(n + 1) /\ (n + 1) - 1 = n
    BY <1>2
  <2> QED
    BY <1>4, <1>5, <2>1
<1>9. \A j \in 1..(n + 1) : \A i \in 1..j :
         BeginOf(i) \in Nat /\ BeginOf(j) \in Nat /\ BeginOf(i) <= BeginOf(j)
  <2> SUFFICES ASSUME NEW j \in 1..(n + 1), NEW i \in 1..j
               PROVE  BeginOf(i) \in Nat /\ BeginOf(j) \in Nat /\ BeginOf(i) <= BeginOf(j)
    OBVIOUS
  <2>1. j - 1 \in 0..n /\ i - 1 \in 0..(j - 1) /\ i \in 1..(n + 1)
    BY <1>2
  <2> QED
    BY <1>4, <1>6, <2>1
<1>10. \A i \in 1..(n + 1) : BeginOf(i) \in 0..Len(stream)
  <2> SUFFICES ASSUME NEW i \in 1..(n + 1) PROVE BeginOf(i) \in 0..Len(stream)
    OBVIOUS
  <2>1. n + 1 \in 1..(n + 1) /\ i \in 1..(n + 1)
    BY <1>2
  <2> QED
    BY <1>8, <1>9, <2>1
<1>11. ASSUME NEW i \in 1..n
       PROVE  /\ Len(script[i].text) \in Nat /\ EndOf(i) = BeginOf(i) + Len(script[i].text)
              /\ \A k \in 1..Len(script[i].text) :
                    stream[BeginOf(i) + k] = script[i].text[k]
  <2>1. PICK c \in Nat : c = i - 1 /\ c + 1 = i /\ c \in 0..n /\ i \in 0..n
    BY <1>2
  <2>2. Joined(script, c) \in Seq(E)
    <3>1. \A k \in 1..c : script[k].text \in Seq(E)
      BY <1>2, <1>3, <2>1
    <3> QED
      BY <3>1, JoinedTyped
  <2>3. script[c + 1].text \in Seq(E)
    BY <1>3, <2>1
  <2>4. /\ Len(Joined(script, c)) \in Nat /\ Len(script[c + 1].text) \in Nat
        /\ Len(Joined(script, c + 1)) = Len(Joined(script, c)) + Len(script[c + 1].text)
        /\ \A k \in 1..Len(script[c + 1].text) :
              Joined(script, c + 1)[Len(Joined(script, c)) + k] = script[c + 1].text[k]
    BY <2>2, <2>3, JoinedStep
  <2>5. /\ Len(script[i].text) \in Nat /\ Len(Joined(script, c)) \in Nat
        /\ Len(Joined(script, i)) = Len(Joined(script, c)) + Len(script[i].text)
        /\ \A k \in 1..Len(script[i].text) :
              Joined(script, i)[Len(Joined(script, c)) + k] = script[i].text[k]
    BY <2>1, <2>4
  <2>6. BeginOf(i) = Len(Joined(script, c)) /\ EndOf(i) = Len(Joined(script, i))
    <3>1. i \in 1..(n + 1) /\ i + 1 \in 1..(n + 1) /\ (i + 1) - 1 = i /\ i - 1 = c
      BY <1>2, <2>1
    <3> QED
      BY <1>4, <3>1 DEF EndOf
  <2>7. ASSUME NEW k \in 1..Len(script[i].text)
        PROVE  stream[BeginOf(i) + k] = script[i].text[k]
    <3>1. BeginOf(i) + k \in 1..Len(Joined(script, i))
      BY <2>5, <2>6
    <3>2. n \in 0..n /\ i \in 0..n
      BY <1>2, <2>1
    <3>3. stream[BeginOf(i) + k] = Joined(script, i)[BeginOf(i) + k]
      BY <1>5, <1>6, <3>1, <3>2
    <3> QED
      BY <2>5, <2>6, <3>3
  <2> QED
    BY <2>5, <2>6, <2>7
<1> QED
  BY <1>2, <1>7, <1>8, <1>9, <1>10, <1>11

\* A place in the stream lies in one of the messages.
LEMMA InSomeMessage ==
  ASSUME InputOK, NEW p \in 1..Len(stream)
  PROVE  \E i \in 1..Len(script) : BeginOf(i) < p /\ p <= EndOf(i)
<1> DEFINE n == Len(script)
           T == {j \in Nat : j \in 1..(n + 1) /\ p <= BeginOf(j)}
<1>1. /\ n \in Nat /\ BeginOf(1) = 0 /\ BeginOf(n + 1) = Len(stream) /\ Len(stream) \in Nat
      /\ \A i \in 1..(n + 1) : BeginOf(i) \in Int
  BY MessageFacts, StreamFacts
<1>2. T \in SUBSET Nat /\ n + 1 \in T
  BY <1>1
<1>3. PICK j \in T : \A k \in T : j <= k
  <2> HIDE DEF T
  <2> QED
    BY <1>2, LeastOf
<1>4. j # 1
  BY <1>1
<1>5. j - 1 \in 1..n /\ j - 1 \in 1..(n + 1) /\ j - 1 \notin T /\ (j - 1) + 1 = j /\ p <= BeginOf(j)
  BY <1>1, <1>3, <1>4
<1>6. BeginOf(j - 1) < p
  BY <1>1, <1>5
<1>7. EndOf(j - 1) = BeginOf(j)
  BY <1>5 DEF EndOf
<1> QED
  BY <1>5, <1>6, <1>7

LEMMA HeadFacts ==
  ASSUME InputOK, NEW i \in 1..Len(script)
  PROVE  LET m == script[i]
         IN  /\ LinesOf(m) \in 1..Len(m.text) /\ HeadHasLines(m.text, LinesOf(m))
             /\ HeadOf(m) = 3 * LinesOf(m) + 2 /\ HeadOf(m) \in 5..Len(m.text)
             /\ MessageMeant(m, i = Len(script))
             /\ m.text \in Seq(Range(m.text)) /\ Len(m.text) \in Nat
             /\ m.awkward \in BOOLEAN /\ m.pause \in Nat /\ m.chunks \in Seq(Nat)
<1> DEFINE m == script[i]
<1>1. /\ m.text \in Seq(Range(m.text)) /\ m.awkward \in BOOLEAN /\ m.pause \in Nat
      /\ m.chunks \in Seq(Nat) /\ MessageMeant(m, i = Len(script))
  <2>1. i \in DOMAIN script /\ script \in Scripts
    BY MessageFacts DEF InputOK
  <2> QED
    BY <2>1, MessagesAssumption
<1> HIDE DEF m
<1>2. \E n \in 1..Len(m.text) : HeadHasLines(m.text, n)
  BY <1>1 DEF MessageMeant
<1>3. LinesOf(m) \in 1..Len(m.text) /\ HeadHasLines(m.text, LinesOf(m))
  BY <1>2 DEF LinesOf
<1>4. Len(m.text) \in Nat
  BY <1>1, LenProperties
<1>5. HeadOf(m) = 3 * LinesOf(m) + 2
  BY DEF HeadOf
<1>6. HeadOf(m) \in 5..Len(m.text)
  BY <1>3, <1>4, <1>5 DEF HeadHasLines
<1> QED
  BY <1>1, <1>3, <1>4, <1>5, <1>6 DEF m

-----------------------------------------------------------------------------
(* Lines and pieces of the stream.                                          *)

LEMMA LineRead ==
  ASSUME InputOK, LineLength > 0
  PROVE  LET line == SubSeq(Arrived, 1, LineLength)
         IN  /\ LineLength \in Nat /\ taken + LineLength <= sent /\ Len(line) = LineLength
             /\ line \in Seq(Range(stream))
             /\ \A k \in 1..LineLength : line[k] = stream[taken + k]
             /\ \A k \in 1..(LineLength - 1) : stream[taken + k] # LF
             /\ stream[taken + LineLength] = LF \/ (fin /\ taken + LineLength = sent)
<1> DEFINE ends == {i \in DOMAIN Arrived : Arrived[i] = LF}
           n == LineLength
           line == SubSeq(Arrived, 1, n)
<1>1. /\ Arrived \in Seq(Range(stream)) /\ Len(Arrived) \in Nat /\ Len(Arrived) = sent - taken
      /\ DOMAIN Arrived = 1..Len(Arrived)
      /\ \A i \in 1..Len(Arrived) : Arrived[i] \in Range(stream)
  BY ArrivedFacts, LenProperties, ElementOfSeq
<1>2. /\ stream \in Seq(Range(stream)) /\ Len(stream) \in Nat
      /\ \A i \in 1..Len(stream) : stream[i] \in Range(stream)
      /\ sent \in 0..Len(stream) /\ taken \in 0..sent
  BY StreamFacts DEF InputOK
<1>3. \A i \in 1..Len(Arrived) : Arrived[i] = stream[taken + i]
  <2>1. taken + 1 \in 1..(Len(stream) + 1) /\ sent \in 0..Len(stream)
        /\ \A i \in (taken + 1)..sent : stream[i] \in Range(stream)
    BY <1>2
  <2>2. \A i \in 1..(sent - (taken + 1) + 1) :
           SubSeq(stream, taken + 1, sent)[i] = stream[(taken + 1) + i - 1]
    BY <1>2, <2>1, SubSeqProperties
  <2>3. \A i \in 1..Len(Arrived) : i \in 1..(sent - (taken + 1) + 1) /\ (taken + 1) + i - 1 = taken + i
    BY <1>1, <1>2
  <2> QED
    BY <2>2, <2>3 DEF Arrived
<1>4. n = IF ends # {} THEN CHOOSE i \in ends : \A k \in ends : i <= k
          ELSE IF fin THEN Len(Arrived) ELSE 0
  BY DEF LineLength
<1>5. ends # {} => n \in ends /\ \A k \in ends : n <= k
  <2> SUFFICES ASSUME ends # {} PROVE n \in ends /\ \A k \in ends : n <= k
    OBVIOUS
  <2>1. ends \in SUBSET Nat
    BY <1>1
  <2>2. \E i \in ends : \A k \in ends : i <= k
    BY <2>1, LeastOf
  <2>3. n = CHOOSE i \in ends : \A k \in ends : i <= k
    BY <1>4
  <2> HIDE DEF ends, n
  <2> QED
    BY <2>2, <2>3
<1>6. n \in 1..Len(Arrived)
  BY LineFacts
<1>7. \A k \in 1..(n - 1) : k \notin ends /\ k \in 1..Len(Arrived)
  <2> SUFFICES ASSUME NEW k \in 1..(n - 1), k \in ends PROVE FALSE
    BY <1>1, <1>6
  <2>1. n <= k
    BY <1>5
  <2> QED
    BY <1>1, <1>6, <2>1
<1>8. \A k \in 1..(n - 1) : stream[taken + k] # LF
  BY <1>1, <1>3, <1>7
<1>9. stream[taken + n] = LF \/ (fin /\ taken + n = sent)
  <2>1. CASE ends # {}
    BY <1>1, <1>3, <1>5, <2>1
  <2>2. CASE ends = {}
    BY <1>1, <1>2, <1>4, <1>6, <2>2
  <2> QED
    BY <2>1, <2>2
<1>10. /\ Len(line) = n /\ \A k \in 1..n : line[k] = Arrived[k]
       /\ line \in Seq(Range(stream))
  <2>1. 1 \in 1..(Len(Arrived) + 1) /\ n \in 0..Len(Arrived)
        /\ \A x \in 1..n : Arrived[x] \in Range(stream)
    BY <1>1, <1>6
  <2>2. /\ Len(SubSeq(Arrived, 1, n)) = IF 1 <= n THEN n - 1 + 1 ELSE 0
        /\ SubSeq(Arrived, 1, n) \in Seq(Range(stream))
        /\ \A k \in 1..(n - 1 + 1) : SubSeq(Arrived, 1, n)[k] = Arrived[1 + k - 1]
    BY <1>1, <2>1, SubSeqProperties
  <2> HIDE DEF n
  <2>3. \A k \in 1..n : k \in 1..(n - 1 + 1) /\ 1 + k - 1 = k
    BY <1>6
  <2>4. Len(line) = n
    BY <1>6, <2>2
  <2> QED
    BY <2>2, <2>3, <2>4
<1>11. taken + n <= sent /\ n \in Nat
  BY <1>1, <1>2, <1>6
<1>12. \A k \in 1..n : line[k] = stream[taken + k]
  BY <1>3, <1>6, <1>10
<1> QED
  BY <1>8, <1>9, <1>10, <1>11, <1>12

\* A word and the end of its line, or what has come of them.
LEMMA WordLine ==
  ASSUME InputOK, LineLength > 0,
         stream[taken + 1] # LF, stream[taken + 2] = CR, stream[taken + 3] = LF
  PROVE  LET line == SubSeq(Arrived, 1, LineLength)
         IN  /\ line[1] = stream[taken + 1] /\ line # CrLf
             /\ \/ /\ LineLength = 3 /\ line = <<stream[taken + 1], CR, LF>>
                   /\ Len(line) = 3 /\ end_with_crlf(line)
                \/ LineLength < 3 /\ fin /\ taken + LineLength = sent /\ Len(line) < 3
<1> DEFINE n == LineLength
           line == SubSeq(Arrived, 1, n)
<1>1. /\ n \in Nat /\ n > 0 /\ Len(line) = n /\ line \in Seq(Range(stream))
      /\ \A k \in 1..n : line[k] = stream[taken + k]
      /\ \A k \in 1..(n - 1) : stream[taken + k] # LF
      /\ stream[taken + n] = LF \/ (fin /\ taken + n = sent)
      /\ taken \in Nat
  BY LineRead, StreamFacts DEF InputOK
<1> HIDE DEF line, n
<1>2. n <= 3
  <2> SUFFICES ASSUME n > 3 PROVE FALSE
    BY <1>1
  <2>1. 3 \in 1..(n - 1)
    BY <1>1
  <2> QED
    BY <1>1, <2>1
<1>3. line[1] = stream[taken + 1]
  BY <1>1
<1>4. CASE n = 3
  <2>1. line = <<line[1], line[2], line[3]>>
    BY <1>1, <1>4
  <2>2. line[1] = stream[taken + 1] /\ line[2] = CR /\ line[3] = LF
    BY <1>1, <1>4
  <2>3. line = <<stream[taken + 1], CR, LF>>
    BY <2>1, <2>2
  <2>4. SubSeq(line, 2, 3) = CrLf
    <3> DEFINE end == SubSeq(line, 2, 3)
    <3>1. \A x \in 1..Len(line) : line[x] \in Range(stream)
      BY <1>1, ElementOfSeq
    <3>2. 2 \in 1..(Len(line) + 1) /\ 3 \in 0..Len(line)
          /\ \A x \in 2..3 : line[x] \in Range(stream)
      BY <1>1, <1>4, <3>1
    <3>3. /\ Len(end) = IF 2 <= 3 THEN 3 - 2 + 1 ELSE 0
          /\ end \in Seq(Range(stream))
          /\ \A k \in 1..(3 - 2 + 1) : end[k] = line[2 + k - 1]
      BY <1>1, <3>2, SubSeqProperties
    <3> HIDE DEF end
    <3>4. Len(end) = 2 /\ end[1] = line[2] /\ end[2] = line[3]
      BY <3>3
    <3>5. end = <<end[1], end[2]>>
      BY <3>3, <3>4
    <3> QED
      BY <2>2, <3>4, <3>5 DEF end, CrLf
  <2>5. end_with_crlf(line)
    BY <1>1, <1>4, <2>4 DEF end_with_crlf
  <2>6. line # CrLf
    <3>1. Len(CrLf) = 2
      BY DEF CrLf
    <3>2. Len(line) = 3
      BY <1>1, <1>4
    <3> QED
      BY <3>1, <3>2
  <2> QED
    BY <1>1, <1>3, <1>4, <2>3, <2>5, <2>6 DEF n, line
<1>5. CASE n = 1 \/ n = 2
  <2>1. stream[taken + n] # LF
    <3>1. CR # LF
      BY DEF CR, LF
    <3> QED
      BY <1>5, <3>1
  <2>2. line # CrLf
    <3>1. Len(CrLf) = 2 /\ CrLf[2] = LF
      BY DEF CrLf
    <3>2. ASSUME line = CrLf PROVE FALSE
      <4>1. n = 2
        BY <1>1, <3>1, <3>2
      <4>2. line[2] = stream[taken + 2]
        BY <1>1, <4>1
      <4> QED
        BY <2>1, <3>1, <3>2, <4>1, <4>2
    <3> QED
      BY <3>2
  <2> QED
    BY <1>1, <1>3, <1>5, <2>1, <2>2 DEF n, line
<1>6. n = 1 \/ n = 2 \/ n = 3
  BY <1>1, <1>2
<1> QED
  BY <1>4, <1>5, <1>6

\* The empty line, or its beginning.
LEMMA EmptyLine ==
  ASSUME InputOK, LineLength > 0, stream[taken + 1] = CR, stream[taken + 2] = LF
  PROVE  LET line == SubSeq(Arrived, 1, LineLength)
         IN  \/ LineLength = 2 /\ line = CrLf
             \/ LineLength = 1 /\ line # CrLf /\ fin /\ taken + 1 = sent /\ Len(line) = 1
<1> DEFINE n == LineLength
           line == SubSeq(Arrived, 1, n)
<1>1. /\ n \in Nat /\ n > 0 /\ Len(line) = n /\ line \in Seq(Range(stream))
      /\ \A k \in 1..n : line[k] = stream[taken + k]
      /\ \A k \in 1..(n - 1) : stream[taken + k] # LF
      /\ stream[taken + n] = LF \/ (fin /\ taken + n = sent)
      /\ taken \in Nat
  BY LineRead, StreamFacts DEF InputOK
<1> HIDE DEF line, n
<1>2. n <= 2
  <2> SUFFICES ASSUME n > 2 PROVE FALSE
    BY <1>1
  <2>1. 2 \in 1..(n - 1)
    BY <1>1
  <2> QED
    BY <1>1, <2>1
<1>3. CASE n = 2
  <2>1. line = <<line[1], line[2]>>
    BY <1>1, <1>3
  <2>2. line[1] = CR /\ line[2] = LF
    BY <1>1, <1>3
  <2> QED
    BY <1>3, <2>1, <2>2 DEF n, line, CrLf
<1>4. CASE n = 1
  <2>1. CR # LF /\ Len(CrLf) = 2
    BY DEF CR, LF, CrLf
  <2> QED
    BY <1>1, <1>4, <2>1 DEF n, line
<1> QED
  BY <1>1, <1>2, <1>3, <1>4

-----------------------------------------------------------------------------
(* The request that is written in a message.                                *)

LEMMA SameMessages ==
  ASSUME UNCHANGED script, NEW CONSTANT i
  PROVE  /\ BeginOf(i)' = BeginOf(i) /\ EndOf(i)' = EndOf(i)
         /\ BodyOfMessage(i)' = BodyOfMessage(i)
  BY DEF BeginOf, EndOf, BodyOfMessage

LEMMA WordFacts ==
  ASSUME NEW u, NEW kind, IsWord(u, kind)
  PROVE  /\ u # CR /\ u # LF /\ u \notin {CR, LF}
         /\ \A other : other # kind => ~IsWord(u, other)
<1>1. Len(CR) = 1 /\ Len(LF) = 1
  BY DEF CR, LF
<1>2. Len(u) > 1 /\ u[1] = kind
  BY DEF IsWord
<1>3. u # CR /\ u # LF
  <2>1. ASSUME Len(u) = 1 PROVE FALSE
    BY <1>2, <2>1
  <2> QED
    BY <1>1, <2>1
<1> QED
  BY <1>2, <1>3 DEF IsWord

LEMMA LineEndNoWord ==
  ASSUME NEW kind
  PROVE  ~IsWord(CR, kind) /\ ~IsWord(LF, kind)
  BY DEF CR, LF, IsWord

HeaderLines(m, n) == [k \in 1..n |-> m.text[3 * k + 1]]

Shape(m, headers, ranges, body) ==
    LET given == m.text[1][2]
    IN  [method |-> given.method, version |-> given.version,
         path |-> decode_url(given.path, FALSE), params |-> parse_query_text(given.query),
         headers |-> headers, ranges |-> ranges, body |-> body]

LEMMA LineShape ==
  ASSUME NEW m, NEW line, line[1] = m.text[1]
  PROVE  parse_request_line(line) = Shape(m, <<>>, <<>>, <<>>)
<1> DEFINE given == m.text[1][2]
           path == decode_url(given.path, FALSE)
           params == parse_query_text(given.query)
<1>1. parse_request_line(line) =
         [NoRequest EXCEPT !.method = given.method, !.version = given.version,
                           !.path = path, !.params = params]
  BY DEF parse_request_line
<1>2. PICK a, b, c, d : a = given.method /\ b = given.version /\ c = path /\ d = params
  OBVIOUS
<1>3. [NoRequest EXCEPT !.method = a, !.version = b, !.path = c, !.params = d]
         = [method |-> a, version |-> b, path |-> c, params |-> d, headers |-> <<>>,
            ranges |-> <<>>, body |-> <<>>]
  BY RequestFilled
<1>4. parse_request_line(line) =
         [NoRequest EXCEPT !.method = a, !.version = b, !.path = c, !.params = d]
  BY <1>1, <1>2
<1>5. Shape(m, <<>>, <<>>, <<>>) =
         [method |-> a, version |-> b, path |-> c, params |-> d, headers |-> <<>>,
          ranges |-> <<>>, body |-> <<>>]
  BY <1>2 DEF Shape
<1> QED
  BY <1>3, <1>4, <1>5

WithHeaders(r, x) == [r EXCEPT !.headers = x]
WithRanges(r, x) == [r EXCEPT !.ranges = x]
WithBody(r, x) == [r EXCEPT !.body = x]

LEMMA ShapeChanged ==
  ASSUME NEW m, NEW h, NEW g, NEW b, NEW x
  PROVE  /\ WithHeaders(Shape(m, h, g, b), x) = Shape(m, x, g, b)
         /\ WithRanges(Shape(m, h, g, b), x) = Shape(m, h, x, b)
         /\ WithBody(Shape(m, h, g, b), x) = Shape(m, h, g, x)
<1>1. PICK e, v, p, q : /\ e = m.text[1][2].method /\ v = m.text[1][2].version
                        /\ p = decode_url(m.text[1][2].path, FALSE)
                        /\ q = parse_query_text(m.text[1][2].query)
  OBVIOUS
<1>2. \A k, l, c : Shape(m, k, l, c) =
         [method |-> e, version |-> v, path |-> p, params |-> q, headers |-> k,
          ranges |-> l, body |-> c]
  BY <1>1 DEF Shape
<1>3. PICK r : r = [method |-> e, version |-> v, path |-> p, params |-> q, headers |-> h,
                    ranges |-> g, body |-> b]
  OBVIOUS
<1>4. /\ r.headers = h /\ r.ranges = g /\ r.body = b
      /\ r.method = e /\ r.path = p /\ r.params = q /\ r.version = v
  BY <1>3
<1>5. /\ [r EXCEPT !.headers = x] =
             [method |-> e, version |-> v, path |-> p, params |-> q, headers |-> x,
              ranges |-> g, body |-> b]
      /\ [r EXCEPT !.ranges = x] =
             [method |-> e, version |-> v, path |-> p, params |-> q, headers |-> h,
              ranges |-> x, body |-> b]
      /\ [r EXCEPT !.body = x] =
             [method |-> e, version |-> v, path |-> p, params |-> q, headers |-> h,
              ranges |-> g, body |-> x]
  BY <1>3, <1>4, RequestChanged
<1>6. r = Shape(m, h, g, b)
  BY <1>2, <1>3
<1>7. /\ WithHeaders(r, x) = Shape(m, x, g, b)
      /\ WithRanges(r, x) = Shape(m, h, x, b)
      /\ WithBody(r, x) = Shape(m, h, g, x)
  BY <1>2, <1>5 DEF WithHeaders, WithRanges, WithBody
<1> QED
  BY <1>6, <1>7

LEMMA ShapeParts ==
  ASSUME NEW m, NEW h, NEW g, NEW b
  PROVE  LET r == Shape(m, h, g, b)
             bare == Shape(m, <<>>, <<>>, <<>>)
         IN  /\ r.headers = h /\ r.ranges = g /\ r.body = b
             /\ r.method = bare.method /\ r.path = bare.path /\ r.params = bare.params
<1>1. PICK e, v, p, q : \A k, l, c : Shape(m, k, l, c) =
         [method |-> e, version |-> v, path |-> p, params |-> q, headers |-> k,
          ranges |-> l, body |-> c]
  BY DEF Shape
<1> QED
  BY <1>1

LEMMA RequestShape ==
  ASSUME NEW m, NEW n
  PROVE  RequestWith(m, n) = Shape(m, HeaderLines(m, n), <<>>, <<>>)
<1>1. parse_request_line(<<m.text[1]>>) = Shape(m, <<>>, <<>>, <<>>)
  <2>1. <<m.text[1]>>[1] = m.text[1]
    OBVIOUS
  <2> QED
    BY <2>1, LineShape
<1>2. RequestWith(m, n) = WithHeaders(parse_request_line(<<m.text[1]>>), HeaderLines(m, n))
  BY DEF RequestWith, HeaderLines, WithHeaders
<1> QED
  BY <1>1, <1>2, ShapeChanged

\* What is asked of a request is asked of its headers.
LEMMA SameHeaders ==
  ASSUME NEW q, NEW r, q.headers = r.headers
  PROVE  /\ \A name, absent : HeaderOf(q, name, absent) = HeaderOf(r, name, absent)
         /\ is_multipart_form_data(q) = is_multipart_form_data(r)
         /\ BoundaryOf(q) = BoundaryOf(r)
         /\ IsChunked(q) = IsChunked(r) /\ LengthOf(q) = LengthOf(r)
<1>1. \A name, absent : HeaderOf(q, name, absent) = HeaderOf(r, name, absent)
  BY DEF HeaderOf
<1>2. ContentType(q) = ContentType(r)
  BY <1>1 DEF ContentType
<1> QED
  BY <1>1, <1>2 DEF is_multipart_form_data, BoundaryOf, IsChunked, LengthOf

\* The request of a message, and what it is when a part of the body is read.
LEMMA RequestOfMessage ==
  ASSUME NEW m, NEW b, NEW q, q = WithBody(RequestOf(m), b)
  PROVE  LET r == RequestOf(m)
             s == RequestWith(m, LinesOf(m) - 1)
         IN  /\ r = WithRanges(s, parse_range_header(HeaderOf(s, "Range", <<>>)))
             /\ r.headers = s.headers /\ r.headers = HeaderLines(m, LinesOf(m) - 1)
             /\ r.body = <<>> /\ r = WithBody(r, <<>>) /\ q.body = b
             /\ q.method = r.method /\ q.path = r.path /\ q.params = r.params
             /\ q.headers = r.headers /\ q.ranges = r.ranges
             /\ \A x : WithBody(q, x) = WithBody(r, x)
<1> DEFINE s == RequestWith(m, LinesOf(m) - 1)
           h == HeaderLines(m, LinesOf(m) - 1)
           g == parse_range_header(HeaderOf(s, "Range", <<>>))
           r == RequestOf(m)
           bare == Shape(m, <<>>, <<>>, <<>>)
<1>1. r = WithRanges(s, g)
  BY DEF RequestOf, WithRanges
<1>2. s = Shape(m, h, <<>>, <<>>)
  BY RequestShape
<1>3. r = Shape(m, h, g, <<>>)
  <2> HIDE DEF r, s, h, g
  <2>1. WithRanges(Shape(m, h, <<>>, <<>>), g) = Shape(m, h, g, <<>>)
    BY ShapeChanged
  <2> QED
    BY <1>1, <1>2, <2>1
<1>4. q = Shape(m, h, g, b)
  <2>1. q = WithBody(r, b)
    OBVIOUS
  <2> HIDE DEF r, s, h, g
  <2>2. WithBody(Shape(m, h, g, <<>>), b) = Shape(m, h, g, b)
    BY ShapeChanged
  <2> QED
    BY <1>3, <2>1, <2>2
<1> HIDE DEF r, s, h, g
<1>5. s.headers = h
  BY <1>2, ShapeParts
<1>6. /\ r.headers = h /\ r.body = <<>> /\ r.ranges = g
      /\ r.method = bare.method /\ r.path = bare.path /\ r.params = bare.params
  BY <1>3, ShapeParts
<1>7. /\ q.headers = h /\ q.body = b /\ q.ranges = g
      /\ q.method = bare.method /\ q.path = bare.path /\ q.params = bare.params
  BY <1>4, ShapeParts
<1>8. r = WithBody(r, <<>>)
  BY <1>3, ShapeChanged
<1>9. \A x : WithBody(q, x) = WithBody(r, x)
  BY <1>3, <1>4, ShapeChanged
<1> QED
  BY <1>1, <1>5, <1>6, <1>7, <1>8, <1>9 DEF r, s, h, g

-----------------------------------------------------------------------------
(* How far the worker has come in the messages of its client.                *)

\* The client has closed its side, and all that it has sent is read; and message i is
\* not all of it.
AllRead == fin /\ taken = sent
CutShort(i) == AllRead /\ sent < EndOf(i)

\* No message that begins before this place is read past its end, or not up to it.
ClearBefore(place) == \A k \in DOMAIN script : script[k].awkward => place <= BeginOf(k)

\* Between two lines of the head, or behind a part of the last line that came.
InHead(i) ==
    \/ \E n \in 1..LinesOf(script[i]) : /\ taken = BeginOf(i) + 3 * n
                                        /\ req = RequestWith(script[i], n - 1)
    \/ AllRead /\ sent < BodyOfMessage(i)

\* The head is read.
BehindHead(i) == taken = BodyOfMessage(i) /\ req = RequestOf(script[i])

\* Some units of a form are read.
InForm(i) ==
    LET m == script[i]
        n == taken - BodyOfMessage(i)
    IN  /\ is_multipart_form_data(RequestOf(m)) /\ FormMeant(m, RequestOf(m))
        /\ n \in 0..Len(Rest(m)) /\ req.body = <<>>
        /\ parser \in FormReaders(m)[n] /\ parser.run # "fail"
        /\ \/ pc = "with length" /\ n < Len(Rest(m)) /\ need = Len(Rest(m)) - n
           \/ pc = "received" /\ n = Len(Rest(m))

\* It has another body, which is read.
OtherBody(i) ==
    LET m == script[i]
    IN  ~is_multipart_form_data(RequestOf(m)) /\ BodyIsMeant(m, RequestOf(m), i = Len(script))

HasRead(i) == req.body = SubSeq(stream, BodyOfMessage(i) + 1, taken)

InLength(i) ==
    LET m == script[i]
    IN  /\ pc = "with length" /\ OtherBody(i)
        /\ ~IsChunked(RequestOf(m)) /\ LengthOf(RequestOf(m)) = Len(Rest(m))
        /\ taken \in BodyOfMessage(i)..(EndOf(i) - 1) /\ taken + need = EndOf(i) /\ HasRead(i)

UpToTheEnd(i) ==
    LET m == script[i]
    IN  /\ pc = "until close" /\ OtherBody(i)
        /\ ~IsChunked(RequestOf(m)) /\ LengthOf(RequestOf(m)) = -1
        /\ taken >= BodyOfMessage(i) /\ HasRead(i)

\* The body has the first n units of the data in the chunks.
HasData(i, n) ==
    ForImport(RequestOf(script[i])) =>
        LET data == script[i].call.body
        IN  n \in 0..Len(data) /\ req.body = SubSeq(data, 1, n)

\* In chunk k: where its length stands, in its data, behind them.
PlaceOfChunk(i, k) == BeginOf(i) + script[i].chunks[k]

AtSize(i, k) ==
    /\ pc = "chunk size" /\ taken = PlaceOfChunk(i, k) - 1
    /\ HasData(i, DataBefore(script[i], k))

InData(i, k) ==
    LET size == ChunkSize(script[i], k)
    IN  /\ pc = "chunk data" /\ need \in 1..size
        /\ HasData(i, DataBefore(script[i], k) + size - need)
        /\ taken = PlaceOfChunk(i, k) + 2 + size - need \/ CutShort(i)

BehindData(i, k) ==
    LET size == ChunkSize(script[i], k)
    IN  /\ pc = "chunk end" /\ size > 0
        /\ HasData(i, DataBefore(script[i], k) + size)
        /\ taken = PlaceOfChunk(i, k) + 2 + size

AtLast(i, k) ==
    /\ pc = "last chunk" /\ ChunkSize(script[i], k) = 0
    /\ HasData(i, DataBefore(script[i], k))
    /\ taken = PlaceOfChunk(i, k) + 2 \/ CutShort(i)

InChunk(i, k) == AtSize(i, k) \/ InData(i, k) \/ BehindData(i, k) \/ AtLast(i, k)

InChunkedBody(i) ==
    /\ OtherBody(i) /\ IsChunked(RequestOf(script[i]))
    /\ \E k \in DOMAIN script[i].chunks : InChunk(i, k)

\* What is handed on, if anything is, is meant.
IsMeant(i) ==
    LET m == script[i]
        r == RequestOf(m)
    IN  /\ CallMeant(m, r)
        /\ ForImport(r) => MayBeHandedOn(req.body, i)
        /\ StatusesOf(r) \subseteq m.answers \/ CutShort(i)
        /\ m.awkward \/ taken = EndOf(i) \/ AllRead

IsRead(i) ==
    \/ pc = "received" /\ OtherBody(i) /\ IsMeant(i)
    \/ pc = "dispatch" /\ IsMeant(i)

\* Message i is the request that is read.
Reading(i) ==
    /\ IsWord(script[i].text[1], "request")
    /\ \/ pc = "headers" /\ InHead(i)
       \/ pc \in {"continue", "routing"} /\ BehindHead(i)
       \/ /\ req = WithBody(RequestOf(script[i]), req.body)
          /\ InForm(i) \/ InLength(i) \/ UpToTheEnd(i) \/ InChunkedBody(i) \/ IsRead(i)

\* The request that is read is one of the messages.
ReadInv ==
    pc \in InRequest /\ ClearBefore(start) =>
        \E i \in DOMAIN script : start = BeginOf(i) /\ Reading(i)

-----------------------------------------------------------------------------
\* So far nothing has been given up, and every message was read to its end.
InStep == ~late /\ ~gone /\ \A k \in DOMAIN script : k <= Len(replies) => ~script[k].awkward

Current == Len(replies) + 1

\* Between two messages.
AtMessage == AllRead \/ taken = BeginOf(Current)

\* What is answered to message i, and where the next one will be looked for.
Answered(i) ==
    /\ StatusOf \in script[i].answers \/ CutShort(i)
    /\ script[i].awkward \/ taken = EndOf(i) \/ AllRead

Skipping(i) ==
    /\ IsWord(script[i].text[1], "long")
    /\ \/ \E n \in 1..LinesOf(script[i]) : taken = BeginOf(i) + 3 * n
       \/ AllRead /\ sent < BodyOfMessage(i)

\* It is one of these messages, and the next one is looked for where it begins.
Busy == InRequest \union {"skip headers", "reply", "reply body"}

InPlace ==
    /\ Len(replies) <= Len(script)
    /\ pc \in {"keep_alive", "request line"} => AtMessage
    /\ pc \in Busy => Current <= Len(script) /\ start = BeginOf(Current)
    /\ pc = "skip headers" => Skipping(Current)
    /\ pc \in {"reply", "reply body"} => Answered(Current)
    /\ pc = "reply body" => res.head

StepInv == InStep => InPlace

-----------------------------------------------------------------------------
(* Parts of sequences.                                                      *)

LEMMA SameUnits ==
  ASSUME NEW S, NEW T, NEW s \in Seq(S), NEW t \in Seq(T), Len(s) = Len(t),
         \A k \in 1..Len(s) : s[k] = t[k]
  PROVE  s = t
<1>1. S \subseteq S \union T /\ T \subseteq S \union T
  OBVIOUS
<1>2. s \in Seq(S \union T) /\ t \in Seq(S \union T)
  BY <1>1, SeqMonotonic
<1> QED
  BY <1>2, SeqEqual

LEMMA PartFacts ==
  ASSUME NEW S, NEW s \in Seq(S), NEW a \in Nat, NEW n \in Nat, a + n <= Len(s)
  PROVE  /\ SubSeq(s, a + 1, a + n) \in Seq(S) /\ Len(SubSeq(s, a + 1, a + n)) = n
         /\ \A k \in 1..n : SubSeq(s, a + 1, a + n)[k] = s[a + k]
<1>1. Len(s) \in Nat /\ \A k \in 1..Len(s) : s[k] \in S
  BY LenProperties, ElementOfSeq
<1>2. a + 1 \in Int /\ a + n \in Int /\ \A k \in (a + 1)..(a + n) : s[k] \in S
  BY <1>1
<1>3. /\ SubSeq(s, a + 1, a + n) \in Seq(S)
      /\ Len(SubSeq(s, a + 1, a + n)) = IF a + 1 <= a + n THEN (a + n) - (a + 1) + 1 ELSE 0
      /\ \A k \in 1..((a + n) - (a + 1) + 1) : SubSeq(s, a + 1, a + n)[k] = s[(a + 1) + k - 1]
  BY <1>2, SubSeqProperties
<1>4. \A k \in 1..n : k \in 1..((a + n) - (a + 1) + 1) /\ (a + 1) + k - 1 = a + k
  OBVIOUS
<1>5. \A k \in 1..n : SubSeq(s, a + 1, a + n)[k] = s[a + k]
  BY <1>3, <1>4
<1>6. Len(SubSeq(s, a + 1, a + n)) = n
  BY <1>3
<1> QED
  BY <1>3, <1>5, <1>6

LEMMA SameParts ==
  ASSUME NEW S, NEW s \in Seq(S), NEW a \in Nat, NEW T, NEW t \in Seq(T), NEW b \in Nat,
         NEW n \in Nat, a + n <= Len(s), b + n <= Len(t), \A k \in 1..n : s[a + k] = t[b + k]
  PROVE  SubSeq(s, a + 1, a + n) = SubSeq(t, b + 1, b + n)
<1>1. /\ SubSeq(s, a + 1, a + n) \in Seq(S) /\ Len(SubSeq(s, a + 1, a + n)) = n
      /\ \A k \in 1..n : SubSeq(s, a + 1, a + n)[k] = s[a + k]
  BY PartFacts
<1>2. /\ SubSeq(t, b + 1, b + n) \in Seq(T) /\ Len(SubSeq(t, b + 1, b + n)) = n
      /\ \A k \in 1..n : SubSeq(t, b + 1, b + n)[k] = t[b + k]
  BY PartFacts
<1> DEFINE u == SubSeq(s, a + 1, a + n)
           v == SubSeq(t, b + 1, b + n)
<1>3. /\ u \in Seq(S) /\ v \in Seq(T) /\ Len(u) = Len(v) /\ Len(u) = n
      /\ \A k \in 1..n : u[k] = v[k]
  BY <1>1, <1>2
<1> HIDE DEF u, v
<1>4. u = v
  BY <1>3, SameUnits
<1> QED
  BY <1>4 DEF u, v

LEMMA PartsJoined ==
  ASSUME NEW S, NEW s \in Seq(S), NEW a \in Nat, NEW b \in Nat, NEW c \in Nat,
         a <= b, b <= c, c <= Len(s)
  PROVE  SubSeq(s, a + 1, b) \o SubSeq(s, b + 1, c) = SubSeq(s, a + 1, c)
<1>1. a + 1 \in 1..(Len(s) + 1) /\ b \in ((a + 1) - 1)..Len(s) /\ c \in b..Len(s)
  BY LenProperties
<1> QED
  BY <1>1, ConcatAdjacentSubSeq

\* What SocketStream::read gets.
LEMMA PieceRead ==
  ASSUME InputOK, NEW limit \in Nat, limit > 0, Arrived # <<>>
  PROVE  LET n == Len(Piece(limit))
         IN  /\ n \in 1..limit /\ n <= RecvBuf /\ taken + n <= sent
             /\ Piece(limit) = SubSeq(stream, taken + 1, taken + n)
             /\ Piece(limit) \in Seq(Range(stream))
<1> DEFINE T == {limit, RecvBuf, Len(Arrived)}
           c == CHOOSE n \in T : \A k \in T : n <= k
<1>1. /\ Arrived \in Seq(Range(stream)) /\ Len(Arrived) \in Nat /\ Len(Arrived) = sent - taken
      /\ Len(Arrived) # 0
  BY ArrivedFacts
<1>2. /\ stream \in Seq(Range(stream)) /\ Len(stream) \in Nat
      /\ sent \in 0..Len(stream) /\ taken \in 0..sent
  BY StreamFacts DEF InputOK
<1>3. RecvBuf \in Nat /\ RecvBuf > 0
  BY LimitsAssumption
<1>4. T \in SUBSET Nat /\ T # {}
  BY <1>1, <1>3
<1>5. \E x \in T : \A y \in T : x <= y
  <2> HIDE DEF T
  <2> QED
    BY <1>4, LeastOf
<1>6. c \in T /\ \A k \in T : c <= k
  <2> HIDE DEF T
  <2> QED
    BY <1>5
<1>7. c \in 1..limit /\ c <= RecvBuf /\ c <= Len(Arrived) /\ c \in Nat
  <2> HIDE DEF c
  <2> QED
    BY <1>1, <1>3, <1>6
<1>8. Piece(limit) = SubSeq(Arrived, 1, c)
  BY DEF Piece
<1> HIDE DEF c, T
<1>9. Piece(limit) = SubSeq(stream, taken + 1, taken + c)
  <2>1. \A k \in 1..Len(Arrived) : Arrived[k] = stream[taken + k]
    <3>1. taken + Len(Arrived) = sent /\ taken \in Nat
      BY <1>1, <1>2
    <3> QED
      BY <1>1, <1>2, <3>1, PartFacts DEF Arrived
  <2>2. \A k \in 1..c : Arrived[0 + k] = stream[taken + k]
    BY <1>1, <1>7, <2>1
  <2>3. SubSeq(Arrived, 0 + 1, 0 + c) = SubSeq(stream, taken + 1, taken + c)
    <3>1. 0 + c <= Len(Arrived) /\ taken + c <= Len(stream) /\ taken \in Nat /\ 0 \in Nat
      BY <1>1, <1>2, <1>7
    <3> QED
      BY <1>1, <1>2, <1>7, <2>2, <3>1, SameParts
  <2>4. 0 + 1 = 1 /\ 0 + c = c
    BY <1>7
  <2> QED
    BY <1>8, <2>3, <2>4
<1>10. Len(Piece(limit)) = c /\ Piece(limit) \in Seq(Range(stream))
  <2>1. taken + c <= Len(stream) /\ taken \in Nat
    BY <1>1, <1>2, <1>7
  <2> QED
    BY <1>2, <1>7, <1>9, <2>1, PartFacts
<1>11. taken + c <= sent
  BY <1>1, <1>2, <1>7
<1> QED
  BY <1>7, <1>9, <1>10, <1>11

\* What a message has behind its head.
LEMMA RestFacts ==
  ASSUME InputOK, NEW i \in 1..Len(script)
  PROVE  LET m == script[i]
         IN  /\ BodyOfMessage(i) \in Nat /\ EndOf(i) \in Nat /\ EndOf(i) <= Len(stream)
             /\ BeginOf(i) \in Nat /\ BodyOfMessage(i) = BeginOf(i) + HeadOf(m)
             /\ Len(Rest(m)) \in Nat /\ EndOf(i) = BodyOfMessage(i) + Len(Rest(m))
             /\ Rest(m) \in Seq(Range(m.text)) /\ (Rest(m) = <<>> <=> Len(Rest(m)) = 0)
             /\ \A k \in 0..Len(Rest(m)) : \A n \in k..Len(Rest(m)) :
                   SubSeq(stream, BodyOfMessage(i) + k + 1, BodyOfMessage(i) + n)
                     = SubSeq(Rest(m), k + 1, n)
             /\ SubSeq(stream, BodyOfMessage(i) + 1, EndOf(i)) = Rest(m)
<1> DEFINE m == script[i]
           t == m.text
           h == HeadOf(m)
           B == BodyOfMessage(i)
           R == Rest(m)
<1>1. /\ t \in Seq(Range(t)) /\ Len(t) \in Nat /\ h \in 5..Len(t)
  BY HeadFacts
<1>2. /\ BeginOf(i) \in 0..Len(stream) /\ EndOf(i) = BeginOf(i) + Len(t)
      /\ \A k \in 1..Len(t) : stream[BeginOf(i) + k] = t[k]
      /\ BeginOf(i + 1) \in 0..Len(stream)
      /\ stream \in Seq(Range(stream)) /\ Len(stream) \in Nat
  <2>1. Len(script) \in Nat /\ i \in 1..(Len(script) + 1) /\ i + 1 \in 1..(Len(script) + 1)
    BY MessageFacts
  <2> QED
    BY <2>1, MessageFacts, StreamFacts
<1>3. B = BeginOf(i) + h
  BY DEF BodyOfMessage
<1>4. BeginOf(i) \in Nat /\ B \in Nat /\ EndOf(i) \in Nat /\ EndOf(i) <= Len(stream)
      /\ h \in Nat /\ Len(t) - h \in Nat /\ EndOf(i) = B + (Len(t) - h)
  <2>1. EndOf(i) = BeginOf(i + 1)
    BY DEF EndOf
  <2> HIDE DEF t, h, B, m
  <2> QED
    BY <1>1, <1>2, <1>3, <2>1
<1>5. R \in Seq(Range(t)) /\ Len(R) = Len(t) - h /\ \A k \in 1..Len(R) : R[k] = t[h + k]
  <2>1. R = SubSeq(t, h + 1, h + (Len(t) - h))
    <3>1. h + (Len(t) - h) = Len(t)
      BY <1>1, <1>4
    <3>2. R = SubSeq(t, h + 1, Len(t))
      BY DEF Rest
    <3> QED
      BY <3>1, <3>2
  <2> HIDE DEF t, h, R, m
  <2>2. h + (Len(t) - h) <= Len(t)
    BY <1>1, <1>4
  <2> QED
    BY <1>1, <1>4, <2>1, <2>2, PartFacts
<1> HIDE DEF m, t, h, B, R
<1>6. \A k \in 1..Len(R) : stream[B + k] = R[k]
  <2> TAKE k \in 1..Len(R)
  <2>1. h + k \in 1..Len(t) /\ BeginOf(i) + (h + k) = B + k
    BY SMTT(40), <1>1, <1>3, <1>4, <1>5
  <2> QED
    BY <1>2, <1>5, <2>1
<1>7. \A k \in 0..Len(R) : \A n \in k..Len(R) :
         SubSeq(stream, B + k + 1, B + n) = SubSeq(R, k + 1, n)
  <2> TAKE k \in 0..Len(R)
  <2> TAKE n \in k..Len(R)
  <2>1. /\ k \in Nat /\ n - k \in Nat /\ B + k \in Nat /\ (B + k) + (n - k) = B + n
        /\ k + (n - k) = n /\ B + n <= Len(stream) /\ n <= Len(R)
    BY <1>4, <1>5
  <2>2. \A j \in 1..(n - k) : stream[(B + k) + j] = R[k + j]
    <3> TAKE j \in 1..(n - k)
    <3>1. k + j \in 1..Len(R) /\ (B + k) + j = B + (k + j)
      BY <1>4, <1>5
    <3> QED
      BY <1>6, <3>1
  <2>3. SubSeq(stream, (B + k) + 1, (B + k) + (n - k)) = SubSeq(R, k + 1, k + (n - k))
    <3>1. PICK a, c : a = B + k /\ c = n - k
      OBVIOUS
    <3>2. /\ a \in Nat /\ c \in Nat /\ k \in Nat /\ a + c <= Len(stream) /\ k + c <= Len(R)
          /\ \A j \in 1..c : stream[a + j] = R[k + j]
      BY <2>1, <2>2, <3>1
    <3>3. PICK S, T : stream \in Seq(S) /\ R \in Seq(T)
      BY <1>2, <1>5
    <3>4. SubSeq(stream, a + 1, a + c) = SubSeq(R, k + 1, k + c)
      BY <3>2, <3>3, SameParts
    <3> QED
      BY <3>1, <3>4
  <2> QED
    BY <2>1, <2>3
<1>8. SubSeq(stream, B + 1, EndOf(i)) = R
  <2>1. 0 \in 0..Len(R) /\ Len(R) \in 0..Len(R) /\ B + 0 + 1 = B + 1 /\ 0 + 1 = 1
        /\ EndOf(i) = B + Len(R)
    BY <1>4, <1>5
  <2>2. SubSeq(stream, B + 1, EndOf(i)) = SubSeq(R, 1, Len(R))
    BY <1>7, <2>1
  <2> QED
    BY <1>5, <2>2, SubSeqFull
<1>9. R = <<>> <=> Len(R) = 0
  BY <1>5, EmptySeq
<1> QED
  BY <1>3, <1>4, <1>5, <1>7, <1>8, <1>9 DEF m, t, h, B, R

-----------------------------------------------------------------------------
(* The parsers that may have read a part of a form.                          *)

ReadersFrom(m, k, n, readers) ==
    {Parse(p, SubSeq(Rest(m), k + 1, n)) : p \in {q \in readers : q.run # "fail"}}

ReadersAt(m, f, n) ==
    IF n = 0 THEN {NewParser(BoundaryOf(RequestOf(m)))}
    ELSE UNION {ReadersFrom(m, k, n, f[k]) : k \in {k \in 0..(n - 1) : n - k <= RecvBuf}}

AreReaders(f, m, last) == f = [n \in 0..last |-> ReadersAt(m, f, n)]

LEMMA ReadersDependOn ==
  ASSUME NEW m, NEW f, NEW g, NEW n \in Nat, \A k \in 0..(n - 1) : f[k] = g[k]
  PROVE  ReadersAt(m, f, n) = ReadersAt(m, g, n)
<1> DEFINE K == {k \in 0..(n - 1) : n - k <= RecvBuf}
<1>1. \A k \in K : ReadersFrom(m, k, n, f[k]) = ReadersFrom(m, k, n, g[k])
  OBVIOUS
<1>2. {ReadersFrom(m, k, n, f[k]) : k \in K} = {ReadersFrom(m, k, n, g[k]) : k \in K}
  <2> HIDE DEF K
  <2> QED
    BY <1>1
<1>3. /\ ReadersAt(m, f, n) = IF n = 0 THEN {NewParser(BoundaryOf(RequestOf(m)))}
                              ELSE UNION {ReadersFrom(m, k, n, f[k]) : k \in K}
      /\ ReadersAt(m, g, n) = IF n = 0 THEN {NewParser(BoundaryOf(RequestOf(m)))}
                              ELSE UNION {ReadersFrom(m, k, n, g[k]) : k \in K}
  BY DEF ReadersAt
<1> QED
  BY <1>2, <1>3

LEMMA ReadersExist ==
  ASSUME NEW m, NEW last \in Nat
  PROVE  \E f : AreReaders(f, m, last)
<1> DEFINE Bad == {k \in Nat : ~\E f : AreReaders(f, m, k)}
<1> SUFFICES ASSUME last \in Bad PROVE FALSE
  OBVIOUS
<1>1. PICK b \in Bad : \A k \in Bad : b <= k
  <2>1. Bad \in SUBSET Nat /\ Bad # {}
    OBVIOUS
  <2> HIDE DEF Bad
  <2> QED
    BY <2>1, LeastOf
<1>2. b \in Nat /\ ~\E f : AreReaders(f, m, b)
  OBVIOUS
\* A function that is right below b.
<1>3. PICK f : \A n \in 0..(b - 1) : f[n] = ReadersAt(m, f, n)
  <2>1. CASE b = 0
    <3>1. 0..(b - 1) = {}
      BY <2>1
    <3> QED
      BY <3>1
  <2>2. CASE b # 0
    <3>1. b - 1 \in Nat /\ b - 1 \notin Bad
      BY <1>1, <1>2, <2>2
    <3>2. PICK f : AreReaders(f, m, b - 1)
      BY <3>1
    <3>3. \A n \in 0..(b - 1) : f[n] = ReadersAt(m, f, n)
      BY <3>2 DEF AreReaders
    <3> QED
      BY <3>3
  <2> QED
    BY <2>1, <2>2
<1> DEFINE g == [n \in 0..b |-> ReadersAt(m, f, n)]
<1>4. \A n \in 0..(b - 1) : g[n] = f[n]
  <2>1. \A n \in 0..(b - 1) : n \in 0..b
    BY <1>2
  <2> QED
    BY <1>3, <2>1
<1>5. \A n \in 0..b : ReadersAt(m, f, n) = ReadersAt(m, g, n)
  <2> SUFFICES ASSUME NEW n \in 0..b PROVE ReadersAt(m, f, n) = ReadersAt(m, g, n)
    OBVIOUS
  <2>1. n \in Nat /\ \A k \in 0..(n - 1) : k \in 0..(b - 1)
    BY <1>2
  <2> HIDE DEF g
  <2>2. \A k \in 0..(n - 1) : f[k] = g[k]
    BY <1>4, <2>1
  <2> QED
    BY <2>1, <2>2, ReadersDependOn
<1>6. AreReaders(g, m, b)
  <2> DEFINE w == g
  <2>1. w = [n \in 0..b |-> ReadersAt(m, f, n)]
    OBVIOUS
  <2>2. \A n \in 0..b : ReadersAt(m, f, n) = ReadersAt(m, w, n)
    BY <1>5
  <2> HIDE DEF w
  <2>3. [n \in 0..b |-> ReadersAt(m, f, n)] = [n \in 0..b |-> ReadersAt(m, w, n)]
    BY <2>2
  <2>4. AreReaders(w, m, b)
    BY <2>1, <2>3 DEF AreReaders
  <2> QED
    BY <2>4 DEF w
<1> QED
  BY <1>2, <1>6

\* They begin anew, and a piece of at most RecvBuf units takes them further.
LEMMA FormRead ==
  ASSUME NEW m, Len(Rest(m)) \in Nat
  PROVE  /\ FormReaders(m)[0] = {NewParser(BoundaryOf(RequestOf(m)))}
         /\ \A n \in 0..Len(Rest(m)) : \A k \in 0..(n - 1) : \A p \in FormReaders(m)[k] :
               n - k <= RecvBuf /\ p.run # "fail" =>
                  Parse(p, SubSeq(Rest(m), k + 1, n)) \in FormReaders(m)[n]
<1> DEFINE last == Len(Rest(m))
           F == CHOOSE f : AreReaders(f, m, last)
<1>1. FormReaders(m) = F
  BY DEF FormReaders, AreReaders, ReadersAt, ReadersFrom
<1>2. AreReaders(F, m, last)
  <2>1. \E f : AreReaders(f, m, last)
    BY ReadersExist
  <2> QED
    BY <2>1
<1> HIDE DEF F, last
<1>3. \A n \in 0..last : F[n] = ReadersAt(m, F, n)
  BY <1>2 DEF AreReaders
<1>4. last \in Nat
  BY DEF last
<1>5. F[0] = {NewParser(BoundaryOf(RequestOf(m)))}
  <2>1. 0 \in 0..last
    BY <1>4
  <2> QED
    BY <1>3, <2>1 DEF ReadersAt
<1>6. ASSUME NEW n \in 0..last, NEW k \in 0..(n - 1), NEW p \in F[k],
             n - k <= RecvBuf, p.run # "fail"
      PROVE  Parse(p, SubSeq(Rest(m), k + 1, n)) \in F[n]
  <2>1. n # 0
    BY <1>4
  <2>2. F[n] = UNION {ReadersFrom(m, j, n, F[j]) : j \in {j \in 0..(n - 1) : n - j <= RecvBuf}}
    BY <1>3, <2>1 DEF ReadersAt
  <2>3. Parse(p, SubSeq(Rest(m), k + 1, n)) \in ReadersFrom(m, k, n, F[k])
    BY <1>6 DEF ReadersFrom
  <2> QED
    BY <1>6, <2>2, <2>3
<1> QED
  BY <1>1, <1>5, <1>6 DEF last

LEMMA MeantAsWritten ==
  ASSUME InputOK, NEW i \in 1..Len(script), IsWord(script[i].text[1], "request")
  PROVE  RequestMeant(script[i], i = Len(script))
<1>1. MessageMeant(script[i], i = Len(script))
  BY HeadFacts
<1> QED
  BY <1>1 DEF MessageMeant

-----------------------------------------------------------------------------
(* The steps of a worker that reads message i.                               *)

\* It goes on reading the message, or answers it, or ends the process.
Proceeds(i) ==
    \/ Reading(i)'
    \/ pc' = "terminated"
    \/ pc' = "reply" /\ (~late' /\ ~gone' => Answered(i)')

LEMMA AnswerStatus ==
  ASSUME ConnInv, pc \notin {"reply", "reply body", "terminated"}, NEW status, status # -1,
         Answer(status)
  PROVE  StatusOf' = status /\ pc' = "reply"
<1>1. res = NoResponse
  BY DEF ConnInv, ResponseOK
<1>2. res' = [NoResponse EXCEPT !.status = status] /\ pc' = "reply"
  BY <1>1 DEF Answer
<1>3. res'.status = status
  BY <1>2 DEF NoResponse
<1> QED
  BY <1>2, <1>3 DEF StatusOf

\* A read that fails, and what a failure means for a message that is not read to its end.
GivenUp == (UNCHANGED reading /\ (gone \/ AtEnd)) \/ late' = TRUE

LEMMA CutOff ==
  ASSUME InputOK, UNCHANGED client, NEW i \in 1..Len(script), fin, taken' = sent,
         sent < EndOf(i)
  PROVE  CutShort(i)' /\ AllRead'
<1>1. EndOf(i)' = EndOf(i) /\ fin' /\ sent' = sent
  BY SameMessages DEF client
<1> QED
  BY <1>1 DEF CutShort, AllRead

LEMMA EndReached ==
  ASSUME InputOK, AtEnd
  PROVE  fin /\ taken = sent
<1>1. Len(Arrived) = 0 /\ Len(Arrived) = sent - taken
  BY ArrivedFacts DEF AtEnd
<1>2. sent \in Int /\ taken \in Int
  BY StreamFacts DEF InputOK
<1> QED
  BY <1>1, <1>2 DEF AtEnd

LEMMA FailureAnswered ==
  ASSUME ConnInv, UNCHANGED client, NEW i \in 1..Len(script), GivenUp, pc' = "reply",
         taken < EndOf(i) \/ CutShort(i)
  PROVE  Proceeds(i)
<1>1. CASE late' = TRUE
  BY <1>1 DEF Proceeds
<1>2. CASE gone
  BY <1>2 DEF Proceeds, client
<1>3. CASE AtEnd /\ taken' = taken
  <2>1. fin /\ taken = sent
    BY <1>3, EndReached DEF ConnInv
  <2>2. sent < EndOf(i)
    BY <2>1 DEF CutShort
  <2>3. CutShort(i)' /\ AllRead'
    BY <1>3, <2>1, <2>2, CutOff DEF ConnInv
  <2> QED
    BY <2>3 DEF Proceeds, Answered
<1> QED
  BY <1>1, <1>2, <1>3 DEF GivenUp, reading

LEMMA RefusalAnswered ==
  ASSUME ConnInv, UNCHANGED client, NEW i \in 1..Len(script),
         pc \notin {"reply", "reply body", "terminated"}, NEW status, status # -1,
         Answer(status), status \in script[i].answers,
         script[i].awkward \/ taken' = EndOf(i)
  PROVE  Proceeds(i)
<1>1. StatusOf' = status /\ pc' = "reply"
  BY AnswerStatus
<1>2. script' = script /\ EndOf(i)' = EndOf(i)
  BY SameMessages DEF client
<1> QED
  BY <1>1, <1>2 DEF Proceeds, Answered

LEMMA NothingArrived ==
  ASSUME InputOK, AllRead
  PROVE  Arrived = <<>> /\ ~(LineLength > 0)
<1>1. Arrived = <<>> /\ Len(Arrived) = 0
  <2>1. sent \in Int /\ taken = sent
    BY StreamFacts DEF AllRead, InputOK
  <2>2. Len(Arrived) = sent - taken /\ (Arrived = <<>> <=> Len(Arrived) = 0)
    BY ArrivedFacts
  <2> QED
    BY <2>1, <2>2
<1>2. ASSUME LineLength > 0 PROVE FALSE
  <2>1. LineLength \in 1..Len(Arrived)
    BY <1>2, LineFacts
  <2> QED
    BY <1>1, <2>1
<1> QED
  BY <1>1, <1>2

\* Where the lines of the head stand in the stream.
LEMMA LineOfHead ==
  ASSUME InputOK, NEW i \in 1..Len(script), NEW n \in 1..LinesOf(script[i])
  PROVE  LET m == script[i]
             p == BeginOf(i) + 3 * n
         IN  /\ n < LinesOf(m) => /\ stream[p + 1] = m.text[3 * n + 1]
                                  /\ IsWord(m.text[3 * n + 1], "header")
                                  /\ stream[p + 2] = CR /\ stream[p + 3] = LF
             /\ n = LinesOf(m) => /\ stream[p + 1] = CR /\ stream[p + 2] = LF
                                  /\ p + 2 = BodyOfMessage(i)
             /\ p + 1 < BodyOfMessage(i) /\ BodyOfMessage(i) <= EndOf(i)
             /\ n < LinesOf(m) => p + 3 < BodyOfMessage(i)
<1> DEFINE m == script[i]
           L == LinesOf(m)
           p == BeginOf(i) + 3 * n
<1>1. /\ L \in 1..Len(m.text) /\ HeadHasLines(m.text, L) /\ HeadOf(m) = 3 * L + 2
      /\ HeadOf(m) \in 5..Len(m.text) /\ Len(m.text) \in Nat
  BY HeadFacts
<1>2. /\ BeginOf(i) \in Nat /\ BodyOfMessage(i) = BeginOf(i) + HeadOf(m)
      /\ EndOf(i) = BeginOf(i) + Len(m.text)
      /\ \A k \in 1..Len(m.text) : stream[BeginOf(i) + k] = m.text[k]
  BY MessageFacts, RestFacts
<1> HIDE DEF m, L
<1>3. n \in Nat /\ n <= L /\ L \in Nat /\ 3 * L + 2 <= Len(m.text)
  BY <1>1 DEF L, m
<1>4. ASSUME n < L
      PROVE  /\ stream[p + 1] = m.text[3 * n + 1] /\ IsWord(m.text[3 * n + 1], "header")
             /\ stream[p + 2] = CR /\ stream[p + 3] = LF /\ p + 3 < BodyOfMessage(i)
  <2>1. n + 1 \in 1..L /\ n + 1 > 1 /\ 3 * (n + 1) - 2 = 3 * n + 1 /\ 3 * (n + 1) - 1 = 3 * n + 2
        /\ 3 * (n + 1) = 3 * n + 3
    BY <1>3, <1>4
  <2>2. /\ IsWord(m.text[3 * n + 1], "header")
        /\ m.text[3 * n + 2] = CR /\ m.text[3 * n + 3] = LF
    BY <1>1, <2>1 DEF HeadHasLines
  <2>3. PICK b \in Nat, c \in Nat : b = BeginOf(i) /\ c = Len(m.text)
    BY <1>1, <1>2
  <2>4. /\ 3 * n + 1 \in 1..c /\ p + 1 = b + (3 * n + 1)
        /\ 3 * n + 2 \in 1..c /\ p + 2 = b + (3 * n + 2)
        /\ 3 * n + 3 \in 1..c /\ p + 3 = b + (3 * n + 3)
    BY SMTT(40), <1>3, <1>4, <2>3
  <2>5. \A k \in 1..c : stream[b + k] = m.text[k]
    BY <1>2, <2>3
  <2>6. stream[p + 1] = m.text[3 * n + 1] /\ stream[p + 2] = m.text[3 * n + 2]
        /\ stream[p + 3] = m.text[3 * n + 3]
    <3> HIDE DEF p
    <3> QED
      BY <2>4, <2>5
  <2>7. p + 3 < BodyOfMessage(i)
    BY <1>1, <1>2, <1>3, <1>4
  <2> HIDE DEF p
  <2> QED
    BY <2>2, <2>6, <2>7
<1>5. ASSUME n = L
      PROVE  /\ stream[p + 1] = CR /\ stream[p + 2] = LF /\ p + 2 = BodyOfMessage(i)
  <2>1. m.text[3 * n + 1] = CR /\ m.text[3 * n + 2] = LF
    BY <1>1, <1>5 DEF HeadHasLines
  <2>2. PICK b \in Nat, c \in Nat : b = BeginOf(i) /\ c = Len(m.text)
    BY <1>1, <1>2
  <2>3. /\ 3 * n + 1 \in 1..c /\ p + 1 = b + (3 * n + 1)
        /\ 3 * n + 2 \in 1..c /\ p + 2 = b + (3 * n + 2)
    BY <1>3, <1>5, <2>2
  <2>4. \A k \in 1..c : stream[b + k] = m.text[k]
    BY <1>2, <2>2
  <2>5. stream[p + 1] = m.text[3 * n + 1] /\ stream[p + 2] = m.text[3 * n + 2]
    <3> HIDE DEF p
    <3> QED
      BY <2>3, <2>4
  <2>6. p + 2 = BodyOfMessage(i)
    BY <1>1, <1>2, <1>3, <1>5
  <2> HIDE DEF p
  <2> QED
    BY <2>1, <2>5, <2>6
<1>6. p + 1 < BodyOfMessage(i) /\ BodyOfMessage(i) <= EndOf(i)
  BY <1>1, <1>2, <1>3
<1> QED
  BY <1>4, <1>5, <1>6 DEF m, L

\* What is known of message i at each place of the worker.
LEMMA ReadingAt ==
  ASSUME NEW i, Reading(i)
  PROVE  /\ pc \in InRequest
         /\ IsWord(script[i].text[1], "request")
         /\ pc = "headers" => InHead(i)
         /\ pc \in {"continue", "routing"} => BehindHead(i)
         /\ pc \notin {"headers", "continue", "routing"} =>
               req = WithBody(RequestOf(script[i]), req.body)
         /\ pc = "with length" => InForm(i) \/ InLength(i)
         /\ pc = "until close" => UpToTheEnd(i)
         /\ pc \in {"chunk size", "chunk data", "chunk end", "last chunk"} => InChunkedBody(i)
         /\ pc = "received" => InForm(i) \/ (OtherBody(i) /\ IsMeant(i))
         /\ pc = "dispatch" => IsMeant(i)
<1>1. InForm(i) => pc \in {"with length", "received"}
  BY DEF InForm
<1>2. InLength(i) => pc = "with length"
  BY DEF InLength
<1>3. UpToTheEnd(i) => pc = "until close"
  BY DEF UpToTheEnd
<1>4. InChunkedBody(i) => pc \in {"chunk size", "chunk data", "chunk end", "last chunk"}
  BY DEF InChunkedBody, InChunk, AtSize, InData, BehindData, AtLast
<1>5. IsRead(i) => \/ pc = "received" /\ OtherBody(i) /\ IsMeant(i)
                   \/ pc = "dispatch" /\ IsMeant(i)
  BY DEF IsRead
<1>6. /\ IsWord(script[i].text[1], "request")
      /\ \/ pc = "headers" /\ InHead(i)
         \/ pc \in {"continue", "routing"} /\ BehindHead(i)
         \/ /\ req = WithBody(RequestOf(script[i]), req.body)
            /\ InForm(i) \/ InLength(i) \/ UpToTheEnd(i) \/ InChunkedBody(i) \/ IsRead(i)
  BY DEF Reading
<1>7. pc \in InRequest
  BY <1>1, <1>2, <1>3, <1>4, <1>5, <1>6 DEF InRequest
<1> QED
  BY <1>1, <1>2, <1>3, <1>4, <1>5, <1>6, <1>7

LEMMA OneMoreHeader ==
  ASSUME NEW m, NEW n \in Nat, n > 0, NEW u, u = m.text[3 * n + 1]
  PROVE  WithHeaders(RequestWith(m, n - 1), Append(RequestWith(m, n - 1).headers, u))
           = RequestWith(m, n)
<1>1. /\ RequestWith(m, n - 1) = Shape(m, HeaderLines(m, n - 1), <<>>, <<>>)
      /\ RequestWith(m, n) = Shape(m, HeaderLines(m, n), <<>>, <<>>)
  BY RequestShape
<1>2. Shape(m, HeaderLines(m, n - 1), <<>>, <<>>).headers = HeaderLines(m, n - 1)
  BY ShapeParts
<1>3. Append(HeaderLines(m, n - 1), u) = HeaderLines(m, n)
  <2> DEFINE h == [k \in 1..(n - 1) |-> m.text[3 * k + 1]]
             S == {m.text[3 * k + 1] : k \in 1..n}
  <2>1. h \in Seq(S) /\ Len(h) = n - 1
    <3>1. n - 1 \in Nat /\ h \in [1..(n - 1) -> S]
      OBVIOUS
    <3> HIDE DEF h, S
    <3> QED
      BY <3>1
  <2>2. [k \in 1..n |-> m.text[3 * k + 1]] \in Seq(S) /\ u \in S
    <3>1. [k \in 1..n |-> m.text[3 * k + 1]] \in [1..n -> S] /\ n \in 1..n
      OBVIOUS
    <3> HIDE DEF S
    <3>2. u \in S
      BY DEF S
    <3> QED
      BY <3>1, <3>2
  <2>3. Len([k \in 1..n |-> m.text[3 * k + 1]]) = n
    OBVIOUS
  <2>4. /\ Append(h, u) \in Seq(S) /\ Len(Append(h, u)) = n
        /\ \A k \in 1..(n - 1) : Append(h, u)[k] = h[k]
        /\ Append(h, u)[n] = u
    <3> HIDE DEF h, S
    <3> QED
      BY <2>1, <2>2
  <2>5. \A k \in 1..n : Append(h, u)[k] = m.text[3 * k + 1]
    <3> TAKE k \in 1..n
    <3>1. CASE k = n
      BY <2>4, <3>1
    <3>2. CASE k # n
      <4>1. k \in 1..(n - 1)
        BY <3>2
      <4>2. h[k] = m.text[3 * k + 1]
        BY <4>1
      <4> HIDE DEF h
      <4> QED
        BY <2>4, <4>1, <4>2
    <3> QED
      BY <3>1, <3>2
  <2> DEFINE g == [k \in 1..n |-> m.text[3 * k + 1]]
  <2>6. \A k \in 1..n : g[k] = m.text[3 * k + 1]
    OBVIOUS
  <2>7. g \in Seq(S) /\ Len(g) = n
    BY <2>2, <2>3
  <2>8. Append(h, u) = g
    <3> HIDE DEF h, S, g
    <3>1. \A k \in 1..n : Append(h, u)[k] = g[k]
      BY <2>5, <2>6
    <3> QED
      BY <2>4, <2>7, <3>1, SameUnits
  <2> QED
    BY <2>8 DEF HeaderLines
<1>4. WithHeaders(Shape(m, HeaderLines(m, n - 1), <<>>, <<>>), HeaderLines(m, n))
        = Shape(m, HeaderLines(m, n), <<>>, <<>>)
  BY ShapeChanged
<1> QED
  BY <1>1, <1>2, <1>3, <1>4

LEMMA HeaderProceeds ==
  ASSUME ConnInv, ReadHeader, NEW i \in 1..Len(script), Reading(i)
  PROVE  Proceeds(i)
<1> DEFINE m == script[i]
           L == LinesOf(m)
           line == SubSeq(Arrived, 1, LineLength)
<1>1. UNCHANGED client /\ pc = "headers" /\ InputOK
  BY DEF ReadHeader, ConnInv
<1>2. InHead(i) /\ IsWord(m.text[1], "request")
  BY <1>1, ReadingAt
<1>3. /\ script' = script /\ BeginOf(i)' = BeginOf(i) /\ BodyOfMessage(i)' = BodyOfMessage(i)
      /\ sent' = sent /\ fin' = fin
  BY <1>1, SameMessages DEF client
<1>4. IsWord(script[i].text[1], "request")'
  BY <1>2, <1>3
<1>5. \/ LineLength > 0 /\ taken' = taken + LineLength /\ GotHeader(line) /\ UNCHANGED res
      \/ GivenUp /\ Answer(400)
  BY DEF ReadHeader, GetLine, GivenUp
<1>6. CASE GivenUp /\ Answer(400)
  <2>1. taken < EndOf(i) \/ CutShort(i)
    <3>1. BodyOfMessage(i) <= EndOf(i) /\ BodyOfMessage(i) \in Int /\ EndOf(i) \in Int
      <4>1. 1 \in 1..L
        <5>1. L \in 1..Len(m.text) /\ Len(m.text) \in Nat
          BY HeadFacts, <1>1
        <5> HIDE DEF L, m
        <5>2. L \in Nat /\ L >= 1
          BY <5>1
        <5> QED
          BY <5>2
      <4> QED
        BY <1>1, <4>1, LineOfHead, RestFacts
    <3>2. CASE \E n \in 1..L : taken = BeginOf(i) + 3 * n
      <4>1. PICK n \in 1..L : taken = BeginOf(i) + 3 * n
        BY <3>2
      <4>2. BeginOf(i) + 3 * n + 1 < BodyOfMessage(i)
        BY <1>1, LineOfHead
      <4>3. taken \in Int
        BY <1>1, StreamFacts DEF InputOK
      <4> QED
        BY <3>1, <4>1, <4>2, <4>3
    <3>3. CASE AllRead /\ sent < BodyOfMessage(i)
      <4>1. sent \in Int
        BY <1>1, StreamFacts DEF InputOK
      <4> QED
        BY <3>1, <3>3, <4>1 DEF CutShort
    <3> QED
      BY <1>2, <3>2, <3>3 DEF InHead
  <2> QED
    BY <1>1, <1>6, <2>1, FailureAnswered DEF Answer
<1>7. CASE LineLength > 0 /\ taken' = taken + LineLength /\ GotHeader(line) /\ UNCHANGED res
  <2>1. PICK n \in 1..L : taken = BeginOf(i) + 3 * n /\ req = RequestWith(m, n - 1)
    BY <1>1, <1>2, <1>7, NothingArrived DEF InHead
  <2>2. L \in Nat /\ n \in Nat /\ n > 0 /\ taken \in Nat /\ sent \in Nat /\ BeginOf(i) \in Nat
        /\ BodyOfMessage(i) \in Nat
    <3>1. L \in Nat
      BY <1>1, HeadFacts
    <3>2. taken \in Nat /\ sent \in Nat
      BY <1>1, StreamFacts DEF InputOK
    <3> QED
      BY <1>1, <3>1, <3>2, RestFacts
  <2>3. CASE n < L
    <3>1. /\ stream[taken + 1] = m.text[3 * n + 1] /\ IsWord(stream[taken + 1], "header")
          /\ stream[taken + 2] = CR /\ stream[taken + 3] = LF /\ taken + 3 < BodyOfMessage(i)
      BY <1>1, <2>1, <2>3, LineOfHead
    <3>2. stream[taken + 1] # LF
      BY <3>1, WordFacts
    <3>3. /\ line[1] = stream[taken + 1] /\ line # CrLf
          /\ \/ LineLength = 3 /\ Len(line) = 3 /\ end_with_crlf(line)
             \/ LineLength < 3 /\ fin /\ taken + LineLength = sent /\ Len(line) < 3
      BY <1>1, <1>7, <3>1, <3>2, WordLine
    <3> HIDE DEF line
    <3>4. parse_header(line) /\ pc' = "headers"
      BY <1>1, <1>7, <3>3 DEF GotHeader
    <3>5. CASE LineLength = 3 /\ Len(line) = 3 /\ end_with_crlf(line)
      <4>1. req' = WithHeaders(req, Append(req.headers, line[1]))
        BY <3>1, <3>3, <3>4, <3>5 DEF parse_header, WithHeaders
      <4>2. req' = RequestWith(m, n)
        BY <2>1, <2>2, <3>1, <3>3, <4>1, OneMoreHeader
      <4>3. n + 1 \in 1..L /\ (n + 1) - 1 = n /\ taken' = BeginOf(i) + 3 * (n + 1)
        BY <1>7, <2>1, <2>2, <2>3, <3>5
      <4>4. InHead(i)'
        BY <1>3, <4>2, <4>3 DEF InHead
      <4> QED
        BY <1>4, <3>4, <4>4 DEF Proceeds, Reading
    <3>6. CASE LineLength < 3 /\ fin /\ taken + LineLength = sent
      <4>1. sent < BodyOfMessage(i)
        <5>1. LineLength \in Int
          BY <1>1, <1>7, LineRead
        <5> QED
          BY <2>2, <3>1, <3>6, <5>1
      <4>2. InHead(i)'
        BY <1>3, <1>7, <3>6, <4>1 DEF InHead, AllRead
      <4> QED
        BY <1>4, <3>4, <4>2 DEF Proceeds, Reading
    <3> QED
      BY <3>3, <3>5, <3>6
  <2>4. CASE n = L
    <3>1. /\ stream[taken + 1] = CR /\ stream[taken + 2] = LF /\ taken + 2 = BodyOfMessage(i)
      BY <1>1, <2>1, <2>4, LineOfHead
    <3>2. \/ LineLength = 2 /\ line = CrLf
          \/ LineLength = 1 /\ line # CrLf /\ fin /\ taken + 1 = sent /\ Len(line) = 1
      BY <1>1, <1>7, <3>1, EmptyLine
    <3> HIDE DEF line
    <3>3. CASE LineLength = 2 /\ line = CrLf
      <4> SUFFICES ASSUME pc' # "terminated" PROVE Proceeds(i)
        BY DEF Proceeds
      <4>1. /\ req' = WithRanges(req, parse_range_header(HeaderOf(req, "Range", <<>>)))
            /\ pc' \in {"continue", "routing"}
        BY <1>7, <3>3 DEF GotHeader, ParseRanges, EndProcess, WithRanges
      <4>2. req' = RequestOf(m)
        BY <2>1, <2>4, <4>1 DEF RequestOf, WithRanges
      <4>3. BehindHead(i)'
        BY <1>3, <1>7, <3>1, <3>3, <4>2 DEF BehindHead
      <4> QED
        BY <1>4, <4>1, <4>3 DEF Proceeds, Reading
    <3>4. CASE LineLength = 1 /\ line # CrLf /\ fin /\ taken + 1 = sent
      <4>1. pc' = "headers"
        BY <1>1, <1>7, <3>4 DEF GotHeader
      <4>2. sent < BodyOfMessage(i)
        BY <2>2, <3>1, <3>4
      <4>3. InHead(i)'
        BY <1>3, <1>7, <3>4, <4>2 DEF InHead, AllRead
      <4> QED
        BY <1>4, <4>1, <4>3 DEF Proceeds, Reading
    <3> QED
      BY <3>2, <3>3, <3>4
  <2> QED
    BY <2>2, <2>3, <2>4
<1> QED
  BY <1>5, <1>6, <1>7

LEMMA ContinueProceeds ==
  ASSUME ConnInv, WriteContinue, NEW i \in 1..Len(script), Reading(i)
  PROVE  Proceeds(i)
<1>1. /\ UNCHANGED client /\ pc = "continue" /\ InputOK /\ req' = req /\ taken' = taken
      /\ pc' = "routing"
  BY DEF WriteContinue, Write, ConnInv, reading
<1>2. BehindHead(i) /\ IsWord(script[i].text[1], "request")
  BY <1>1, ReadingAt
<1>3. script' = script /\ BodyOfMessage(i)' = BodyOfMessage(i)
  BY <1>1, SameMessages DEF client
<1>4. BehindHead(i)'
  BY <1>1, <1>2, <1>3 DEF BehindHead
<1> QED
  BY <1>1, <1>2, <1>3, <1>4 DEF Proceeds, Reading

\* A request that is handed on without a body, or is refused before the body is read.
LEMMA HandedOn ==
  ASSUME ConnInv, Routing, NEW i \in 1..Len(script), Reading(i), ~expect_content(req)
  PROVE  Proceeds(i)
<1> DEFINE m == script[i]
           r == RequestOf(m)
<1>1. /\ UNCHANGED client /\ pc = "routing" /\ InputOK /\ req' = req /\ taken' = taken
      /\ pc' = "dispatch"
  BY DEF Routing, ConnInv, reading
<1>2. taken = BodyOfMessage(i) /\ req = r /\ IsWord(m.text[1], "request")
  BY <1>1, ReadingAt DEF BehindHead
<1>3. /\ script' = script /\ EndOf(i)' = EndOf(i)
  BY <1>1, SameMessages DEF client
<1>4. ~BringsBody(r)
  BY <1>2 DEF BringsBody, expect_content
<1>5. CallMeant(m, r) /\ (Rest(m) = <<>> \/ m.awkward) /\ StatusesOf(r) \subseteq m.answers
  BY <1>1, <1>2, <1>4, MeantAsWritten DEF RequestMeant
<1>6. ~ForImport(r)
  BY <1>4 DEF ForImport, BringsBody
<1>7. m.awkward \/ taken = EndOf(i)
  <2>1. /\ EndOf(i) = BodyOfMessage(i) + Len(Rest(m)) /\ BodyOfMessage(i) \in Nat
        /\ (Rest(m) = <<>> <=> Len(Rest(m)) = 0)
    BY <1>1, RestFacts
  <2> QED
    BY <1>2, <1>5, <2>1
<1>8. r = WithBody(r, r.body)
  BY RequestOfMessage
<1>9. IsMeant(i)'
  <2> HIDE DEF m, r
  <2>1. (m = script[i])' /\ (r = RequestOf(script[i]))'
    BY <1>3 DEF m, r
  <2> QED
    BY <1>1, <1>3, <1>5, <1>6, <1>7 DEF IsMeant, m, r
<1>10. IsRead(i)'
  BY <1>1, <1>9 DEF IsRead
<1>11. Reading(i)'
  BY <1>1, <1>2, <1>3, <1>8, <1>10 DEF Reading
<1> QED
  BY <1>11 DEF Proceeds

LEMMA RefusedUnread ==
  ASSUME ConnInv, Routing, NEW i \in 1..Len(script), Reading(i), expect_content(req),
         NEW status \in {400, 415}, NotRead(req, status)
  PROVE  Proceeds(i)
<1>1. UNCHANGED client /\ pc = "routing" /\ InputOK
  BY DEF Routing, ConnInv
<1>2. req = RequestOf(script[i]) /\ IsWord(script[i].text[1], "request")
  BY <1>1, ReadingAt DEF BehindHead
<1>3. BringsBody(RequestOf(script[i]))
  BY <1>2 DEF BringsBody, expect_content
<1>4. script[i].awkward /\ status \in script[i].answers
  BY <1>1, <1>2, <1>3, MeantAsWritten DEF RequestMeant
<1>5. Answer(status)
  <2>1. PrepareContent
    BY DEF Routing
  <2> QED
    BY <2>1 DEF PrepareContent, prepare_content_receiver, NotRead
<1> QED
  BY <1>1, <1>4, <1>5, RefusalAnswered

LEMMA SameChunks ==
  ASSUME UNCHANGED script, NEW CONSTANT i, NEW CONSTANT k
  PROVE  /\ PlaceOfChunk(i, k)' = PlaceOfChunk(i, k)
         /\ DataBefore(script[i], k)' = DataBefore(script[i], k)
         /\ ChunkSize(script[i], k)' = ChunkSize(script[i], k)
         /\ RequestOf(script[i])' = RequestOf(script[i])
         /\ (script[i].chunks)' = script[i].chunks
         /\ (script[i].call.body)' = script[i].call.body
<1>1. script' = script /\ BeginOf(i)' = BeginOf(i)
  BY SameMessages
<1> QED
  BY <1>1 DEF PlaceOfChunk

\* The body of a message is going to be read.
LEMMA BodyBegins ==
  ASSUME ConnInv, Routing, NEW i \in 1..Len(script), Reading(i), expect_content(req),
         ~NotRead(req, 400), ~NotRead(req, 415)
  PROVE  Reading(i)'
<1> DEFINE m == script[i]
           r == RequestOf(m)
           body == Rest(m)
<1>1. /\ UNCHANGED client /\ pc = "routing" /\ InputOK /\ req' = req /\ taken' = taken
      /\ late' = late /\ PrepareContent /\ parser' = NewParser(BoundaryOf(req))
  BY DEF Routing, ConnInv, reading
<1>2. taken = BodyOfMessage(i) /\ req = r /\ IsWord(m.text[1], "request")
  BY <1>1, ReadingAt DEF BehindHead
<1>3. /\ script' = script /\ stream' = stream /\ EndOf(i)' = EndOf(i) /\ BeginOf(i)' = BeginOf(i)
      /\ BodyOfMessage(i)' = BodyOfMessage(i) /\ sent' = sent /\ fin' = fin
  BY <1>1, SameMessages DEF client
<1>4. BringsBody(r)
  BY <1>2 DEF BringsBody, expect_content
<1>5. CallMeant(m, r) /\ BodyIsMeant(m, r, i = Len(script))
  <2> HIDE DEF r
  <2>1. ~\E status \in {400, 415} : NotRead(r, status)
    BY <1>2
  <2> QED
    BY <1>1, <1>2, <1>4, <2>1, MeantAsWritten DEF RequestMeant, r
<1>6. r = WithBody(r, r.body) /\ r.body = <<>>
  BY RequestOfMessage
<1>7. /\ BodyOfMessage(i) \in Nat /\ EndOf(i) \in Nat /\ BeginOf(i) \in Nat
      /\ EndOf(i) = BodyOfMessage(i) + Len(body) /\ Len(body) \in Nat
      /\ (body = <<>> <=> Len(body) = 0)
      /\ BodyOfMessage(i) = BeginOf(i) + HeadOf(m) /\ HeadOf(m) \in Nat
  <2>1. HeadOf(m) \in Nat
    <3>1. HeadOf(m) \in 5..Len(m.text) /\ Len(m.text) \in Nat
      BY <1>1, HeadFacts
    <3> HIDE DEF m
    <3> QED
      BY <3>1
  <2>2. /\ BodyOfMessage(i) \in Nat /\ EndOf(i) \in Nat /\ BeginOf(i) \in Nat
        /\ EndOf(i) = BodyOfMessage(i) + Len(body) /\ Len(body) \in Nat
        /\ (body = <<>> <=> Len(body) = 0)
        /\ BodyOfMessage(i) = BeginOf(i) + HeadOf(m)
    BY <1>1, RestFacts
  <2> HIDE DEF m, body
  <2> QED
    BY <2>1, <2>2
<1>8. /\ HeaderOf(req, "Content-Length", -1) = LengthOf(r)
      /\ is_chunked_transfer_encoding <=> IsChunked(r)
      /\ LengthOf(r) \in Nat \union {-1}
  BY <1>2, RequestHeaders DEF ConnInv, LengthOf, IsChunked, is_chunked_transfer_encoding
<1>9. /\ IsChunked(r) => pc' = "chunk size"
      /\ ~IsChunked(r) =>
            /\ LengthOf(r) = -1 => pc' = "until close"
            /\ LengthOf(r) = 0 => pc' = "received"
            /\ LengthOf(r) > 0 => pc' = "with length" /\ need' = LengthOf(r)
  <2>1. read_content
    <3>1. ~(is_multipart_form_data(req) /\ BoundaryOf(req) = <<>>)
      BY DEF NotRead
    <3>2. HeaderOf(req, "Content-Encoding", "") \notin {"gzip", "deflate", "br"}
      BY <3>1 DEF NotRead
    <3> QED
      BY <1>1, <3>1, <3>2 DEF PrepareContent, prepare_content_receiver
  <2> HIDE DEF r
  <2>2. PICK n \in Int : n = LengthOf(r) /\ (n = -1 \/ n = 0 \/ n > 0)
    BY <1>8
  <2>3. CASE IsChunked(r)
    <3>1. is_chunked_transfer_encoding
      BY <1>8, <2>3
    <3> QED
      BY <2>1, <2>3, <3>1 DEF read_content
  <2>4. CASE ~IsChunked(r)
    <3>1. ~is_chunked_transfer_encoding /\ HeaderOf(req, "Content-Length", -1) = n
      BY <1>8, <2>2, <2>4
    <3>2. /\ need' = IF n > 0 THEN n ELSE 0
          /\ pc' = CASE n = -1 -> "until close"
                     [] n = 0  -> "received"
                     [] n > 0  -> "with length"
      BY <2>1, <3>1 DEF read_content
    <3>3. CASE n = -1
      <4>1. ~(n = 0) /\ ~(n > 0)
        BY <3>3
      <4>2. pc' = "until close"
        BY <3>2, <3>3, <4>1
      <4> QED
        BY <2>2, <2>4, <4>2, <4>1
    <3>4. CASE n = 0
      BY <2>2, <2>4, <3>2, <3>4
    <3>5. CASE n > 0
      <4>1. ~(n = 0) /\ ~(n = -1)
        BY <3>5
      <4>2. pc' = "with length"
        BY <3>2, <3>5, <4>1
      <4>3. need' = n
        BY <3>2, <3>5
      <4> QED
        BY <2>2, <2>4, <4>1, <4>2, <4>3
    <3> QED
      BY ONLY <2>2, <3>3, <3>4, <3>5
  <2> QED
    BY <2>3, <2>4
<1>10. r' = r /\ m' = m /\ body' = body
  BY <1>3
<1>11. CASE is_multipart_form_data(r)
  <2>1. FormMeant(m, r) /\ ~IsChunked(r) /\ LengthOf(r) = Len(body)
    BY <1>5, <1>11 DEF BodyIsMeant, FormMeant
  <2>2. parser' \in FormReaders(m)[0] /\ parser'.run # "fail"
    <3>1. parser' = NewParser(BoundaryOf(r))
      BY <1>1, <1>2
    <3>2. parser'.run = "parsing"
      BY <3>1 DEF NewParser
    <3> QED
      BY <1>7, <3>1, <3>2, FormRead
  <2>3. taken' - BodyOfMessage(i) = 0 /\ req'.body = <<>>
    BY <1>1, <1>2, <1>6, <1>7
  <2> HIDE DEF r, m, body
  <2>4. \/ pc' = "with length" /\ 0 < Len(body) /\ need' = Len(body)
        \/ pc' = "received" /\ 0 = Len(body)
    <3>1. PICK n \in Nat : n = Len(body)
      BY <1>7
    <3>2. n = LengthOf(r) /\ ~IsChunked(r)
      BY <2>1, <3>1
    <3>3. CASE n = 0
      BY <1>9, <3>1, <3>2, <3>3
    <3>4. CASE n > 0
      <4>1. pc' = "with length" /\ need' = n
        BY <1>9, <3>2, <3>4
      <4> QED
        BY <3>1, <3>4, <4>1
    <3>5. n = 0 \/ n > 0
      OBVIOUS
    <3> QED
      BY <3>3, <3>4, <3>5
  <2>5. InForm(i)'
    <3>1. 0 \in 0..Len(body) /\ Len(body) - 0 = Len(body)
      BY <1>7
    <3>2. /\ is_multipart_form_data(RequestOf(script[i]))' /\ FormMeant(script[i], RequestOf(script[i]))'
          /\ (taken - BodyOfMessage(i) = 0)' /\ Rest(script[i])' = body /\ (req.body = <<>>)'
          /\ FormReaders(script[i])' = FormReaders(m)
      BY <1>3, <1>11, <2>1, <2>3 DEF r, m, body
    <3> QED
      BY <2>2, <2>4, <3>1, <3>2 DEF InForm
  <2>6. req' = WithBody(RequestOf(script[i]), req.body)'
    BY <1>1, <1>2, <1>3, <1>6 DEF r, m
  <2> QED
    BY <1>2, <1>3, <2>5, <2>6 DEF Reading, m
<1>12. CASE ~is_multipart_form_data(r)
  <2>1. OtherBody(i) /\ OtherBody(i)'
    BY <1>3, <1>5, <1>12 DEF OtherBody
  <2>2. req'.body = <<>> /\ req' = WithBody(r, req'.body)
    BY <1>1, <1>2, <1>6
  <2> HIDE DEF r
  <2>3. CASE IsChunked(r)
    <3>1. ChunksLaidOut(m)
      BY <1>5, <1>12, <2>3 DEF BodyIsMeant
    <3>2. m.chunks[1] = HeadOf(m) + 1 /\ Len(m.chunks) > 0 /\ m.chunks \in Seq(Nat)
          /\ m.call.body \in Seq(Range(m.call.body))
      <4>1. i \in DOMAIN script /\ script \in Scripts
        BY <1>1, MessageFacts DEF InputOK
      <4> QED
        BY <3>1, <4>1, MessagesAssumption DEF ChunksLaidOut
    <3>3. 1 \in DOMAIN m.chunks
      BY <3>2
    <3>4. DataBefore(m, 1) = 0
      BY <1>7, <3>2 DEF DataBefore
    <3>5. taken' = BeginOf(i) + m.chunks[1] - 1
      BY <1>1, <1>2, <1>7, <3>2
    <3>6. Len(m.call.body) \in Nat /\ SubSeq(m.call.body, 1, 0) = <<>>
      BY <3>2
    <3>7. HasData(i, 0)'
      <4> HIDE DEF m
      <4>1. (m = script[i])'
        BY <1>3 DEF m
      <4>2. (script[i].call.body)' = m.call.body
        BY <1>3 DEF m
      <4> QED
        BY <2>2, <3>6, <4>2 DEF HasData
    <3>8. InChunk(i, 1)'
      <4>1. pc' = "chunk size"
        BY <1>9, <2>3
      <4>2. (DataBefore(script[i], 1) = 0)' /\ (taken = PlaceOfChunk(i, 1) - 1)'
        <5>1. DataBefore(script[i], 1)' = 0
          BY <1>3, <3>4, SameChunks
        <5>2. PlaceOfChunk(i, 1)' = BeginOf(i) + m.chunks[1]
          BY <1>3, SameChunks DEF PlaceOfChunk
        <5>3. taken' = PlaceOfChunk(i, 1)' - 1
          <6>1. BeginOf(i) \in Int /\ m.chunks[1] \in Int
            BY <1>7, <3>2
          <6>2. PICK p \in Int : p = BeginOf(i) + m.chunks[1]
            BY <6>1
          <6>3. BeginOf(i) + m.chunks[1] - 1 = p - 1
            BY <6>1, <6>2
          <6>4. taken' = p - 1
            BY <3>5, <6>3
          <6>5. PlaceOfChunk(i, 1)' = p
            BY <5>2, <6>2
          <6> QED
            BY <6>4, <6>5
        <5> QED
          BY <5>1, <5>3
      <4>3. HasData(i, DataBefore(script[i], 1))'
        BY <3>7, <4>2 DEF HasData
      <4> QED
        BY <4>1, <4>2, <4>3 DEF InChunk, AtSize
    <3>9. InChunkedBody(i)'
      BY <1>3, <2>1, <2>3, <3>3, <3>8 DEF InChunkedBody, r
    <3> QED
      BY <1>2, <1>3, <2>2, <3>9 DEF Reading, r
  <2>4. CASE ~IsChunked(r) /\ LengthOf(r) = Len(body)
    <3>1. StatusesOf(r) \subseteq m.answers /\ (ForImport(r) => m.call.body = body)
      BY <1>5, <1>12, <2>4 DEF BodyIsMeant
    <3>2. CASE Len(body) = 0
      <4>1. pc' = "received" /\ taken' = EndOf(i)
        BY <1>1, <1>2, <1>7, <1>9, <2>4, <3>2
      <4>2. ForImport(r) => MayBeHandedOn(req.body, i)'
        BY <1>3, <1>7, <2>2, <3>1, <3>2 DEF MayBeHandedOn
      <4>3. IsMeant(i)'
        BY <1>3, <1>5, <3>1, <4>1, <4>2 DEF IsMeant, r
      <4>4. IsRead(i)'
        BY <2>1, <4>1, <4>3 DEF IsRead
      <4> QED
        BY <1>2, <1>3, <2>2, <4>4 DEF Reading, r
    <3>3. CASE Len(body) > 0
      <4>1. /\ pc' = "with length" /\ need' = Len(body)
            /\ taken' \in BodyOfMessage(i)..(EndOf(i) - 1) /\ taken' + need' = EndOf(i)
        <5> HIDE DEF m, body
        <5>1. PICK b \in Nat, n \in Nat : b = BodyOfMessage(i) /\ n = Len(body) /\ EndOf(i) = b + n
          BY <1>7
        <5>2. n > 0 /\ n = LengthOf(r) /\ ~IsChunked(r) /\ taken' = b
          BY <1>1, <1>2, <2>4, <3>3, <5>1
        <5>3. pc' = "with length" /\ need' = n
          BY <1>9, <5>1, <5>2
        <5>4. b \in b..(b + n - 1)
          BY <5>1, <5>2
        <5>5. taken' \in b..(b + n - 1) /\ taken' + need' = b + n
          BY <5>1, <5>2, <5>3, <5>4
        <5>6. /\ BodyOfMessage(i) = b /\ EndOf(i) = b + n /\ Len(body) = n
          BY <5>1
        <5>7. taken' \in BodyOfMessage(i)..(EndOf(i) - 1)
          BY <5>5, <5>6
        <5>8. taken' + need' = EndOf(i)
          BY <5>5, <5>6
        <5> QED
          BY <5>3, <5>6, <5>7, <5>8
      <4>2. HasRead(i)'
        <5>1. SubSeq(stream, BodyOfMessage(i) + 1, BodyOfMessage(i)) = <<>>
          BY <1>7
        <5> QED
          BY <1>1, <1>2, <1>3, <2>2, <5>1 DEF HasRead
      <4>3. InLength(i)'
        BY <1>3, <2>1, <2>4, <4>1, <4>2 DEF InLength, r
      <4> QED
        BY <1>2, <1>3, <2>2, <4>3 DEF Reading, r
    <3> QED
      BY <1>7, <3>2, <3>3
  <2>5. CASE ~IsChunked(r) /\ LengthOf(r) = -1
    <3>1. pc' = "until close" /\ taken' >= BodyOfMessage(i)
      <4>1. pc' = "until close"
        BY <1>9, <2>5
      <4>2. PICK b \in Nat : b = BodyOfMessage(i)
        BY <1>7
      <4>3. taken' = b
        BY <1>1, <1>2, <4>2
      <4>4. b >= b
        OBVIOUS
      <4>5. taken' >= BodyOfMessage(i)
        BY <4>2, <4>3, <4>4
      <4> QED
        BY <4>1, <4>5
    <3>2. HasRead(i)'
      <4>1. SubSeq(stream, BodyOfMessage(i) + 1, BodyOfMessage(i)) = <<>>
        BY <1>7
      <4> QED
        BY <1>1, <1>2, <1>3, <2>2, <4>1 DEF HasRead
    <3>3. UpToTheEnd(i)'
      BY <1>3, <2>1, <2>5, <3>1, <3>2 DEF UpToTheEnd, r
    <3> QED
      BY <1>2, <1>3, <2>2, <3>3 DEF Reading, r
  <2> QED
    BY <1>5, <1>12, <2>3, <2>4, <2>5 DEF BodyIsMeant
<1> QED
  BY <1>11, <1>12

LEMMA RoutingProceeds ==
  ASSUME ConnInv, Routing, NEW i \in 1..Len(script), Reading(i)
  PROVE  Proceeds(i)
  BY HandedOn, RefusedUnread, BodyBegins DEF Proceeds

-----------------------------------------------------------------------------
(* What is answered to a request that has been read.                         *)

LEMMA SameMeaning ==
  ASSUME NEW q, NEW r, q.method = r.method, q.path = r.path, q.params = r.params,
         q.ranges = r.ranges
  PROVE  /\ ForQuery(q) = ForQuery(r) /\ ForImport(q) = ForImport(r)
         /\ SqlKeys(q) = SqlKeys(r) /\ SqlOf(q) = SqlOf(r)
         /\ StatusesOf(q) = StatusesOf(r)
<1>1. ForQuery(q) = ForQuery(r) /\ ForImport(q) = ForImport(r) /\ Success(q) = Success(r)
  BY DEF ForQuery, ForImport, Success
<1>2. SqlKeys(q) = SqlKeys(r)
  BY DEF SqlKeys
<1>3. SqlOf(q) = SqlOf(r)
  BY <1>2 DEF SqlOf
<1>4. StatusesOf(q) = StatusesOf(r)
  <2>1. (ForQuery(q) <=> ForQuery(r)) /\ (ForImport(q) <=> ForImport(r))
    BY <1>1
  <2> QED
    BY <1>1, <1>2, <1>3, <2>1, SMT DEF StatusesOf
<1> QED
  BY <1>1, <1>2, <1>3, <1>4

LEMMA StatusGiven ==
  ASSUME NEW status, NEW headers, NEW body, res' = Response(status, headers, body), req' = req
  PROVE  StatusOf' = IF status # -1 THEN status ELSE Success(req)
<1>1. res'.status = status
  BY DEF Response
<1> QED
  BY <1>1 DEF StatusOf, Success

LEMMA QueryStatus ==
  ASSUME res = NoResponse, req' = req, processQueryRequest
  PROVE  /\ SqlKeys(req) = {} => StatusOf' = 400 /\ UNCHANGED calls
         /\ SqlKeys(req) # {} => /\ \/ StatusOf' = Success(req)
                                    \/ SqlOf(req) \notin Steady /\ StatusOf' \in {400, 500}
                                 /\ Called("query", SqlOf(req), <<>>)
<1>1. /\ set_content(res, Texts["rows"]) = Response(-1, <<Plain>>, Texts["rows"])
      /\ Failed(400, Texts["error"]) = Response(400, <<Plain>>, Texts["error"])
      /\ CaughtException = Response(500, <<What>>, <<>>)
      /\ set_content(Failed(400, Texts["error"]), Texts["rows"])
            = Response(400, <<Plain, Plain>>, Texts["rows"])
  <2>1. ASSUME NEW s, NEW t PROVE Failed(s, t) = Response(s, <<Plain>>, t)
    BY HandlersSay, ZenonT(60)
  <2>2. Failed(400, Texts["error"]) = Response(400, <<Plain>>, Texts["error"])
    BY <2>1
  <2>3. set_content(Failed(400, Texts["error"]), Texts["rows"]) =
            Response(400, <<Plain, Plain>>, Texts["rows"])
    BY HandlersSay
  <2>4. /\ set_content(res, Texts["rows"]) = Response(-1, <<Plain>>, Texts["rows"])
        /\ CaughtException = Response(500, <<What>>, <<>>)
    BY HandlersSay
  <2> QED
    BY <2>2, <2>3, <2>4
<1>2. Failed(500, Texts["error"]) = Response(500, <<Plain>>, Texts["error"])
  <2>1. ASSUME NEW s, NEW t PROVE Failed(s, t) = Response(s, <<Plain>>, t)
    BY HandlersSay, ZenonT(60)
  <2> QED
    BY <2>1
<1>3. SqlParams = SqlKeys(req)
  BY DEF SqlParams, SqlKeys
<1>4. CASE SqlKeys(req) = {}
  <2>1. res' = Response(400, <<Plain>>, Texts["error"]) /\ UNCHANGED calls
    BY <1>1, <1>3, <1>4 DEF processQueryRequest
  <2> QED
    BY <1>4, <2>1, StatusGiven
<1>5. CASE SqlKeys(req) # {}
  <2>1. /\ Called("query", SqlOf(req), <<>>)
        /\ \/ res' = set_content(res, Texts["rows"])
           \/ /\ SqlOf(req) \notin Steady
              /\ res' \in {Failed(400, Texts["error"]), Failed(500, Texts["error"]),
                           CaughtException,
                           set_content(Failed(400, Texts["error"]), Texts["rows"])}
    BY <1>3, <1>5, ZenonT(60) DEF processQueryRequest, SqlOf
  <2>2. CASE res' = Response(-1, <<Plain>>, Texts["rows"])
    <3>1. StatusOf' = Success(req)
      BY <2>2, StatusGiven
    <3> QED
      BY <1>5, <2>1, <3>1
  <2>3. CASE SqlOf(req) \notin Steady /\ \E h, b : res' = Response(400, h, b)
    <3>1. StatusOf' = 400
      BY <2>3, StatusGiven
    <3> QED
      BY <1>5, <2>1, <2>3, <3>1
  <2>4. CASE SqlOf(req) \notin Steady /\ \E h, b : res' = Response(500, h, b)
    <3>1. StatusOf' = 500
      BY <2>4, StatusGiven
    <3> QED
      BY <1>5, <2>1, <2>4, <3>1
  <2> QED
    BY <1>1, <1>2, <2>1, <2>2, <2>3, <2>4
<1> QED
  BY <1>4, <1>5

LEMMA ImportStatus ==
  ASSUME res = NoResponse, req' = req, processImportRequest
  PROVE  /\ StatusOf' = Success(req) \/ (Tail(req.path) \notin Steady /\ StatusOf' = 500)
         /\ Called("import", Tail(req.path), req.body)
<1>1. /\ set_content(res, Texts["imported"]) = Response(-1, <<Plain>>, Texts["imported"])
      /\ CaughtException = Response(500, <<What>>, <<>>)
  BY HandlersSay, ZenonT(60)
<1>2. /\ Called("import", Tail(req.path), req.body)
      /\ \/ res' = set_content(res, Texts["imported"])
         \/ Tail(req.path) \notin Steady /\ res' = CaughtException
  BY DEF processImportRequest
<1>3. CASE res' = set_content(res, Texts["imported"])
  <2>1. StatusOf' = Success(req)
    BY <1>1, <1>3, StatusGiven
  <2> QED
    BY <1>2, <2>1
<1>4. CASE Tail(req.path) \notin Steady /\ res' = CaughtException
  <2>1. StatusOf' = 500
    BY <1>1, <1>4, StatusGiven
  <2> QED
    BY <1>2, <1>4, <2>1
<1> QED
  BY <1>2, <1>3, <1>4

LEMMA RefusedStatus ==
  ASSUME res = NoResponse, NEW status, status # -1, Refused(status)
  PROVE  StatusOf' = status /\ UNCHANGED calls
<1>1. res' = [NoResponse EXCEPT !.status = status] /\ UNCHANGED calls
  BY DEF Refused
<1>2. res'.status = status
  BY <1>1 DEF NoResponse
<1> QED
  BY <1>1, <1>2 DEF StatusOf

\* The handlers answer with a status that the request may get, and are called with what
\* the request says.
LEMMA Dispatched ==
  ASSUME ConnInv, Dispatch
  PROVE  /\ StatusOf' \in StatusesOf(req)
         /\ \/ UNCHANGED calls
            \/ ForQuery(req) /\ SqlKeys(req) # {} /\ Called("query", SqlOf(req), <<>>)
            \/ ForImport(req) /\ Called("import", Tail(req.path), req.body)
<1>1. res = NoResponse /\ req.method \in Methods /\ req' = req
  BY DEF Dispatch, ConnInv, ResponseOK, RequestOK, InRequest
<1> DEFINE q == ForQuery(req)
           w == ForImport(req)
           some == SqlKeys(req) # {}
           x == req.method \in {"CONNECT", "TRACE", "PRI"}
<1>2. /\ q /\ some => StatusesOf(req) = {Success(req)} \union
                                        (IF SqlOf(req) \in Steady THEN {} ELSE {400, 500})
      /\ w => StatusesOf(req) = {Success(req)} \union
                                (IF Tail(req.path) \in Steady THEN {} ELSE {500})
      /\ (q /\ ~some) \/ x => StatusesOf(req) = {400}
      /\ ~(q \/ w \/ x) => StatusesOf(req) = {404}
  <2>1. q => req.method \in {"GET", "HEAD"}
    BY DEF ForQuery
  <2>2. w => req.method = "POST"
    BY DEF ForImport
  <2>3. (q => ~w /\ ~x) /\ (w => ~q /\ ~x) /\ (x => ~q /\ ~w)
    BY <2>1, <2>2
  <2>4. StatusesOf(req) =
          CASE q /\ some -> {Success(req)} \union
                            (IF SqlOf(req) \in Steady THEN {} ELSE {400, 500})
            [] w -> {Success(req)} \union (IF Tail(req.path) \in Steady THEN {} ELSE {500})
            [] (q /\ ~some) \/ x -> {400}
            [] OTHER -> {404}
    BY DEF StatusesOf
  <2> HIDE DEF q, w, x, some
  <2> QED
    BY <2>3, <2>4
<1>3. CASE req.method \in {"GET", "HEAD"}
  <2>1. /\ IsQueryPath(req.path) => processQueryRequest
        /\ ~IsQueryPath(req.path) => Refused(404)
    BY <1>3 DEF Dispatch
  <2>2. ~w /\ ~x /\ (q <=> IsQueryPath(req.path))
    BY <1>3 DEF ForQuery, ForImport
  <2>3. CASE IsQueryPath(req.path)
    <3>1. /\ ~some => StatusOf' = 400 /\ UNCHANGED calls
          /\ some => /\ \/ StatusOf' = Success(req)
                        \/ SqlOf(req) \notin Steady /\ StatusOf' \in {400, 500}
                     /\ Called("query", SqlOf(req), <<>>)
      BY <1>1, <2>1, <2>3, QueryStatus
    <3> HIDE DEF q, w, x, some
    <3>2. CASE some
      BY <1>2, <2>2, <2>3, <3>1, <3>2 DEF q, some
    <3>3. CASE ~some
      BY <1>2, <2>2, <2>3, <3>1, <3>3
    <3> QED
      BY <3>2, <3>3
  <2>4. CASE ~IsQueryPath(req.path)
    <3>1. StatusOf' = 404 /\ UNCHANGED calls
      BY <1>1, <2>1, <2>4, RefusedStatus
    <3> QED
      BY <1>2, <2>2, <2>4, <3>1
  <2> QED
    BY <2>3, <2>4
<1>4. CASE req.method = "POST"
  <2>1. /\ IsImportPath(req.path) => processImportRequest
        /\ ~IsImportPath(req.path) => Refused(404)
    BY <1>4 DEF Dispatch
  <2>2. ~q /\ ~x /\ (w <=> IsImportPath(req.path))
    BY <1>4 DEF ForQuery, ForImport
  <2>3. CASE IsImportPath(req.path)
    <3>1. /\ StatusOf' = Success(req) \/ (Tail(req.path) \notin Steady /\ StatusOf' = 500)
          /\ Called("import", Tail(req.path), req.body)
      BY <1>1, <2>1, <2>3, ImportStatus
    <3> HIDE DEF q, w, x, some
    <3> QED
      BY <1>2, <2>2, <2>3, <3>1 DEF w
  <2>4. CASE ~IsImportPath(req.path)
    <3>1. StatusOf' = 404 /\ UNCHANGED calls
      BY <1>1, <2>1, <2>4, RefusedStatus
    <3> QED
      BY <1>2, <2>2, <2>4, <3>1
  <2> QED
    BY <2>3, <2>4
<1>5. CASE req.method \in {"PUT", "DELETE", "OPTIONS", "PATCH"}
  <2>1. Refused(404)
    BY <1>5 DEF Dispatch
  <2>2. ~q /\ ~w /\ ~x
    BY <1>5 DEF ForQuery, ForImport
  <2>3. StatusOf' = 404 /\ UNCHANGED calls
    BY <1>1, <2>1, RefusedStatus
  <2> QED
    BY <1>2, <2>2, <2>3
<1>6. CASE x
  <2>1. Refused(400)
    BY <1>6 DEF Dispatch
  <2>2. StatusOf' = 400 /\ UNCHANGED calls
    BY <1>1, <2>1, RefusedStatus
  <2> QED
    BY <1>2, <1>6, <2>2
<1> QED
  BY <1>1, <1>3, <1>4, <1>5, <1>6 DEF Methods

LEMMA DispatchProceeds ==
  ASSUME ConnInv, Dispatch, NEW i \in 1..Len(script), Reading(i)
  PROVE  Proceeds(i)
<1> DEFINE r == RequestOf(script[i])
<1>1. UNCHANGED client /\ UNCHANGED reading /\ pc = "dispatch" /\ pc' = "reply"
  BY DEF Dispatch
<1>2. IsMeant(i) /\ req = WithBody(r, req.body)
  BY <1>1, ReadingAt
<1>3. StatusesOf(req) = StatusesOf(r)
  BY <1>2, RequestOfMessage, SameMeaning
<1>4. /\ script' = script /\ EndOf(i)' = EndOf(i) /\ AllRead' = AllRead
      /\ CutShort(i)' = CutShort(i) /\ taken' = taken
  BY <1>1, SameMessages DEF client, reading, AllRead, CutShort
<1>5. StatusOf' \in script[i].answers \/ CutShort(i)
  BY <1>2, <1>3, Dispatched DEF IsMeant
<1>6. script[i].awkward \/ taken = EndOf(i) \/ AllRead
  BY <1>2 DEF IsMeant
<1> QED
  BY <1>1, <1>4, <1>5, <1>6 DEF Proceeds, Answered

LEMMA PartIsPrefix ==
  ASSUME NEW S, NEW s \in Seq(S), NEW a \in Nat, NEW b \in Nat, NEW c \in Nat,
         a <= b, b <= c, c <= Len(s)
  PROVE  IsPrefix(SubSeq(s, a + 1, b), SubSeq(s, a + 1, c))
<1> DEFINE n == b - a
           l == c - a
           u == SubSeq(s, a + 1, b)
           v == SubSeq(s, a + 1, c)
<1>1. n \in Nat /\ l \in Nat /\ n <= l /\ a + n = b /\ a + l = c /\ Len(s) \in Nat
  OBVIOUS
<1> HIDE DEF n, l
<1>2. /\ u \in Seq(S) /\ Len(u) = n /\ \A k \in 1..n : u[k] = s[a + k]
  <2>1. a + n <= Len(s)
    BY <1>1
  <2>2. /\ SubSeq(s, a + 1, a + n) \in Seq(S) /\ Len(SubSeq(s, a + 1, a + n)) = n
        /\ \A k \in 1..n : SubSeq(s, a + 1, a + n)[k] = s[a + k]
    BY <1>1, <2>1, PartFacts
  <2> QED
    BY <1>1, <2>2
<1>3. /\ v \in Seq(S) /\ Len(v) = l /\ \A k \in 1..l : v[k] = s[a + k]
  <2>1. a + l <= Len(s)
    BY <1>1
  <2>2. /\ SubSeq(s, a + 1, a + l) \in Seq(S) /\ Len(SubSeq(s, a + 1, a + l)) = l
        /\ \A k \in 1..l : SubSeq(s, a + 1, a + l)[k] = s[a + k]
    BY <1>1, <2>1, PartFacts
  <2> QED
    BY <1>1, <2>2
<1> HIDE DEF u, v
<1>4. \A k \in 1..n : u[k] = v[k]
  BY SMTT(40), <1>1, <1>2, <1>3
<1>5. SubSeq(u, 1, n) = SubSeq(v, 1, n)
  <2>1. /\ 0 \in Nat /\ 0 + n <= Len(u) /\ 0 + n <= Len(v) /\ 0 + 1 = 1 /\ 0 + n = n
        /\ \A k \in 1..n : u[0 + k] = v[0 + k]
    BY <1>1, <1>2, <1>3, <1>4
  <2>2. SubSeq(u, 0 + 1, 0 + n) = SubSeq(v, 0 + 1, 0 + n)
    BY <1>1, <1>2, <1>3, <2>1, SameParts
  <2> QED
    BY <2>1, <2>2
<1>6. Len(u) <= Len(v) /\ SubSeq(u, 1, Len(u)) = SubSeq(v, 1, Len(u))
  BY <1>1, <1>2, <1>3, <1>5
<1> QED
  BY <1>6 DEF IsPrefix, u, v

\* What has been read of a body, and a piece more.
LEMMA OneMorePiece ==
  ASSUME InputOK, NEW b \in Nat, b <= taken, NEW n \in Nat, taken + n <= sent
  PROVE  SubSeq(stream, b + 1, taken) \o SubSeq(stream, taken + 1, taken + n)
           = SubSeq(stream, b + 1, taken + n)
<1>1. /\ stream \in Seq(Range(stream)) /\ Len(stream) \in Nat
      /\ sent \in 0..Len(stream) /\ taken \in 0..sent
  BY StreamFacts DEF InputOK
<1>2. taken \in Nat /\ taken + n \in Nat /\ taken <= taken + n /\ taken + n <= Len(stream)
  BY <1>1
<1> DEFINE c == taken + n
<1> HIDE DEF c
<1>3. SubSeq(stream, b + 1, taken) \o SubSeq(stream, taken + 1, c) = SubSeq(stream, b + 1, c)
  <2>1. c \in Nat /\ taken <= c /\ c <= Len(stream)
    BY <1>2 DEF c
  <2> QED
    BY <1>1, <1>2, <2>1, PartsJoined
<1> QED
  BY <1>3 DEF c

LEMMA GrownBody ==
  ASSUME NEW m, NEW q, q = WithBody(RequestOf(m), q.body), NEW x
  PROVE  WithBody(q, x) = WithBody(RequestOf(m), x) /\ WithBody(q, x).body = x
<1>1. PICK b : b = q.body
  OBVIOUS
<1>2. q = WithBody(RequestOf(m), b)
  BY <1>1
<1>3. \A y : WithBody(q, y) = WithBody(RequestOf(m), y)
  BY ONLY <1>2, RequestOfMessage
<1>4. WithBody(RequestOf(m), x).body = x
  BY RequestOfMessage
<1> QED
  BY <1>3, <1>4

\* What a body that is read leads to.
LEMMA ContentProceeds ==
  ASSUME ConnInv, ContentRead, NEW i \in 1..Len(script), Reading(i)
  PROVE  Proceeds(i)
<1> DEFINE m == script[i]
           r == RequestOf(m)
<1>1. /\ UNCHANGED client /\ UNCHANGED reading /\ pc = "received" /\ req' = req /\ InputOK
      /\ pc \notin {"reply", "reply body", "terminated"}
  BY DEF ContentRead, ConnInv
<1>2. /\ InForm(i) \/ (OtherBody(i) /\ IsMeant(i))
      /\ req = WithBody(r, req.body) /\ IsWord(m.text[1], "request")
  BY <1>1, ReadingAt
<1>3. /\ script' = script /\ stream' = stream /\ EndOf(i)' = EndOf(i) /\ sent' = sent /\ fin' = fin
      /\ taken' = taken
  BY <1>1, SameMessages DEF client, reading
<1>4. is_multipart_form_data(req) = is_multipart_form_data(r)
  BY <1>2, RequestOfMessage, SameHeaders
<1>5. CASE InForm(i)
  <2>1. /\ is_multipart_form_data(r) /\ FormMeant(m, r) /\ req.body = <<>>
        /\ taken - BodyOfMessage(i) = Len(Rest(m))
        /\ parser \in FormReaders(m)[Len(Rest(m))] /\ parser.run # "fail"
    BY <1>1, <1>5 DEF InForm
  <2>2. /\ EndOf(i) = BodyOfMessage(i) + Len(Rest(m)) /\ BodyOfMessage(i) \in Nat
        /\ Len(Rest(m)) \in Nat /\ EndOf(i) \in Nat
    BY <1>1, RestFacts
  <2>3. taken = EndOf(i)
    <3>1. taken \in Nat
      BY <1>1, StreamFacts DEF InputOK
    <3>2. PICK b \in Nat, n \in Nat : b = BodyOfMessage(i) /\ n = Len(Rest(m)) /\ EndOf(i) = b + n
      BY <2>2
    <3>3. taken - b = n
      BY <2>1, <3>2
    <3>4. taken = b + n
      BY <3>1, <3>3
    <3> QED
      BY <3>2, <3>4
  <2>4. /\ parser.is_valid => StatusesOf(r) \subseteq m.answers
        /\ ~parser.is_valid => 400 \in m.answers
    <3>1. Len(Rest(m)) \in 0..Len(Rest(m))
      BY <2>2
    <3> HIDE DEF m, r
    <3> QED
      BY <2>1, <3>1 DEF FormMeant
  <2>5. CASE parser.is_valid
    <3> SUFFICES ASSUME pc' # "terminated" PROVE Proceeds(i)
      BY DEF Proceeds
    <3>1. pc' = "dispatch"
      BY <2>5 DEF ContentRead, EndProcess
    <3>2. CallMeant(m, r)
      BY <1>1, <1>2, MeantAsWritten DEF RequestMeant
    <3>3. m.call.body = <<>>
      BY <2>1 DEF FormMeant
    <3>4. MayBeHandedOn(req.body, i)'
      BY <1>1, <1>3, <2>1, <3>3 DEF MayBeHandedOn
    <3>5. IsMeant(i)'
      BY <1>3, <2>3, <2>4, <2>5, <3>2, <3>4 DEF IsMeant
    <3>6. Reading(i)'
      BY <1>1, <1>2, <1>3, <3>1, <3>5 DEF Reading, IsRead
    <3> QED
      BY <3>6 DEF Proceeds
  <2>6. CASE ~parser.is_valid
    <3>1. Answer(400)
      BY <1>4, <2>1, <2>6 DEF ContentRead
    <3>2. 400 \in script[i].answers /\ taken' = EndOf(i)
      BY <1>3, <2>3, <2>4, <2>6
    <3> QED
      BY <1>1, <3>1, <3>2, RefusalAnswered
  <2> QED
    BY <2>5, <2>6
<1>6. CASE OtherBody(i) /\ IsMeant(i)
  <2>1. ~is_multipart_form_data(r)
    BY <1>6 DEF OtherBody
  <2> SUFFICES ASSUME pc' # "terminated" PROVE Proceeds(i)
    BY DEF Proceeds
  <2>2. pc' = "dispatch"
    BY <1>4, <2>1 DEF ContentRead, EndProcess
  <2>3. AllRead' = AllRead /\ CutShort(i)' = CutShort(i)
    BY <1>3 DEF AllRead, CutShort
  <2>4. ForImport(r) => MayBeHandedOn(req.body, i)'
    BY <1>1, <1>3, <1>6 DEF IsMeant, MayBeHandedOn
  <2>5. IsMeant(i)'
    BY <1>3, <1>6, <2>3, <2>4 DEF IsMeant
  <2>6. Reading(i)'
    BY <1>1, <1>2, <1>3, <2>2, <2>5 DEF Reading, IsRead
  <2> QED
    BY <2>6 DEF Proceeds
<1> QED
  BY <1>2, <1>5, <1>6

\* A body that only the end of the connection ends.
LEMMA UntilCloseProceeds ==
  ASSUME ConnInv, ReadUntilClose, NEW i \in 1..Len(script), Reading(i)
  PROVE  Proceeds(i)
<1> DEFINE m == script[i]
           r == RequestOf(m)
<1>1. /\ UNCHANGED client /\ pc = "until close" /\ InputOK /\ RecvBuf \in Nat /\ RecvBuf > 0
      /\ pc \notin {"reply", "reply body", "terminated"}
  <2>1. pc = "until close" /\ UNCHANGED client /\ InputOK
    BY DEF ReadUntilClose, ConnInv
  <2>2. RecvBuf \in Nat /\ RecvBuf > 0
    BY LimitsAssumption
  <2> QED
    BY <2>1, <2>2
<1>2. /\ UpToTheEnd(i) /\ req = WithBody(r, req.body) /\ IsWord(m.text[1], "request")
  BY <1>1, ReadingAt
<1>3. /\ script' = script /\ stream' = stream /\ EndOf(i)' = EndOf(i) /\ sent' = sent /\ fin' = fin
      /\ BodyOfMessage(i)' = BodyOfMessage(i)
  BY <1>1, SameMessages DEF client
<1>4. /\ OtherBody(i) /\ ~is_multipart_form_data(r) /\ ~IsChunked(r) /\ LengthOf(r) = -1
      /\ taken >= BodyOfMessage(i) /\ HasRead(i)
  BY <1>2 DEF UpToTheEnd, OtherBody
<1>5. ~is_multipart_form_data(req)
  BY <1>2, <1>4, RequestOfMessage, SameHeaders
<1>6. /\ BodyOfMessage(i) \in Nat /\ EndOf(i) \in Nat /\ taken \in Nat /\ sent \in Nat
      /\ EndOf(i) = BodyOfMessage(i) + Len(Rest(m)) /\ Len(Rest(m)) \in Nat
      /\ stream \in Seq(Range(stream)) /\ Len(stream) \in Nat /\ sent <= Len(stream)
      /\ taken <= sent /\ EndOf(i) <= Len(stream)
  <2>1. taken \in 0..sent /\ sent \in 0..Len(stream) /\ Len(stream) \in Nat
        /\ stream \in Seq(Range(stream))
    BY <1>1, StreamFacts DEF InputOK
  <2>2. taken \in Nat /\ sent \in Nat /\ sent <= Len(stream) /\ taken <= sent
    BY <2>1
  <2>3. /\ BodyOfMessage(i) \in Nat /\ EndOf(i) \in Nat /\ EndOf(i) <= Len(stream)
        /\ EndOf(i) = BodyOfMessage(i) + Len(Rest(m)) /\ Len(Rest(m)) \in Nat
    BY <1>1, RestFacts
  <2> QED
    BY <2>1, <2>2, <2>3
<1>7. \/ /\ ~gone /\ Arrived # <<>> /\ taken' = taken + Len(Piece(RecvBuf))
         /\ Receive(Piece(RecvBuf), pc) /\ late' = late
      \/ AtEnd /\ pc' = "received" /\ UNCHANGED <<req, res, parser>> /\ UNCHANGED reading
      \/ NotReceived /\ (gone \/ late' = TRUE)
  BY DEF ReadUntilClose, Read
<1>8. CASE NotReceived /\ (gone \/ late' = TRUE)
  BY <1>1, <1>8 DEF Proceeds, NotReceived, Answer, client
<1>9. CASE /\ ~gone /\ Arrived # <<>> /\ taken' = taken + Len(Piece(RecvBuf))
           /\ Receive(Piece(RecvBuf), pc) /\ late' = late
  <2> DEFINE piece == Piece(RecvBuf)
  <2>1. /\ Len(piece) \in 1..RecvBuf /\ taken + Len(piece) <= sent
        /\ piece = SubSeq(stream, taken + 1, taken + Len(piece))
    BY <1>1, <1>9, PieceRead
  <2> HIDE DEF piece
  <2>2. req' = WithBody(req, req.body \o piece) /\ pc' = "until close"
    BY <1>1, <1>5, <1>9 DEF Receive, WithBody, piece
  <2>3. /\ req' = WithBody(r, req.body \o piece) /\ req'.body = req.body \o piece
    <3> DEFINE x == req.body \o piece
    <3> HIDE DEF x
    <3>1. WithBody(req, x) = WithBody(r, x) /\ WithBody(req, x).body = x
      BY <1>2, GrownBody
    <3> QED
      BY <2>2, <3>1 DEF x
  <2>4. req' = WithBody(r, req'.body)
    BY <2>3
  <2>5. req'.body = SubSeq(stream, BodyOfMessage(i) + 1, taken')
    <3>1. PICK b \in Nat : b = BodyOfMessage(i) /\ b <= taken
      BY <1>4, <1>6
    <3>2. PICK n \in Nat : n = Len(piece) /\ taken + n <= sent
      BY <2>1
    <3>3. SubSeq(stream, b + 1, taken) \o SubSeq(stream, taken + 1, taken + n)
            = SubSeq(stream, b + 1, taken + n)
      BY <1>1, <3>1, <3>2, OneMorePiece
    <3>4. taken' = taken + n
      BY <1>9, <3>2 DEF piece
    <3>5. piece = SubSeq(stream, taken + 1, taken + n) /\ req.body = SubSeq(stream, b + 1, taken)
      BY <1>4, <2>1, <3>1, <3>2 DEF HasRead
    <3> QED
      BY <2>3, <3>1, <3>3, <3>4, <3>5
  <2>6. taken' >= BodyOfMessage(i)
    <3>1. PICK n \in Nat : n = Len(piece)
      BY <2>1
    <3>2. PICK b \in Nat : b = BodyOfMessage(i) /\ b <= taken
      BY <1>4, <1>6
    <3>3. taken' = taken + n
      BY <1>9, <3>1 DEF piece
    <3>4. taken + n >= b
      BY <1>6, <3>1, <3>2
    <3> QED
      BY <3>2, <3>3, <3>4
  <2>7. UpToTheEnd(i)'
    <3>1. OtherBody(i)'
      BY <1>3, <1>4 DEF OtherBody
    <3>2. HasRead(i)'
      BY <1>3, <2>5 DEF HasRead
    <3> QED
      BY <1>3, <1>4, <2>2, <2>6, <3>1, <3>2 DEF UpToTheEnd
  <2>8. Reading(i)'
    BY <1>2, <1>3, <2>4, <2>7 DEF Reading
  <2> QED
    BY <2>8 DEF Proceeds
<1>10. CASE AtEnd /\ pc' = "received" /\ UNCHANGED <<req, res, parser>> /\ UNCHANGED reading
  <2>1. fin /\ taken = sent /\ taken' = taken /\ req' = req
    BY <1>1, <1>10, EndReached DEF reading
  <2>2. AllRead'
    BY <1>3, <2>1 DEF AllRead
  <2>3. /\ StatusesOf(r) \subseteq m.answers /\ (ForImport(r) => m.call.body = Rest(m))
        /\ \/ LengthOf(r) = Len(Rest(m))
           \/ LengthOf(r) = -1 /\ m.framing = "none"
              /\ (i = Len(script) \/ (m.awkward /\ ~ForImport(r)))
        /\ CallMeant(m, r)
    <3>1. BodyIsMeant(m, r, i = Len(script))
      BY <1>4 DEF OtherBody
    <3>2. CallMeant(m, r)
      BY <1>1, <1>2, MeantAsWritten DEF RequestMeant
    <3> QED
      BY <1>4, <3>1, <3>2 DEF BodyIsMeant
  <2>4. m.framing = "none" /\ (i = Len(script) \/ (m.awkward /\ ~ForImport(r)))
    <3>1. LengthOf(r) # Len(Rest(m))
      BY <1>4, <1>6
    <3> QED
      BY <2>3, <3>1
  <2>5. ForImport(r) => MayBeHandedOn(req.body, i)'
    <3> SUFFICES ASSUME ForImport(r) PROVE MayBeHandedOn(req.body, i)'
      OBVIOUS
    <3>1. i = Len(script) /\ m.call.body = Rest(m)
      BY <2>3, <2>4
    <3>2. EndOf(i) = Len(stream)
      BY <1>1, <3>1, MessageFacts DEF EndOf
    <3>3. /\ Rest(m) = SubSeq(stream, BodyOfMessage(i) + 1, EndOf(i))
      BY <1>1, RestFacts
    <3>4. IsPrefix(req.body, m.call.body)
      <4>1. PICK b \in Nat, e \in Nat : b = BodyOfMessage(i) /\ e = EndOf(i) /\ b <= taken
                                        /\ taken <= e /\ e <= Len(stream)
        BY <1>4, <1>6, <3>2
      <4>2. IsPrefix(SubSeq(stream, b + 1, taken), SubSeq(stream, b + 1, e))
        <5>1. stream \in Seq(Range(stream)) /\ taken \in Nat
          BY <1>6
        <5> QED
          BY <4>1, <5>1, PartIsPrefix
      <4>3. req.body = SubSeq(stream, b + 1, taken) /\ m.call.body = SubSeq(stream, b + 1, e)
        BY <1>4, <3>1, <3>3, <4>1 DEF HasRead
      <4> QED
        BY <4>2, <4>3
    <3>5. m.framing # "length" /\ m.framing # "chunked" /\ fin
      BY <2>1, <2>4
    <3> QED
      BY <1>3, <2>1, <3>4, <3>5 DEF MayBeHandedOn
  <2>6. IsMeant(i)'
    BY <1>3, <2>2, <2>3, <2>5 DEF IsMeant
  <2>7. IsRead(i)'
    <3>1. OtherBody(i)'
      BY <1>3, <1>4 DEF OtherBody
    <3> QED
      BY <1>10, <2>6, <3>1 DEF IsRead
  <2>8. Reading(i)'
    BY <1>2, <1>3, <2>1, <2>7 DEF Reading
  <2> QED
    BY <2>8 DEF Proceeds
<1> QED
  BY <1>7, <1>8, <1>9, <1>10

-----------------------------------------------------------------------------
(* Chunks.                                                                  *)

LEMMA NextChunk ==
  ASSUME NEW m, ChunksLaidOut(m), NEW k \in 1..Len(m.chunks), k < Len(m.chunks)
  PROVE  /\ m.chunks[k + 1] = m.chunks[k] + ChunkSize(m, k) + 5
         /\ m.text[(m.chunks[k] + ChunkSize(m, k) + 5) - 2] = CR
         /\ m.text[(m.chunks[k] + ChunkSize(m, k) + 5) - 1] = LF
  BY DEF ChunksLaidOut

\* Where a chunk stands in the stream, and which part of the data it brings.
LEMMA ChunkFacts ==
  ASSUME InputOK, NEW i \in 1..Len(script), OtherBody(i), IsChunked(RequestOf(script[i])),
         NEW k \in DOMAIN script[i].chunks
  PROVE  LET m == script[i]
             c == Len(m.chunks)
             size == ChunkSize(m, k)
             p == PlaceOfChunk(i, k)
             before == DataBefore(m, k)
         IN  /\ c \in Nat /\ k \in 1..c /\ size \in Nat /\ p \in Nat /\ p > 0 /\ before \in Int
             /\ EndOf(i) \in Nat /\ p + 3 <= EndOf(i)
             /\ IsWord(stream[p], "size") /\ stream[p][2] = size
             /\ stream[p + 1] = CR /\ stream[p + 2] = LF
             /\ k = c <=> size = 0
             /\ k < c => /\ k + 1 \in DOMAIN m.chunks
                         /\ PlaceOfChunk(i, k + 1) = p + size + 5
                         /\ DataBefore(m, k + 1) = before + size
                         /\ stream[p + size + 3] = CR /\ stream[p + size + 4] = LF
                         /\ p + size + 8 <= EndOf(i)
<1> DEFINE m == script[i]
           c == Len(m.chunks)
           size == ChunkSize(m, k)
           b == BeginOf(i)
           p == PlaceOfChunk(i, k)
<1>1. /\ ChunksLaidOut(m) /\ m.chunks \in Seq(Nat)
  <2>1. BodyIsMeant(m, RequestOf(m), i = Len(script)) /\ ~is_multipart_form_data(RequestOf(m))
    BY DEF OtherBody
  <2>2. ChunksLaidOut(m)
    BY <2>1 DEF BodyIsMeant
  <2> QED
    BY <2>2, HeadFacts
<1>2. /\ b \in Nat /\ EndOf(i) = b + Len(m.text) /\ Len(m.text) \in Nat
      /\ \A j \in 1..Len(m.text) : stream[b + j] = m.text[j]
      /\ HeadOf(m) \in Nat /\ EndOf(i) \in Nat
  <2>1. b \in Nat /\ EndOf(i) \in Nat
    BY RestFacts
  <2>2. EndOf(i) = b + Len(m.text) /\ \A j \in 1..Len(m.text) : stream[b + j] = m.text[j]
    BY MessageFacts
  <2>3. Len(m.text) \in Nat /\ HeadOf(m) \in 5..Len(m.text)
    BY HeadFacts
  <2>4. HeadOf(m) \in Nat
    BY <2>3
  <2> QED
    BY <2>1, <2>2, <2>3, <2>4
<1>3. c \in Nat /\ k \in 1..c /\ DOMAIN m.chunks = 1..c /\ k \in Nat /\ m.chunks[k] \in Nat
      /\ \A j \in 1..c : m.chunks[j] \in Nat
  <2> HIDE DEF m
  <2>1. m.chunks \in Seq(Nat) /\ k \in DOMAIN m.chunks
    BY <1>1 DEF m
  <2> QED
    BY SMTT(40), <2>1
<1>4. \A j \in 1..c :
         /\ m.chunks[j] \in 1..(Len(m.text) - 3)
         /\ IsWord(m.text[m.chunks[j]], "size") /\ ChunkSize(m, j) \in Nat
         /\ m.text[m.chunks[j] + 1] = CR /\ m.text[m.chunks[j] + 2] = LF
         /\ j = c <=> ChunkSize(m, j) = 0
         /\ j < c => LET next == m.chunks[j] + ChunkSize(m, j) + 5
                     IN  /\ m.chunks[j + 1] = next
                         /\ m.text[next - 2] = CR /\ m.text[next - 1] = LF
  BY <1>1 DEF ChunksLaidOut
<1>5. m.chunks[1] \in Nat
  BY <1>3
<1> HIDE DEF m, c
<1>6. PICK at \in Nat, l \in Nat, s \in Nat : at = m.chunks[k] /\ l = Len(m.text) /\ s = size
  BY <1>2, <1>3, <1>4
<1>7. /\ at \in 1..(l - 3) /\ IsWord(m.text[at], "size")
      /\ m.text[at + 1] = CR /\ m.text[at + 2] = LF
      /\ k = c <=> s = 0
      /\ k < c => LET next == at + s + 5
                  IN  /\ m.chunks[k + 1] = next
                      /\ m.text[next - 2] = CR /\ m.text[next - 1] = LF
  BY <1>3, <1>4, <1>6
<1>8. p = b + at
  BY <1>6 DEF PlaceOfChunk, m
<1>9. /\ at \in 1..l /\ at + 1 \in 1..l /\ at + 2 \in 1..l
      /\ b + at \in Nat /\ b + at > 0 /\ (b + at) + 3 <= b + l
      /\ (b + at) + 1 = b + (at + 1) /\ (b + at) + 2 = b + (at + 2)
  <2>1. PICK d \in Nat : d = b
    BY <1>2
  <2> HIDE DEF b
  <2>2. /\ at \in 1..l /\ at + 1 \in 1..l /\ at + 2 \in 1..l
        /\ d + at \in Nat /\ d + at > 0 /\ (d + at) + 3 <= d + l
        /\ (d + at) + 1 = d + (at + 1) /\ (d + at) + 2 = d + (at + 2)
    BY <1>7
  <2> QED
    BY <2>1, <2>2
<1>10. \A j \in 1..l : stream[b + j] = m.text[j]
  BY <1>2, <1>6 DEF m
<1>11. EndOf(i) = b + l
  BY <1>2, <1>6 DEF m
<1>12. /\ stream[p] = m.text[at] /\ stream[p + 1] = m.text[at + 1] /\ stream[p + 2] = m.text[at + 2]
  <2> HIDE DEF p, b
  <2> QED
    BY <1>8, <1>9, <1>10
<1>13. m.text[at][2] = s
  BY <1>6 DEF ChunkSize
<1>14. p \in Nat /\ p > 0 /\ p + 3 <= EndOf(i)
  <2> HIDE DEF p, b
  <2> QED
    BY <1>8, <1>9, <1>11
<1>15. DataBefore(m, k) \in Int
  BY <1>3, <1>5 DEF DataBefore
<1>16. ASSUME k < c
       PROVE  /\ k + 1 \in 1..c /\ PlaceOfChunk(i, k + 1) = p + s + 5
              /\ DataBefore(m, k + 1) = DataBefore(m, k) + s
              /\ stream[p + s + 3] = CR /\ stream[p + s + 4] = LF
              /\ p + s + 8 <= EndOf(i)
  <2>1. k + 1 \in 1..c
    BY <1>3, <1>16
  <2>2. /\ m.chunks[k + 1] = at + s + 5
        /\ m.text[(at + s + 5) - 2] = CR /\ m.text[(at + s + 5) - 1] = LF
    <3> HIDE DEF b, p, size
    <3>1. /\ m.chunks[k + 1] = m.chunks[k] + ChunkSize(m, k) + 5
          /\ m.text[(m.chunks[k] + ChunkSize(m, k) + 5) - 2] = CR
          /\ m.text[(m.chunks[k] + ChunkSize(m, k) + 5) - 1] = LF
      BY <1>1, <1>3, <1>16, NextChunk DEF c
    <3>2. at = m.chunks[k] /\ s = ChunkSize(m, k)
      BY <1>6 DEF size
    <3> QED
      BY <3>1, <3>2
  <2>3. m.chunks[k + 1] \in 1..(l - 3)
    BY <1>4, <1>6, <2>1
  <2>4. /\ at + s + 5 <= l - 3 /\ (at + s + 5) - 2 = at + s + 3 /\ (at + s + 5) - 1 = at + s + 4
    <3>1. at + s + 5 = m.chunks[k + 1] /\ m.chunks[k + 1] \in 1..(l - 3)
      BY <2>2, <2>3
    <3>2. at \in Nat /\ s \in Nat /\ l \in Nat
      OBVIOUS
    <3>3. at + s + 5 <= l - 3
      BY ONLY <3>1, <3>2
    <3> QED
      BY ONLY <3>2, <3>3
  <2>5. at + s + 3 \in 1..l /\ at + s + 4 \in 1..l
    <3>1. at \in Nat /\ s \in Nat /\ l \in Nat
      OBVIOUS
    <3> QED
      BY ONLY <2>4, <3>1
  <2>6. stream[b + (at + s + 3)] = CR /\ stream[b + (at + s + 4)] = LF
    <3> HIDE DEF b
    <3> QED
      BY <1>10, <2>2, <2>4, <2>5
  <2>7. PICK d \in Nat : d = b
    BY <1>2
  <2>8. p = d + at
    BY <1>8, <2>7
  <2>9. /\ (d + at) + s + 3 = d + (at + s + 3) /\ (d + at) + s + 4 = d + (at + s + 4)
        /\ (d + at) + s + 5 = d + (at + s + 5) /\ (d + at) + s + 8 <= d + l
    BY <2>4
  <2>10. PlaceOfChunk(i, k + 1) = d + (at + s + 5)
    BY <2>2, <2>7 DEF PlaceOfChunk, m
  <2>11. stream[p + s + 3] = CR /\ stream[p + s + 4] = LF
    <3> HIDE DEF p, b
    <3> QED
      BY <2>6, <2>7, <2>8, <2>9
  <2>12. p + s + 8 <= EndOf(i) /\ PlaceOfChunk(i, k + 1) = p + s + 5
    <3> HIDE DEF p, b
    <3> QED
      BY <1>11, <2>7, <2>8, <2>9, <2>10
  <2>13. DataBefore(m, k + 1) = DataBefore(m, k) + s
    <3>1. PICK f \in Nat : f = m.chunks[1]
      BY <1>5
    <3>2. DataBefore(m, k + 1) = (at + s + 5) - f - 5 * ((k + 1) - 1)
      BY <2>2, <3>1 DEF DataBefore
    <3>3. DataBefore(m, k) = at - f - 5 * (k - 1)
      BY <1>6, <3>1 DEF DataBefore
    <3>4. (at + s + 5) - f - 5 * ((k + 1) - 1) = (at - f - 5 * (k - 1)) + s
      BY <1>3
    <3> QED
      BY <3>2, <3>3, <3>4
  <2> QED
    BY <2>1, <2>11, <2>12, <2>13
<1> HIDE DEF p
<1>17. s = size
  BY <1>6
<1> HIDE DEF size
<1>18. /\ c \in Nat /\ k \in 1..c /\ size \in Nat /\ p \in Nat /\ p > 0 /\ DataBefore(m, k) \in Int
       /\ EndOf(i) \in Nat /\ p + 3 <= EndOf(i)
       /\ IsWord(stream[p], "size") /\ stream[p][2] = size
       /\ stream[p + 1] = CR /\ stream[p + 2] = LF
       /\ k = c <=> size = 0
  BY <1>2, <1>3, <1>7, <1>12, <1>13, <1>14, <1>15, <1>17
<1>19. k < c => /\ k + 1 \in DOMAIN m.chunks
                /\ PlaceOfChunk(i, k + 1) = p + size + 5
                /\ DataBefore(m, k + 1) = DataBefore(m, k) + size
                /\ stream[p + size + 3] = CR /\ stream[p + size + 4] = LF
                /\ p + size + 8 <= EndOf(i)
  BY <1>3, <1>16, <1>17
<1> QED
  BY <1>18, <1>19 DEF p, size, c, m

\* A part of a chunk is a part of the data.
LEMMA ChunkData ==
  ASSUME InputOK, NEW i \in 1..Len(script), OtherBody(i), IsChunked(RequestOf(script[i])),
         NEW k \in DOMAIN script[i].chunks, ForImport(RequestOf(script[i])),
         NEW a \in Nat, NEW n \in Nat, a + n <= ChunkSize(script[i], k),
         DataBefore(script[i], k) \in Nat,
         PlaceOfChunk(i, k) + 2 + a + n <= Len(stream)
  PROVE  LET m == script[i]
             data == m.call.body
             before == DataBefore(m, k)
             at == PlaceOfChunk(i, k) + 2 + a
         IN  /\ before + ChunkSize(m, k) <= Len(data) /\ data \in Seq(Range(data))
             /\ SubSeq(stream, at + 1, at + n) = SubSeq(data, before + a + 1, before + a + n)
<1> DEFINE m == script[i]
           data == m.call.body
<1>1. ChunksMeant(m) /\ data \in Seq(Range(data))
  <2>1. BodyIsMeant(m, RequestOf(m), i = Len(script)) /\ ~is_multipart_form_data(RequestOf(m))
    BY DEF OtherBody
  <2>2. i \in DOMAIN script /\ script \in Scripts
    BY MessageFacts DEF InputOK
  <2> QED
    BY <2>1, <2>2, MessagesAssumption DEF BodyIsMeant
<1>2. /\ DataBefore(m, k) + ChunkSize(m, k) <= Len(data)
      /\ \A j \in 1..ChunkSize(m, k) : data[DataBefore(m, k) + j] = m.text[m.chunks[k] + 2 + j]
  BY <1>1 DEF ChunksMeant
<1>3. /\ ChunkSize(m, k) \in Nat /\ PlaceOfChunk(i, k) = BeginOf(i) + m.chunks[k]
      /\ PlaceOfChunk(i, k) \in Nat
  BY ChunkFacts DEF PlaceOfChunk
<1>4. /\ BeginOf(i) \in Nat /\ EndOf(i) = BeginOf(i) + Len(m.text) /\ Len(m.text) \in Nat
      /\ \A j \in 1..Len(m.text) : stream[BeginOf(i) + j] = m.text[j]
      /\ stream \in Seq(Range(stream)) /\ Len(stream) \in Nat /\ m.chunks[k] \in Nat
      /\ Len(data) \in Nat /\ EndOf(i) \in Nat
  <2>1. m.chunks \in Seq(Nat) /\ k \in DOMAIN m.chunks
    BY HeadFacts
  <2> HIDE DEF m, data
  <2>2. m.chunks[k] \in Nat
    BY SMTT(40), <2>1
  <2>3. Len(data) \in Nat
    BY <1>1
  <2> QED
    BY <2>2, <2>3, MessageFacts, HeadFacts, RestFacts, StreamFacts DEF m
<1> HIDE DEF m, data
<1>5. PICK at \in Nat, b \in Nat, s \in Nat, d \in Nat, l \in Nat :
          /\ at = m.chunks[k] /\ b = BeginOf(i) /\ s = ChunkSize(m, k) /\ d = DataBefore(m, k)
          /\ l = Len(m.text)
  BY <1>3, <1>4 DEF m
<1>6. /\ PlaceOfChunk(i, k) = b + at /\ a + n <= s /\ d + s <= Len(data)
      /\ (b + at) + 2 + a + n <= Len(stream)
  BY <1>2, <1>3, <1>5 DEF m
<1>7. \A j \in 1..n : stream[((b + at) + 2 + a) + j] = data[(d + a) + j]
  <2> TAKE j \in 1..n
  <2>1. a + j \in 1..s /\ (d + a) + j = d + (a + j)
        /\ ((b + at) + 2 + a) + j = b + (at + 2 + (a + j))
    BY <1>6
  <2>2. data[d + (a + j)] = m.text[at + 2 + (a + j)]
    BY <1>2, <1>5, <2>1
  <2>3. at + 2 + (a + j) \in 1..l
    <3>1. IF k < Len(m.chunks) THEN PlaceOfChunk(i, k) + s + 8 <= EndOf(i) ELSE s = 0
      <4>1. k \in 1..Len(m.chunks) /\ Len(m.chunks) \in Nat
        BY ChunkFacts DEF m
      <4>2. k = Len(m.chunks) => s = 0
        BY <1>5, ChunkFacts DEF m
      <4>3. k < Len(m.chunks) => PlaceOfChunk(i, k) + s + 8 <= EndOf(i)
        BY <1>5, ChunkFacts DEF m
      <4> QED
        BY <4>1, <4>2, <4>3
    <3>2. s # 0
      BY <2>1
    <3>3. (b + at) + s + 8 <= b + l
      BY <1>4, <1>5, <1>6, <3>1, <3>2
    <3> QED
      BY <2>1, <3>3
  <2>4. stream[b + (at + 2 + (a + j))] = m.text[at + 2 + (a + j)]
    BY <1>4, <1>5, <2>3
  <2> QED
    BY <2>1, <2>2, <2>4
<1>8. SubSeq(stream, ((b + at) + 2 + a) + 1, ((b + at) + 2 + a) + n)
        = SubSeq(data, (d + a) + 1, (d + a) + n)
  <2> DEFINE u == (b + at) + 2 + a
             v == d + a
  <2>1. /\ u \in Nat /\ v \in Nat /\ u + n <= Len(stream) /\ v + n <= Len(data) /\ n \in Nat
    BY <1>4, <1>6
  <2>2. \A j \in 1..n : stream[u + j] = data[v + j]
    BY <1>7
  <2>3. data \in Seq(Range(data)) /\ stream \in Seq(Range(stream))
    BY <1>1, <1>4
  <2> HIDE DEF u, v
  <2>4. SubSeq(stream, u + 1, u + n) = SubSeq(data, v + 1, v + n)
    BY ONLY <2>1, <2>2, <2>3, SameParts
  <2> QED
    BY <2>4 DEF u, v
<1>9. SubSeq(stream, (PlaceOfChunk(i, k) + 2 + a) + 1, (PlaceOfChunk(i, k) + 2 + a) + n)
        = SubSeq(data, DataBefore(m, k) + a + 1, DataBefore(m, k) + a + n)
  BY <1>5, <1>6, <1>8
<1> QED
  BY <1>1, <1>2, <1>9 DEF m, data

-----------------------------------------------------------------------------
(* Bodies whose length is known.                                            *)

\* A piece of what is needed comes, or nothing, and the message is given up.
LEMMA NeededRead ==
  ASSUME ConnInv, ReadWithLength, need > 0
  PROVE  \/ \E n \in Nat :
                /\ n \in 1..need /\ n <= RecvBuf /\ taken + n <= sent /\ taken' = taken + n
                /\ need' = need - n /\ late' = late /\ Arrived # <<>>
                /\ Receive(SubSeq(stream, taken + 1, taken + n),
                           IF n < need THEN pc
                           ELSE IF pc = "with length" THEN "received" ELSE "chunk end")
         \/ NotReceived /\ GivenUp /\ pc' = "reply"
<1>1. InputOK /\ need \in Nat
  BY DEF ConnInv, InputOK
<1>2. \/ /\ Arrived # <<>> /\ taken' = taken + Len(Piece(need)) /\ late' = late
         /\ need' = need - Len(Piece(need))
         /\ Receive(Piece(need), IF Len(Piece(need)) < need THEN pc
                                 ELSE IF pc = "with length" THEN "received" ELSE "chunk end")
      \/ NotReceived /\ GivenUp
  BY DEF ReadWithLength, Read, GivenUp
<1>3. CASE NotReceived /\ GivenUp
  BY <1>3 DEF NotReceived, Answer
<1>4. CASE /\ Arrived # <<>> /\ taken' = taken + Len(Piece(need)) /\ late' = late
           /\ need' = need - Len(Piece(need))
           /\ Receive(Piece(need), IF Len(Piece(need)) < need THEN pc
                                   ELSE IF pc = "with length" THEN "received" ELSE "chunk end")
  <2> DEFINE piece == Piece(need)
  <2>1. /\ Len(piece) \in 1..need /\ Len(piece) <= RecvBuf /\ taken + Len(piece) <= sent
        /\ piece = SubSeq(stream, taken + 1, taken + Len(piece))
    BY <1>1, <1>4, PieceRead
  <2>2. PICK n \in Nat : n = Len(piece)
    BY <2>1
  <2>3. piece = SubSeq(stream, taken + 1, taken + n)
    BY <2>1, <2>2
  <2>4. Receive(piece, IF n < need THEN pc
                       ELSE IF pc = "with length" THEN "received" ELSE "chunk end")
    BY <1>4, <2>2
  <2>5. Receive(SubSeq(stream, taken + 1, taken + n),
                IF n < need THEN pc
                ELSE IF pc = "with length" THEN "received" ELSE "chunk end")
    <3> HIDE DEF piece
    <3> QED
      BY <2>3, <2>4
  <2>6. /\ n \in 1..need /\ n <= RecvBuf /\ taken + n <= sent /\ taken' = taken + n
        /\ need' = need - n
    BY <1>4, <2>1, <2>2
  <2> QED
    BY <1>4, <2>5, <2>6
<1> QED
  BY <1>2, <1>3, <1>4

\* A form.
LEMMA FormProceeds ==
  ASSUME ConnInv, ReadWithLength, NEW i \in 1..Len(script), Reading(i), InForm(i)
  PROVE  Proceeds(i)
<1> DEFINE m == script[i]
           r == RequestOf(m)
           b == BodyOfMessage(i)
           form == Rest(m)
<1>1. /\ UNCHANGED client /\ pc = "with length" /\ InputOK
      /\ pc \notin {"reply", "reply body", "terminated"}
  BY DEF ReadWithLength, ConnInv, InForm
<1>2. req = WithBody(r, req.body) /\ IsWord(m.text[1], "request")
  BY <1>1, ReadingAt
<1>3. /\ script' = script /\ stream' = stream /\ EndOf(i)' = EndOf(i) /\ sent' = sent /\ fin' = fin
      /\ BodyOfMessage(i)' = BodyOfMessage(i)
  BY <1>1, SameMessages DEF client
<1>4. /\ is_multipart_form_data(r) /\ FormMeant(m, r) /\ req.body = <<>>
      /\ taken - b \in 0..Len(form)
      /\ parser \in FormReaders(m)[taken - b] /\ parser.run # "fail"
      /\ taken - b < Len(form) /\ need = Len(form) - (taken - b)
  BY <1>1 DEF InForm
<1>5. is_multipart_form_data(req)
  BY <1>2, <1>4, RequestOfMessage, SameHeaders
<1>6. /\ b \in Nat /\ EndOf(i) = b + Len(form) /\ Len(form) \in Nat /\ EndOf(i) \in Nat
      /\ \A k \in 0..Len(form) : \A n \in k..Len(form) :
            SubSeq(stream, b + k + 1, b + n) = SubSeq(form, k + 1, n)
  BY <1>1, RestFacts
<1>7. taken \in Nat /\ sent \in Nat
  <2>1. sent \in 0..Len(stream) /\ taken \in 0..sent /\ Len(stream) \in Nat
    BY <1>1, StreamFacts DEF InputOK
  <2> QED
    BY <2>1
<1> HIDE DEF b, form
<1>8. PICK l \in Nat, k \in Nat : /\ l = Len(form) /\ k = taken - b /\ k < l /\ need = l - k
                                  /\ taken = b + k
  BY <1>4, <1>6, <1>7
<1>9. need > 0 /\ taken < EndOf(i)
  <2>1. l - k > 0
    BY <1>8
  <2>2. b + k < b + l
    BY <1>6, <1>8
  <2>3. need > 0
    BY <1>8, <2>1
  <2>4. taken < EndOf(i)
    BY <1>6, <1>8, <2>2
  <2> QED
    BY <2>3, <2>4
<1>10. CASE NotReceived /\ GivenUp /\ pc' = "reply"
  BY <1>1, <1>9, <1>10, FailureAnswered
<1>11. ASSUME NEW n \in Nat, n \in 1..need, n <= RecvBuf, taken + n <= sent, taken' = taken + n,
              need' = need - n, late' = late,
              Receive(SubSeq(stream, taken + 1, taken + n),
                      IF n < need THEN pc
                      ELSE IF pc = "with length" THEN "received" ELSE "chunk end")
       PROVE  Proceeds(i)
  <2>1. /\ n \in 1..need /\ n <= RecvBuf /\ taken + n <= sent /\ taken' = taken + n
        /\ need' = need - n
    BY <1>11
  <2> DEFINE piece == SubSeq(stream, taken + 1, taken + n)
             onward == IF n < need THEN "with length" ELSE "received"
  <2>2. /\ parser' = Parse(parser, piece) /\ req' = req
        /\ IF parser'.run = "fail" THEN Answer(400) ELSE pc' = onward
    BY <1>1, <1>5, <1>11 DEF Receive
  <2>3. /\ n \in 1..(l - k) /\ k + n \in 0..l /\ k \in 0..((k + n) - 1) /\ (k + n) - k <= RecvBuf
        /\ k \in 0..l /\ k + n \in k..l
    <3>1. n \in 1..(l - k)
      BY <1>8, <2>1
    <3>2. (k + n) - k = n
      OBVIOUS
    <3>3. k + n \in 0..l /\ k \in 0..((k + n) - 1) /\ k \in 0..l /\ k + n \in k..l
      BY <1>8, <3>1
    <3>4. (k + n) - k <= RecvBuf
      BY <2>1, <3>2
    <3> QED
      BY <3>1, <3>3, <3>4
  <2>4. piece = SubSeq(form, k + 1, k + n)
    <3>1. SubSeq(stream, b + k + 1, b + (k + n)) = SubSeq(form, k + 1, k + n)
      BY <1>6, <1>8, <2>3
    <3>2. taken + 1 = b + k + 1 /\ taken + n = b + (k + n)
      BY <1>6, <1>8
    <3> QED
      BY <3>1, <3>2
  <2> HIDE DEF piece, onward
  <2>5. parser' \in FormReaders(m)[k + n]
    <3>1. parser \in FormReaders(m)[k]
      BY <1>4, <1>8
    <3>2. Len(Rest(m)) = l
      BY <1>8 DEF form
    <3>3. Parse(parser, SubSeq(Rest(m), k + 1, k + n)) \in FormReaders(m)[k + n]
      <4> HIDE DEF m
      <4> QED
        BY <1>4, <2>3, <3>1, <3>2, FormRead
    <3> QED
      BY <2>2, <2>4, <3>3 DEF form
  <2>6. CASE parser'.run = "fail"
    <3>1. 400 \in m.answers /\ (k + n = l \/ m.awkward)
      <4>1. l = Len(Rest(m))
        BY <1>8 DEF form
      <4> HIDE DEF m, r
      <4> QED
        BY <1>4, <2>3, <2>5, <2>6, <4>1 DEF FormMeant
    <3>2. script[i].awkward \/ taken' = EndOf(i)
      <4>1. CASE k + n = l
        <5>1. taken + n = b + l
          BY <1>6, <1>8, <4>1
        <5> QED
          BY <1>6, <1>8, <2>1, <5>1
      <4> QED
        BY <3>1, <4>1
    <3>3. Answer(400)
      BY <2>2, <2>6
    <3>4. 400 \in script[i].answers /\ 400 # -1
      BY <3>1
    <3> QED
      BY <1>1, <3>2, <3>3, <3>4, RefusalAnswered
  <2>7. CASE parser'.run # "fail"
    <3>1. pc' = onward
      BY <2>2, <2>7
    <3>2. taken' - b = k + n
      <4>1. PICK d \in Nat : d = b
        BY <1>6
      <4>2. taken' = (d + k) + n
        BY <1>8, <2>1, <4>1
      <4>3. ((d + k) + n) - d = k + n
        OBVIOUS
      <4> QED
        BY <4>1, <4>2, <4>3
    <3>3. \/ pc' = "with length" /\ k + n < l /\ need' = l - (k + n)
          \/ pc' = "received" /\ k + n = l
      <4>1. CASE n < l - k
        <5>1. pc' = "with length"
          BY <1>8, <3>1, <4>1 DEF onward
        <5>2. k + n < l /\ (l - k) - n = l - (k + n)
          BY <4>1
        <5>3. need' = l - (k + n)
          BY <1>8, <2>1, <5>2
        <5> QED
          BY <5>1, <5>2, <5>3
      <4>2. CASE ~(n < l - k)
        <5>1. pc' = "received"
          BY <1>8, <3>1, <4>2 DEF onward
        <5>2. k + n = l
          BY <2>3, <4>2
        <5> QED
          BY <5>1, <5>2
      <4> QED
        BY <4>1, <4>2
    <3>4. InForm(i)'
      <4>1. /\ is_multipart_form_data(RequestOf(script[i]))'
            /\ FormMeant(script[i], RequestOf(script[i]))'
            /\ (taken - BodyOfMessage(i))' = k + n /\ Len(Rest(script[i]))' = l
            /\ (req.body = <<>>)' /\ FormReaders(script[i])' = FormReaders(m)
        BY <1>3, <1>4, <1>8, <2>2, <3>2 DEF b, form
      <4> HIDE DEF m, r
      <4> QED
        BY <2>3, <2>5, <2>7, <3>3, <4>1 DEF InForm
    <3>5. Reading(i)'
      <4>1. (req = WithBody(RequestOf(script[i]), req.body))'
        BY <1>2, <1>3, <2>2
      <4> QED
        BY <1>2, <1>3, <3>4, <4>1 DEF Reading
    <3> QED
      BY <3>5 DEF Proceeds
  <2> QED
    BY <2>6, <2>7
<1> QED
  BY <1>9, <1>10, <1>11, NeededRead

\* A body with a Content-Length.
LEMMA LengthProceeds ==
  ASSUME ConnInv, ReadWithLength, NEW i \in 1..Len(script), Reading(i), InLength(i)
  PROVE  Proceeds(i)
<1> DEFINE m == script[i]
           r == RequestOf(m)
           b == BodyOfMessage(i)
           e == EndOf(i)
<1>1. /\ UNCHANGED client /\ pc = "with length" /\ InputOK
      /\ pc \notin {"reply", "reply body", "terminated"}
  BY DEF ReadWithLength, ConnInv, InLength
<1>2. req = WithBody(r, req.body) /\ IsWord(m.text[1], "request")
  BY <1>1, ReadingAt
<1>3. /\ script' = script /\ stream' = stream /\ EndOf(i)' = EndOf(i) /\ sent' = sent /\ fin' = fin
      /\ BodyOfMessage(i)' = BodyOfMessage(i)
  BY <1>1, SameMessages DEF client
<1>4. /\ OtherBody(i) /\ ~is_multipart_form_data(r) /\ ~IsChunked(r)
      /\ LengthOf(r) = Len(Rest(m))
      /\ taken \in b..(e - 1) /\ taken + need = e /\ req.body = SubSeq(stream, b + 1, taken)
  BY DEF InLength, OtherBody, HasRead
<1>5. ~is_multipart_form_data(req)
  BY <1>2, <1>4, RequestOfMessage, SameHeaders
<1>6. /\ b \in Nat /\ e \in Nat /\ e = b + Len(Rest(m)) /\ Len(Rest(m)) \in Nat
      /\ SubSeq(stream, b + 1, e) = Rest(m) /\ e <= Len(stream)
  BY <1>1, RestFacts
<1>7. need \in Nat /\ taken \in Nat
  <2>1. sent \in 0..Len(stream) /\ taken \in 0..sent /\ Len(stream) \in Nat /\ need \in Nat
    BY <1>1, StreamFacts DEF InputOK
  <2> QED
    BY <2>1
<1> HIDE DEF b, e
<1>8. need > 0 /\ taken < EndOf(i) /\ b <= taken
  <2>1. need > 0 /\ taken < e /\ b <= taken
    BY <1>4, <1>6, <1>7
  <2> QED
    BY <2>1 DEF e
<1>9. CASE NotReceived /\ GivenUp /\ pc' = "reply"
  BY <1>1, <1>8, <1>9, FailureAnswered
<1>10. ASSUME NEW n \in Nat, n \in 1..need, n <= RecvBuf, taken + n <= sent, taken' = taken + n,
              need' = need - n, late' = late,
              Receive(SubSeq(stream, taken + 1, taken + n),
                      IF n < need THEN pc
                      ELSE IF pc = "with length" THEN "received" ELSE "chunk end")
       PROVE  Proceeds(i)
  <2>1. /\ n \in 1..need /\ n <= RecvBuf /\ taken + n <= sent /\ taken' = taken + n
        /\ need' = need - n
    BY <1>10
  <2> DEFINE piece == SubSeq(stream, taken + 1, taken + n)
             grown == req.body \o piece
             onward == IF n < need THEN "with length" ELSE "received"
  <2>2. req' = WithBody(req, grown) /\ pc' = onward
    BY <1>1, <1>5, <1>10 DEF Receive, WithBody
  <2>3. grown = SubSeq(stream, b + 1, taken')
    <3>1. SubSeq(stream, b + 1, taken) \o piece = SubSeq(stream, b + 1, taken + n)
      BY <1>1, <1>6, <1>8, <1>10, OneMorePiece
    <3> QED
      BY <1>4, <1>10, <3>1
  <2> HIDE DEF grown, piece
  <2>4. req' = WithBody(r, grown) /\ req'.body = grown
    <3>1. WithBody(req, grown) = WithBody(r, grown) /\ WithBody(req, grown).body = grown
      BY <1>2, GrownBody
    <3> QED
      BY <2>2, <3>1
  <2>5. req' = WithBody(r, req'.body)
    BY <2>4
  <2>6. OtherBody(i)'
    BY <1>3, <1>4 DEF OtherBody
  <2> HIDE DEF onward
  <2>7. CASE n < need
    <3>1. pc' = "with length"
      BY <2>2, <2>7 DEF onward
    <3>2. taken + n \in b..(e - 1) /\ (taken + n) + (need - n) = e
      <4>1. PICK t \in Nat, d \in Nat, f \in Nat, h \in Nat :
                t = taken /\ d = b /\ f = e /\ h = need
        BY <1>6, <1>7
      <4>2. t \in d..(f - 1) /\ t + h = f /\ n \in 1..h /\ n < h
        BY <1>4, <2>1, <2>7, <4>1
      <4>3. t + n \in d..(f - 1) /\ (t + n) + (h - n) = f
        BY <4>2
      <4> QED
        BY <4>1, <4>3
    <3>3. taken' \in b..(e - 1)
      BY <2>1, <3>2
    <3>4. taken' + need' = e
      BY <2>1, <3>2
    <3>5. HasRead(i)'
      BY <1>3, <2>3, <2>4 DEF HasRead, b
    <3>6. InLength(i)'
      BY <1>3, <1>4, <2>6, <3>1, <3>3, <3>4, <3>5 DEF InLength, b, e
    <3>7. Reading(i)'
      BY <1>2, <1>3, <2>5, <3>6 DEF Reading
    <3> QED
      BY <3>7 DEF Proceeds
  <2>8. CASE ~(n < need)
    <3>1. pc' = "received"
      BY <2>2, <2>8 DEF onward
    <3>2. taken + n = e
      <4>1. PICK t \in Nat, f \in Nat, h \in Nat : t = taken /\ f = e /\ h = need
        BY <1>6, <1>7
      <4>2. t + h = f /\ n \in 1..h /\ ~(n < h)
        BY <1>4, <2>1, <2>8, <4>1
      <4>3. t + n = f
        BY <4>2
      <4> QED
        BY <4>1, <4>3
    <3>3. taken' = EndOf(i)
      BY <2>1, <3>2 DEF e
    <3>4. grown = Rest(m)
      BY <1>6, <2>3, <3>3 DEF e
    <3>5. /\ StatusesOf(r) \subseteq m.answers /\ (ForImport(r) => m.call.body = Rest(m))
          /\ CallMeant(m, r)
      <4>1. BodyIsMeant(m, r, i = Len(script))
        BY <1>4 DEF OtherBody
      <4>2. CallMeant(m, r)
        BY <1>1, <1>2, MeantAsWritten DEF RequestMeant
      <4> QED
        BY <1>4, <4>1, <4>2 DEF BodyIsMeant
    <3>6. ForImport(r) => MayBeHandedOn(req.body, i)'
      BY <1>3, <2>4, <3>4, <3>5 DEF MayBeHandedOn
    <3>7. IsMeant(i)'
      BY <1>3, <3>3, <3>5, <3>6 DEF IsMeant
    <3>8. IsRead(i)'
      BY <2>6, <3>1, <3>7 DEF IsRead
    <3>9. Reading(i)'
      BY <1>2, <1>3, <2>5, <3>8 DEF Reading
    <3> QED
      BY <3>9 DEF Proceeds
  <2> QED
    BY <2>7, <2>8
<1> QED
  BY <1>8, <1>9, <1>10, NeededRead

LEMMA FrontsJoined ==
  ASSUME NEW S, NEW s \in Seq(S), NEW n \in Nat, NEW c \in Nat, n + c <= Len(s)
  PROVE  SubSeq(s, 1, n) \o SubSeq(s, n + 1, n + c) = SubSeq(s, 1, n + c)
<1> DEFINE l == n + c
<1>1. 0 \in Nat /\ l \in Nat /\ 0 <= n /\ n <= l /\ l <= Len(s) /\ 0 + 1 = 1
  OBVIOUS
<1> HIDE DEF l
<1>2. SubSeq(s, 0 + 1, n) \o SubSeq(s, n + 1, l) = SubSeq(s, 0 + 1, l)
  BY <1>1, PartsJoined
<1> QED
  BY <1>1, <1>2 DEF l

\* The worker is in the chunks of message i.
LEMMA InChunks ==
  ASSUME ConnInv, NEW i \in 1..Len(script), Reading(i),
         pc \in {"chunk size", "chunk data", "chunk end", "last chunk"}
  PROVE  /\ InputOK /\ OtherBody(i) /\ IsChunked(RequestOf(script[i]))
         /\ ~is_multipart_form_data(RequestOf(script[i])) /\ ~is_multipart_form_data(req)
         /\ req = WithBody(RequestOf(script[i]), req.body)
         /\ IsWord(script[i].text[1], "request")
         /\ \E k \in DOMAIN script[i].chunks :
               /\ pc = "chunk size" => AtSize(i, k)
               /\ pc = "chunk data" => InData(i, k)
               /\ pc = "chunk end" => BehindData(i, k)
               /\ pc = "last chunk" => AtLast(i, k)
         /\ taken \in Nat /\ sent \in Nat /\ sent <= Len(stream) /\ taken <= sent
         /\ Len(stream) \in Nat
<1>1. /\ InChunkedBody(i) /\ req = WithBody(RequestOf(script[i]), req.body)
      /\ IsWord(script[i].text[1], "request")
  BY ReadingAt
<1>2. OtherBody(i) /\ IsChunked(RequestOf(script[i])) /\ ~is_multipart_form_data(RequestOf(script[i]))
  BY <1>1 DEF InChunkedBody, OtherBody
<1>3. ~is_multipart_form_data(req)
  <2>1. PICK b : b = req.body
    OBVIOUS
  <2>2. req = WithBody(RequestOf(script[i]), b)
    BY <1>1, <2>1
  <2>3. req.headers = RequestOf(script[i]).headers
    BY ONLY <2>2, RequestOfMessage
  <2>4. is_multipart_form_data(req) = is_multipart_form_data(RequestOf(script[i]))
    BY ONLY <2>3, SameHeaders
  <2> QED
    BY <1>2, <2>4
<1>4. PICK k \in DOMAIN script[i].chunks : InChunk(i, k)
  BY <1>1 DEF InChunkedBody
<1>5. /\ pc = "chunk size" => AtSize(i, k)
      /\ pc = "chunk data" => InData(i, k)
      /\ pc = "chunk end" => BehindData(i, k)
      /\ pc = "last chunk" => AtLast(i, k)
  BY <1>4 DEF InChunk, AtSize, InData, BehindData, AtLast
<1>6. InputOK
  BY DEF ConnInv
<1>7. taken \in Nat /\ sent \in Nat /\ sent <= Len(stream) /\ taken <= sent /\ Len(stream) \in Nat
  <2>1. sent \in 0..Len(stream) /\ taken \in 0..sent /\ Len(stream) \in Nat
    BY <1>6, StreamFacts DEF InputOK
  <2>2. sent \in Nat /\ sent <= Len(stream)
    BY ONLY <2>1
  <2>3. taken \in Nat /\ taken <= sent
    BY ONLY <2>1, <2>2
  <2> QED
    BY <2>1, <2>2, <2>3
<1> QED
  BY <1>1, <1>2, <1>3, <1>4, <1>5, <1>6, <1>7

\* What a step leaves alone while it reads the chunks of message i.
LEMMA StillInChunks ==
  ASSUME UNCHANGED client, NEW i, OtherBody(i), IsChunked(RequestOf(script[i])),
         IsWord(script[i].text[1], "request"),
         (req = WithBody(RequestOf(script[i]), req.body))',
         NEW CONSTANT k \in DOMAIN script[i].chunks, InChunk(i, k)'
  PROVE  Proceeds(i)
<1>1. script' = script
  BY DEF client
<1>2. OtherBody(i)'
  BY <1>1 DEF OtherBody
<1>3. InChunkedBody(i)'
  BY <1>1, <1>2 DEF InChunkedBody
<1> QED
  BY <1>1, <1>3 DEF Proceeds, Reading

\* A part of the body, or all of it, is handed on.
LEMMA ChunksHandedOn ==
  ASSUME ConnInv, UNCHANGED client, NEW i \in 1..Len(script), OtherBody(i),
         IsChunked(RequestOf(script[i])), IsWord(script[i].text[1], "request"),
         req' = req, req = WithBody(RequestOf(script[i]), req.body), pc' = "received",
         ForImport(RequestOf(script[i])) => MayBeHandedOn(req.body, i),
         EndsWithChunks(script[i]) \/ CutShort(i)',
         (script[i].awkward \/ taken = EndOf(i) \/ AllRead)'
  PROVE  Proceeds(i)
<1> DEFINE m == script[i]
           r == RequestOf(m)
<1>1. /\ InputOK /\ script' = script /\ stream' = stream /\ EndOf(i)' = EndOf(i) /\ sent' = sent
      /\ fin' = fin
  BY SameMessages DEF client, ConnInv
<1>2. CallMeant(m, r)
  BY <1>1, MeantAsWritten DEF RequestMeant
<1>3. StatusesOf(r) \subseteq m.answers \/ CutShort(i)'
  <2>1. BodyIsMeant(m, r, i = Len(script)) /\ ~is_multipart_form_data(r)
    BY DEF OtherBody
  <2>2. \/ EndsWithChunks(m) /\ StatusesOf(r) \subseteq m.answers
        \/ HasTrailer(m)
    BY <2>1 DEF BodyIsMeant
  <2>3. ~(EndsWithChunks(m) /\ HasTrailer(m))
    <3> HIDE DEF m
    <3> QED
      BY DEF EndsWithChunks, HasTrailer
  <2> QED
    BY <2>2, <2>3
<1>4. ForImport(r) => MayBeHandedOn(req.body, i)'
  BY <1>1 DEF MayBeHandedOn
<1>5. IsMeant(i)'
  BY <1>1, <1>2, <1>3, <1>4 DEF IsMeant
<1>6. OtherBody(i)'
  BY <1>1 DEF OtherBody
<1>7. Reading(i)'
  BY <1>1, <1>5, <1>6 DEF Reading, IsRead
<1> QED
  BY <1>7 DEF Proceeds

LEMMA SizeProceeds ==
  ASSUME ConnInv, ReadChunkSize, NEW i \in 1..Len(script), Reading(i)
  PROVE  Proceeds(i)
<1> DEFINE m == script[i]
           line == SubSeq(Arrived, 1, LineLength)
<1>1. /\ UNCHANGED client /\ pc = "chunk size" /\ req' = req
      /\ pc \notin {"reply", "reply body", "terminated"}
  BY DEF ReadChunkSize
<1>2. /\ InputOK /\ OtherBody(i) /\ IsChunked(RequestOf(script[i]))
      /\ req = WithBody(RequestOf(script[i]), req.body)
      /\ IsWord(script[i].text[1], "request")
      /\ taken \in Nat /\ sent \in Nat /\ sent <= Len(stream) /\ taken <= sent
      /\ \E k \in DOMAIN script[i].chunks : AtSize(i, k)
  BY <1>1, InChunks
<1>3. PICK k \in DOMAIN script[i].chunks : AtSize(i, k)
  BY <1>2
<1> DEFINE p == PlaceOfChunk(i, k)
           size == ChunkSize(m, k)
<1>4. /\ size \in Nat /\ p \in Nat /\ p > 0 /\ EndOf(i) \in Nat /\ p + 3 <= EndOf(i)
      /\ IsWord(stream[p], "size") /\ stream[p][2] = size
      /\ stream[p + 1] = CR /\ stream[p + 2] = LF
  BY <1>2, ChunkFacts
<1>5. taken = p - 1 /\ HasData(i, DataBefore(m, k))
  BY <1>3 DEF AtSize
<1>6. /\ PlaceOfChunk(i, k)' = p /\ ChunkSize(script[i], k)' = size
      /\ DataBefore(script[i], k)' = DataBefore(m, k)
      /\ script' = script /\ sent' = sent /\ fin' = fin /\ EndOf(i)' = EndOf(i)
  BY <1>1, SameChunks, SameMessages DEF client
<1>7. (req = WithBody(RequestOf(script[i]), req.body))'
  BY <1>1, <1>2, <1>6
<1>8. HasData(i, DataBefore(m, k))'
  BY <1>1, <1>5, <1>6 DEF HasData
<1> HIDE DEF p, size
<1>9. taken + 1 = p /\ taken + 2 = p + 1 /\ taken + 3 = p + 2 /\ taken < EndOf(i)
  BY <1>2, <1>4, <1>5
<1>10. \/ LineLength > 0 /\ taken' = taken + LineLength
          /\ IF ~IsWord(line[1], "size") THEN Answer(400) /\ UNCHANGED need
             ELSE /\ need' = line[1][2]
                  /\ pc' = IF line[1][2] = 0 THEN "last chunk" ELSE "chunk data"
                  /\ UNCHANGED res
       \/ GivenUp /\ Answer(400)
  BY DEF ReadChunkSize, GetLine, GivenUp
<1>11. CASE GivenUp /\ Answer(400)
  BY <1>1, <1>9, <1>11, FailureAnswered DEF Answer
<1>12. CASE LineLength > 0 /\ taken' = taken + LineLength
            /\ IF ~IsWord(line[1], "size") THEN Answer(400) /\ UNCHANGED need
               ELSE /\ need' = line[1][2]
                    /\ pc' = IF line[1][2] = 0 THEN "last chunk" ELSE "chunk data"
                    /\ UNCHANGED res
  <2>1. stream[taken + 1] # LF /\ stream[taken + 2] = CR /\ stream[taken + 3] = LF
        /\ stream[taken + 1] = stream[p]
    BY <1>4, <1>9, WordFacts
  <2>2. /\ line[1] = stream[taken + 1]
        /\ LineLength = 3 \/ (LineLength < 3 /\ fin /\ taken + LineLength = sent)
        /\ LineLength \in Nat
    <3>1. LineLength \in Nat
      BY <1>2, <1>12, LineRead
    <3> QED
      BY <1>2, <1>12, <2>1, <3>1, WordLine
  <2> HIDE DEF line
  <2>3. need' = size /\ pc' = IF size = 0 THEN "last chunk" ELSE "chunk data"
    BY <1>4, <1>12, <2>1, <2>2
  <2>4. taken' = p + 2 \/ CutShort(i)'
    <3>1. CASE LineLength = 3
      <4>1. taken + 3 = p + 2
        BY <1>9
      <4> QED
        BY <1>12, <3>1, <4>1
    <3>2. CASE LineLength < 3 /\ fin /\ taken + LineLength = sent
      <4>1. sent < EndOf(i)
        BY SMTT(40), <1>2, <1>4, <1>9, <2>2, <3>2
      <4>2. taken' = sent /\ fin
        BY <1>12, <3>2
      <4> QED
        BY <1>1, <1>2, <4>1, <4>2, CutOff
    <3> QED
      BY <2>2, <3>1, <3>2
  <2>5. InChunk(i, k)'
    <3>1. CASE size = 0
      <4>1. AtLast(i, k)'
        BY <1>6, <1>8, <2>3, <2>4, <3>1 DEF AtLast
      <4> QED
        BY <4>1 DEF InChunk
    <3>2. CASE size # 0
      <4>1. pc' = "chunk data"
        BY <2>3, <3>2
      <4>2. need' = size
        BY <2>3
      <4>3. need' \in 1..size
        BY <1>4, <3>2, <4>2
      <4>4. PICK d \in Int : d = DataBefore(m, k)
        BY <1>2, ChunkFacts
      <4>5. d + size - size = d /\ (p + 2) + size - size = p + 2
        BY <1>4
      <4>6. HasData(i, d)'
        BY <1>1, <1>5, <1>6, <4>4 DEF HasData
      <4>7. HasData(i, DataBefore(script[i], k) + ChunkSize(script[i], k) - need)'
        <5>1. (DataBefore(script[i], k) + ChunkSize(script[i], k) - need)' = d
          BY <1>6, <4>2, <4>4, <4>5
        <5> QED
          BY <4>6, <5>1 DEF HasData
      <4>8. (taken = PlaceOfChunk(i, k) + 2 + ChunkSize(script[i], k) - need)' \/ CutShort(i)'
        BY <1>6, <2>4, <4>2, <4>5
      <4>9. (need \in 1..ChunkSize(script[i], k))'
        BY <1>6, <4>3
      <4>10. InData(i, k)'
        BY <4>1, <4>7, <4>8, <4>9 DEF InData
      <4> QED
        BY <4>10 DEF InChunk
    <3> QED
      BY <3>1, <3>2
  <2> QED
    BY <1>1, <1>2, <1>7, <2>5, StillInChunks
<1> QED
  BY <1>10, <1>11, <1>12

\* The data before a chunk is that of the chunks before it.
LEMMA DataBeforeChunk ==
  ASSUME InputOK, NEW i \in 1..Len(script), OtherBody(i), IsChunked(RequestOf(script[i])),
         NEW k \in DOMAIN script[i].chunks
  PROVE  DataBefore(script[i], k) \in Nat
<1> DEFINE m == script[i]
           c == Len(m.chunks)
           Bad == {j \in Nat : j \in 1..c /\ DataBefore(m, j) \notin Nat}
<1>1. c \in Nat /\ k \in 1..c /\ DOMAIN m.chunks = 1..c /\ m.chunks \in Seq(Nat)
      /\ m.chunks[1] \in Nat
  <2>1. c \in Nat /\ k \in 1..c
    BY ChunkFacts
  <2>2. m.chunks \in Seq(Nat)
    BY HeadFacts
  <2> HIDE DEF m
  <2>3. DOMAIN m.chunks = 1..c /\ 1 \in 1..c
    BY <2>1, <2>2
  <2>4. m.chunks[1] \in Nat
    BY <2>2, <2>3, ElementOfSeq
  <2> QED
    BY <2>1, <2>2, <2>3, <2>4
<1> SUFFICES ASSUME k \in Bad PROVE FALSE
  BY <1>1
<1>2. PICK j \in Bad : \A x \in Bad : j <= x
  <2>1. Bad \in SUBSET Nat /\ Bad # {}
    OBVIOUS
  <2> HIDE DEF Bad
  <2> QED
    BY <2>1, LeastOf
<1>3. j \in Nat /\ j \in 1..c /\ DataBefore(m, j) \notin Nat
  OBVIOUS
<1>4. j # 1
  <2>1. DataBefore(m, 1) = 0
    <3> HIDE DEF m
    <3> QED
      BY <1>1 DEF DataBefore
  <2> QED
    BY <1>3, <2>1
<1>5. PICK x \in Nat : x = j - 1 /\ x + 1 = j /\ x \in 1..c /\ x < c /\ x < j
  <2>1. j - 1 \in Nat /\ (j - 1) + 1 = j /\ j - 1 \in 1..c /\ j - 1 < c /\ j - 1 < j
    BY <1>1, <1>3, <1>4
  <2> QED
    BY <2>1
<1>6. x \notin Bad
  BY <1>2, <1>3, <1>5
<1>7. DataBefore(m, x) \in Nat
  BY <1>5, <1>6
<1>8. ChunkSize(m, x) \in Nat /\ DataBefore(m, x + 1) = DataBefore(m, x) + ChunkSize(m, x)
  BY <1>1, <1>5, ChunkFacts
<1>9. DataBefore(m, j) \in Nat
  <2>1. DataBefore(m, x) + ChunkSize(m, x) \in Nat
    BY <1>7, <1>8
  <2> QED
    BY <1>5, <1>8, <2>1
<1> QED
  BY <1>3, <1>9

\* A piece of a chunk is a piece of the data.
LEMMA DataGrows ==
  ASSUME InputOK, NEW i \in 1..Len(script), OtherBody(i), IsChunked(RequestOf(script[i])),
         NEW k \in DOMAIN script[i].chunks, NEW a \in Nat, NEW n \in Nat,
         a + n <= ChunkSize(script[i], k), taken = PlaceOfChunk(i, k) + 2 + a,
         taken + n <= sent, HasData(i, DataBefore(script[i], k) + a), script' = script,
         req = WithBody(RequestOf(script[i]), req.body),
         req' = WithBody(req, req.body \o SubSeq(stream, taken + 1, taken + n))
  PROVE  /\ HasData(i, DataBefore(script[i], k) + (a + n))'
         /\ (req = WithBody(RequestOf(script[i]), req.body))'
<1> DEFINE m == script[i]
           piece == SubSeq(stream, taken + 1, taken + n)
           grown == req.body \o piece
           data == m.call.body
<1>1. req' = WithBody(RequestOf(m), grown) /\ req'.body = grown
  <2> HIDE DEF grown
  <2>1. WithBody(req, grown) = WithBody(RequestOf(m), grown) /\ WithBody(req, grown).body = grown
    BY GrownBody
  <2>2. req' = WithBody(req, grown)
    BY DEF grown
  <2> QED
    BY <2>1, <2>2
<1>2. (req = WithBody(RequestOf(script[i]), req.body))'
  BY <1>1
<1>3. PICK d \in Nat : d = DataBefore(m, k)
  BY DataBeforeChunk
<1>4. (DataBefore(script[i], k) + (a + n))' = d + (a + n)
  BY <1>3 DEF DataBefore
<1>5. ASSUME ForImport(RequestOf(m))
      PROVE  d + (a + n) \in 0..Len(data) /\ grown = SubSeq(data, 1, d + (a + n))
  <2>1. req.body = SubSeq(data, 1, d + a)
    BY <1>3, <1>5 DEF HasData
  <2>2. PICK p \in Nat : p = PlaceOfChunk(i, k)
    BY ChunkFacts
  <2>3. p + 2 + a + n <= Len(stream) /\ taken = p + 2 + a
    <3>1. sent \in 0..Len(stream) /\ Len(stream) \in Nat
      BY StreamFacts DEF InputOK
    <3>2. taken = p + 2 + a
      BY <2>2
    <3>3. p + 2 + a + n <= sent
      BY <3>2
    <3> QED
      BY SMTT(40), <3>1, <3>2, <3>3
  <2>4. /\ DataBefore(m, k) + ChunkSize(m, k) <= Len(data) /\ data \in Seq(Range(data))
        /\ SubSeq(stream, p + 2 + a + 1, p + 2 + a + n)
             = SubSeq(data, DataBefore(m, k) + a + 1, DataBefore(m, k) + a + n)
    BY <1>3, <1>5, <2>2, <2>3, ChunkData
  <2>5. piece = SubSeq(data, d + a + 1, d + a + n)
    BY <1>3, <2>3, <2>4
  <2>6. PICK z \in Nat : z = ChunkSize(m, k)
    BY ChunkFacts
  <2>7. Len(data) \in Nat /\ d + z <= Len(data) /\ data \in Seq(Range(data))
    BY <1>3, <2>4, <2>6, LenProperties
  <2> HIDE DEF data
  <2>8. PICK e \in Nat : e = d + a
    OBVIOUS
  <2>9. e + n <= Len(data) /\ d + (a + n) = e + n
    BY <2>6, <2>7, <2>8
  <2>10. SubSeq(data, 1, e) \o SubSeq(data, e + 1, e + n) = SubSeq(data, 1, e + n)
    BY <2>7, <2>9, FrontsJoined
  <2>11. grown = SubSeq(data, 1, e + n)
    BY <2>1, <2>5, <2>8, <2>10 DEF data
  <2>12. d + (a + n) \in 0..Len(data)
    <3>1. e + n \in 0..Len(data)
      BY <2>7, <2>9
    <3> QED
      BY <2>9, <3>1
  <2>13. grown = SubSeq(data, 1, d + (a + n))
    BY <2>9, <2>11
  <2> QED
    BY <2>12, <2>13 DEF data
<1>6. HasData(i, DataBefore(script[i], k) + (a + n))'
  <2>1. ForImport(RequestOf(script[i]))' = ForImport(RequestOf(m)) /\ (script[i].call.body)' = data
    OBVIOUS
  <2> HIDE DEF grown, data, m
  <2> QED
    BY <1>1, <1>4, <1>5, <2>1 DEF HasData
<1> QED
  BY <1>2, <1>6

\* The data of a chunk.
LEMMA DataProceeds ==
  ASSUME ConnInv, ReadWithLength, NEW i \in 1..Len(script), Reading(i), InChunkedBody(i)
  PROVE  Proceeds(i)
<1> DEFINE m == script[i]
<1>1. UNCHANGED client /\ script' = script /\ stream' = stream /\ sent' = sent /\ fin' = fin
  BY DEF ReadWithLength, client
<1>2. pc = "chunk data"
  BY DEF ReadWithLength, InChunkedBody, InChunk, AtSize, InData, BehindData, AtLast
<1>3. /\ InputOK /\ OtherBody(i) /\ IsChunked(RequestOf(script[i]))
      /\ ~is_multipart_form_data(req)
      /\ req = WithBody(RequestOf(script[i]), req.body)
      /\ IsWord(script[i].text[1], "request")
      /\ taken \in Nat /\ sent \in Nat /\ sent <= Len(stream) /\ taken <= sent
      /\ \E k \in DOMAIN script[i].chunks : InData(i, k)
  BY <1>2, InChunks
<1>4. PICK k \in DOMAIN script[i].chunks : InData(i, k)
  BY <1>3
<1>5. PICK z \in Nat, p \in Nat : z = ChunkSize(m, k) /\ p = PlaceOfChunk(i, k)
  BY <1>3, ChunkFacts
<1>6. /\ need \in 1..z /\ HasData(i, DataBefore(m, k) + z - need)
      /\ taken = p + 2 + z - need \/ CutShort(i)
  BY <1>4, <1>5 DEF InData
<1>7. EndOf(i) \in Nat /\ p + z + 8 <= EndOf(i)
  <2>1. z # 0
    BY <1>5, <1>6
  <2>2. k < Len(m.chunks)
    <3>1. Len(m.chunks) \in Nat /\ k \in 1..Len(m.chunks) /\ k # Len(m.chunks)
      BY <1>3, <1>5, <2>1, ChunkFacts
    <3> QED
      BY <3>1
  <2> QED
    BY <1>3, <1>5, <2>2, ChunkFacts
<1>8. need \in Nat /\ need > 0 /\ need <= z
  BY <1>5, <1>6
<1>9. CASE NotReceived /\ GivenUp /\ pc' = "reply"
  <2>1. taken < EndOf(i) \/ CutShort(i)
    BY SMTT(40), <1>5, <1>6, <1>7, <1>8
  <2> QED
    BY <1>1, <1>9, <2>1, FailureAnswered
<1>10. ASSUME NEW n \in Nat, n \in 1..need, taken + n <= sent, taken' = taken + n,
             need' = need - n, Arrived # <<>>,
             Receive(SubSeq(stream, taken + 1, taken + n),
                     IF n < need THEN pc
                     ELSE IF pc = "with length" THEN "received" ELSE "chunk end")
      PROVE  Proceeds(i)
  <2>1. n \in 1..need /\ taken + n <= sent /\ taken' = taken + n /\ need' = need - n
    BY <1>10
  <2>2. taken = p + 2 + z - need
    <3>1. ~CutShort(i)
      BY <1>3, <1>10, NothingArrived DEF CutShort
    <3> QED
      BY <1>6, <3>1
  <2>3. PICK a \in Nat : a = z - need
    BY <1>5, <1>8
  <2> PICK h \in Nat : h = need
    BY <1>8
  <2>4. h > 0 /\ h <= z /\ n <= h /\ n > 0 /\ a = z - h
    <3>1. n \in 1..h
      BY <2>1
    <3> QED
      BY <1>8, <2>3, <3>1
  <2>5. (p + 2) + z - h = p + 2 + a /\ a + n <= z
    BY <2>4
  <2>6. taken = p + 2 + a /\ a + n <= z
    <3>1. taken = p + 2 + z - h
      BY <2>2
    <3> QED
      BY <2>5, <3>1
  <2>7. req' = WithBody(req, req.body \o SubSeq(stream, taken + 1, taken + n))
    BY <1>2, <1>3, <1>10 DEF Receive, WithBody
  <2>8. pc' = IF n < need THEN "chunk data" ELSE "chunk end"
    BY <1>2, <1>3, <1>10 DEF Receive
  <2>9. PICK d \in Nat : d = DataBefore(m, k)
    BY <1>3, DataBeforeChunk
  <2>10. HasData(i, d + a)
    <3>1. d + z - need = d + a
      BY <1>5, <1>8, <2>3
    <3> QED
      BY <1>6, <2>9, <3>1
  <2>11. /\ HasData(i, d + (a + n))'
        /\ (req = WithBody(RequestOf(script[i]), req.body))'
    <3>1. a + n <= ChunkSize(script[i], k) /\ taken = PlaceOfChunk(i, k) + 2 + a
          /\ HasData(i, DataBefore(script[i], k) + a)
      BY <1>5, <2>6, <2>9, <2>10
    <3>2. /\ HasData(i, DataBefore(script[i], k) + (a + n))'
          /\ (req = WithBody(RequestOf(script[i]), req.body))'
      BY <1>1, <1>3, <2>1, <2>7, <3>1, DataGrows
    <3>3. (DataBefore(script[i], k) + (a + n))' = d + (a + n)
      BY <1>1, <2>9, SameChunks
    <3> QED
      BY <3>2, <3>3 DEF HasData
  <2>12. /\ PlaceOfChunk(i, k)' = p /\ ChunkSize(script[i], k)' = z
        /\ DataBefore(script[i], k)' = d
    BY <1>1, <1>5, <2>9, SameChunks
  <2>13. InChunk(i, k)'
    <3>1. CASE n < need
      <4>1. pc' = "chunk data"
        BY <2>8, <3>1
      <4>2. need' \in 1..z
        BY <1>5, <1>8, <2>1, <3>1
      <4>3. d + z - need' = d + (a + n) /\ taken' = p + 2 + z - need'
        <5>1. need' = h - n /\ taken' = (p + 2 + a) + n
          BY <2>1, <2>6
        <5>2. d + z - (h - n) = d + (a + n) /\ (p + 2 + a) + n = p + 2 + z - (h - n)
          BY <2>4
        <5> QED
          BY <5>1, <5>2
      <4>4. (HasData(i, DataBefore(script[i], k) + ChunkSize(script[i], k) - need))'
        <5>1. (DataBefore(script[i], k) + ChunkSize(script[i], k) - need)' = d + (a + n)
          BY <2>12, <4>3
        <5> QED
          BY <2>11, <5>1 DEF HasData
      <4>5. (need \in 1..ChunkSize(script[i], k))'
        BY <2>12, <4>2
      <4>6. (taken = PlaceOfChunk(i, k) + 2 + ChunkSize(script[i], k) - need)'
        BY <2>12, <4>3
      <4>7. InData(i, k)'
        BY <4>1, <4>4, <4>5, <4>6 DEF InData
      <4> QED
        BY <4>7 DEF InChunk
    <3>2. CASE ~(n < need)
      <4>1. pc' = "chunk end"
        BY <2>8, <3>2
      <4>2. a + n = z /\ taken + n = p + 2 + z /\ z > 0
        <5>1. n = h
          BY <2>4, <3>2
        <5>2. a + n = z /\ (p + 2 + a) + n = p + 2 + z /\ z > 0
          BY <2>4, <5>1
        <5> QED
          BY <2>6, <5>2
      <4>3. (HasData(i, DataBefore(script[i], k) + ChunkSize(script[i], k)))'
        <5>1. (DataBefore(script[i], k) + ChunkSize(script[i], k))' = d + (a + n)
          BY <2>12, <4>2
        <5> QED
          BY <2>11, <5>1 DEF HasData
      <4>4. (ChunkSize(script[i], k) > 0)'
        BY <2>12, <4>2
      <4>5. (taken = PlaceOfChunk(i, k) + 2 + ChunkSize(script[i], k))'
        BY <2>1, <2>12, <4>2
      <4>6. BehindData(i, k)'
        BY <4>1, <4>3, <4>4, <4>5 DEF BehindData
      <4> QED
        BY <4>6 DEF InChunk
    <3> QED
      BY <3>1, <3>2
  <2> QED
    BY <1>1, <1>3, <2>11, <2>13, StillInChunks
<1> QED
  BY <1>8, <1>9, <1>10, NeededRead

\* What is known of a body in chunks.
LEMMA ChunkedAsMeant ==
  ASSUME NEW i, OtherBody(i), IsChunked(RequestOf(script[i]))
  PROVE  LET m == script[i]
         IN  /\ ChunksLaidOut(m) /\ m.framing = "chunked"
             /\ ForImport(RequestOf(m)) => ChunksMeant(m)
             /\ \/ EndsWithChunks(m)
                \/ HasTrailer(m) /\ m.awkward /\ 400 \in m.answers
<1>1. BodyIsMeant(script[i], RequestOf(script[i]), i = Len(script))
      /\ ~is_multipart_form_data(RequestOf(script[i]))
  BY DEF OtherBody
<1> QED
  BY <1>1 DEF BodyIsMeant

\* The body so far is a part of the data.
LEMMA DataIsPrefix ==
  ASSUME InputOK, NEW i \in 1..Len(script), NEW n \in Int, HasData(i, n),
         ForImport(RequestOf(script[i]))
  PROVE  /\ IsPrefix(req.body, script[i].call.body)
         /\ n = Len(script[i].call.body) => req.body = script[i].call.body
<1> DEFINE data == script[i].call.body
<1>1. n \in 0..Len(data) /\ req.body = SubSeq(data, 1, n)
  BY DEF HasData
<1>2. data \in Seq(Range(data))
  <2>1. i \in DOMAIN script /\ script \in Scripts
    BY MessageFacts DEF InputOK
  <2> QED
    BY <2>1, MessagesAssumption
<1> HIDE DEF data
<1>3. Len(data) \in Nat
  BY <1>2
<1>4. n \in Nat /\ n <= Len(data)
  BY <1>1, <1>3
<1>5. data = SubSeq(data, 1, Len(data))
  BY <1>2, SubSeqFull
<1>6. IsPrefix(SubSeq(data, 1, n), SubSeq(data, 1, Len(data)))
  <2>1. 0 \in Nat /\ 0 <= n /\ 0 + 1 = 1 /\ Len(data) <= Len(data)
    BY <1>3, <1>4
  <2>2. IsPrefix(SubSeq(data, 0 + 1, n), SubSeq(data, 0 + 1, Len(data)))
    BY <1>2, <1>3, <1>4, <2>1, PartIsPrefix
  <2> QED
    BY <2>1, <2>2
<1>7. IsPrefix(req.body, data)
  BY <1>1, <1>5, <1>6
<1>8. n = Len(data) => req.body = data
  BY <1>1, <1>5
<1> QED
  BY <1>7, <1>8 DEF data

\* The line behind the data of a chunk.
LEMMA EndProceeds ==
  ASSUME ConnInv, ReadChunkEnd, NEW i \in 1..Len(script), Reading(i)
  PROVE  Proceeds(i)
<1> DEFINE m == script[i]
           line == SubSeq(Arrived, 1, LineLength)
<1>1. /\ UNCHANGED client /\ pc = "chunk end" /\ req' = req
      /\ script' = script /\ stream' = stream /\ sent' = sent /\ fin' = fin
  BY DEF ReadChunkEnd, client
<1>2. /\ InputOK /\ OtherBody(i) /\ IsChunked(RequestOf(script[i]))
      /\ req = WithBody(RequestOf(script[i]), req.body)
      /\ IsWord(script[i].text[1], "request")
      /\ taken \in Nat /\ sent \in Nat /\ sent <= Len(stream) /\ taken <= sent
      /\ \E k \in DOMAIN script[i].chunks : BehindData(i, k)
  BY <1>1, InChunks
<1>3. PICK k \in DOMAIN script[i].chunks : BehindData(i, k)
  BY <1>2
<1>4. PICK z \in Nat, p \in Nat, d \in Nat :
         z = ChunkSize(m, k) /\ p = PlaceOfChunk(i, k) /\ d = DataBefore(m, k)
  BY <1>2, ChunkFacts, DataBeforeChunk
<1>5. z > 0 /\ HasData(i, d + z) /\ taken = p + 2 + z
  BY <1>3, <1>4 DEF BehindData
<1>6. /\ EndOf(i) \in Nat /\ p + z + 8 <= EndOf(i) /\ k + 1 \in DOMAIN m.chunks
      /\ PlaceOfChunk(i, k + 1) = p + z + 5 /\ DataBefore(m, k + 1) = d + z
      /\ stream[p + z + 3] = CR /\ stream[p + z + 4] = LF /\ k \in Nat
  <2>1. k < Len(m.chunks) /\ k \in Nat
    <3>1. z # 0
      BY <1>5
    <3>2. Len(m.chunks) \in Nat /\ k \in 1..Len(m.chunks) /\ k # Len(m.chunks)
      BY <1>2, <1>4, <3>1, ChunkFacts
    <3> QED
      BY <3>2
  <2> QED
    BY <1>2, <1>4, <2>1, ChunkFacts
<1>7. /\ taken + 1 = p + z + 3 /\ taken + 2 = p + z + 4 /\ taken + 2 = (p + z + 5) - 1
      /\ taken + 1 < EndOf(i) /\ taken < EndOf(i)
  <2>1. PICK e \in Nat, t \in Nat : e = EndOf(i) /\ t = taken
    BY <1>2, <1>6
  <2>2. z \in Nat /\ p \in Nat /\ e \in Nat /\ t \in Nat
    OBVIOUS
  <2>3. t = p + 2 + z /\ p + z + 8 <= e
    BY <1>5, <1>6, <2>1
  <2>4. /\ t + 1 = p + z + 3 /\ t + 2 = p + z + 4 /\ t + 2 = (p + z + 5) - 1
        /\ t + 1 < e /\ t < e
    BY ONLY <2>2, <2>3
  <2> QED
    BY ONLY <2>1, <2>4
<1>8. (req = WithBody(RequestOf(script[i]), req.body))'
  BY <1>1, <1>2
<1>9. \/ /\ LineLength > 0 /\ taken' = taken + LineLength
         /\ pc' = IF line = CrLf THEN "chunk size" ELSE "received"
      \/ GivenUp /\ pc' = "reply"
  BY DEF ReadChunkEnd, GetLine, GivenUp, Answer
<1>10. CASE GivenUp /\ pc' = "reply"
  BY <1>1, <1>2, <1>7, <1>10, FailureAnswered
<1>11. CASE /\ LineLength > 0 /\ taken' = taken + LineLength
            /\ pc' = IF line = CrLf THEN "chunk size" ELSE "received"
  <2>1. LineLength > 0 /\ taken' = taken + LineLength
    BY <1>11
  <2>2. stream[taken + 1] = CR /\ stream[taken + 2] = LF
    BY <1>6, <1>7
  <2>3. \/ LineLength = 2 /\ line = CrLf
        \/ LineLength = 1 /\ line # CrLf /\ fin /\ taken + 1 = sent
    BY <1>2, <2>1, <2>2, EmptyLine
  <2> HIDE DEF line
  <2>4. CASE LineLength = 2 /\ line = CrLf
    <3>1. pc' = "chunk size"
      BY <1>11, <2>4
    <3>2. PICK j \in DOMAIN script[i].chunks : j = k + 1
      BY <1>6
    <3>3. PlaceOfChunk(i, j)' = p + z + 5 /\ DataBefore(script[i], j)' = d + z
      BY <1>1, <1>6, <3>2, SameChunks
    <3>4. (taken = PlaceOfChunk(i, j) - 1)'
      BY <1>7, <2>1, <2>4, <3>3
    <3>5. HasData(i, d + z)'
      BY <1>1, <1>5 DEF HasData
    <3>6. (HasData(i, DataBefore(script[i], j)))'
      BY <3>3, <3>5 DEF HasData
    <3>7. AtSize(i, j)'
      BY <3>1, <3>4, <3>6 DEF AtSize
    <3>8. InChunk(i, j)'
      BY <3>7 DEF InChunk
    <3> QED
      BY <1>1, <1>2, <1>8, <3>8, StillInChunks
  <2>5. CASE LineLength = 1 /\ line # CrLf /\ fin /\ taken + 1 = sent
    <3>1. pc' = "received"
      BY <1>11, <2>5
    <3>2. taken' = sent /\ sent < EndOf(i) /\ fin
      BY <1>7, <2>1, <2>5
    <3>3. CutShort(i)' /\ AllRead'
      BY <1>1, <1>2, <3>2, CutOff
    <3>4. stream[sent] = CR
      BY <2>2, <2>5
    <3>5. ForImport(RequestOf(m)) => MayBeHandedOn(req.body, i)
      <4>1. m.framing = "chunked"
        BY <1>2, ChunkedAsMeant
      <4>2. ForImport(RequestOf(m)) => IsPrefix(req.body, m.call.body)
        <5>1. d + z \in Int
          BY <1>4
        <5> QED
          BY <1>2, <1>5, <5>1, DataIsPrefix
      <4> QED
        BY <3>2, <3>4, <4>1, <4>2 DEF MayBeHandedOn
    <3>6. (script[i].awkward \/ taken = EndOf(i) \/ AllRead)'
      BY <3>3
    <3> QED
      BY <1>1, <1>2, <3>1, <3>3, <3>5, <3>6, ChunksHandedOn
  <2> QED
    BY <2>3, <2>4, <2>5
<1> QED
  BY <1>9, <1>10, <1>11

\* The line behind the last chunk.
LEMMA LastProceeds ==
  ASSUME ConnInv, ReadLastChunk, NEW i \in 1..Len(script), Reading(i)
  PROVE  Proceeds(i)
<1> DEFINE m == script[i]
           line == SubSeq(Arrived, 1, LineLength)
<1>1. /\ UNCHANGED client /\ pc = "last chunk" /\ req' = req
      /\ script' = script /\ stream' = stream /\ sent' = sent /\ fin' = fin
      /\ pc \notin {"reply", "reply body", "terminated"}
  BY DEF ReadLastChunk, client
<1>2. /\ InputOK /\ OtherBody(i) /\ IsChunked(RequestOf(script[i]))
      /\ req = WithBody(RequestOf(script[i]), req.body)
      /\ IsWord(script[i].text[1], "request")
      /\ taken \in Nat /\ sent \in Nat /\ sent <= Len(stream) /\ taken <= sent
      /\ \E k \in DOMAIN script[i].chunks : AtLast(i, k)
  BY <1>1, InChunks
<1>3. PICK k \in DOMAIN script[i].chunks : AtLast(i, k)
  BY <1>2
<1>4. PICK p \in Nat, d \in Nat : p = PlaceOfChunk(i, k) /\ d = DataBefore(m, k)
  BY <1>2, ChunkFacts, DataBeforeChunk
<1>5. ChunkSize(m, k) = 0 /\ HasData(i, d) /\ (taken = p + 2 \/ CutShort(i))
  BY <1>3, <1>4 DEF AtLast
<1>6. k = Len(m.chunks) /\ EndOf(i) \in Nat /\ p + 3 <= EndOf(i)
  BY <1>2, <1>4, <1>5, ChunkFacts
<1>7. /\ stream[p + 3] = m.text[m.chunks[k] + 3]
      /\ EndsWithChunks(m) => /\ stream[p + 3] = CR /\ stream[p + 4] = LF
                              /\ EndOf(i) = p + 4
  <2>1. PICK b \in Nat, l \in Nat, x \in Nat :
           b = BeginOf(i) /\ l = Len(m.text) /\ x = m.chunks[k] /\ p = b + x
           /\ EndOf(i) = b + l /\ \A j \in 1..l : stream[b + j] = m.text[j]
    <3>1. BeginOf(i) \in Nat
      BY <1>2, RestFacts
    <3>2. Len(m.text) \in Nat /\ m.chunks \in Seq(Nat)
      BY <1>2, HeadFacts
    <3>3. m.chunks[k] \in Nat
      <4> HIDE DEF m
      <4>1. k \in DOMAIN m.chunks
        BY DEF m
      <4> QED
        BY <3>2, <4>1
    <3>4. EndOf(i) = BeginOf(i) + Len(m.text)
          /\ \A j \in 1..Len(m.text) : stream[BeginOf(i) + j] = m.text[j]
      BY <1>2, MessageFacts
    <3> QED
      BY <1>4, <3>1, <3>2, <3>3, <3>4 DEF PlaceOfChunk
  <2>2. p = b + x /\ b + x + 3 <= b + l
    BY ONLY <1>6, <2>1
  <2>3. x + 3 \in 1..l /\ b + (x + 3) = p + 3
    <3>1. x + 3 <= l
      BY <2>2
    <3> QED
      BY <2>2, <3>1
  <2>4. stream[p + 3] = m.text[x + 3]
    BY <2>1, <2>3
  <2>5. ASSUME EndsWithChunks(m)
        PROVE  stream[p + 3] = CR /\ stream[p + 4] = LF /\ EndOf(i) = p + 4
    <3>1. m.text[x + 3] = CR /\ m.text[x + 3 + 1] = LF /\ l = x + 3 + 1
      BY <1>6, <2>1, <2>5 DEF EndsWithChunks
    <3>2. x + 3 + 1 \in 1..l /\ b + (x + 3 + 1) = p + 4
      <4>1. l = x + 3 + 1
        BY <3>1
      <4> QED
        BY <2>2, <4>1
    <3>3. stream[p + 4] = LF
      BY <2>1, <3>1, <3>2
    <3>4. EndOf(i) = p + 4
      <4>1. l = x + 3 + 1 /\ EndOf(i) = b + l
        BY <2>1, <3>1
      <4> QED
        BY <2>2, <4>1
    <3> QED
      BY <2>4, <3>1, <3>3, <3>4
  <2> QED
    BY <2>1, <2>4, <2>5
<1>8. taken < EndOf(i) \/ CutShort(i)
  BY <1>5, <1>6
<1>9. \/ /\ LineLength > 0 /\ taken' = taken + LineLength
         /\ IF line = CrLf THEN pc' = "received" ELSE Answer(400)
      \/ GivenUp /\ pc' = "reply"
  BY ZenonT(40) DEF ReadLastChunk, GetLine, GivenUp, Answer
<1>10. CASE GivenUp /\ pc' = "reply"
  BY <1>1, <1>2, <1>8, <1>10, FailureAnswered
<1>11. CASE /\ LineLength > 0 /\ taken' = taken + LineLength
            /\ IF line = CrLf THEN pc' = "received" ELSE Answer(400)
  <2>1. LineLength > 0 /\ taken' = taken + LineLength
    BY <1>11
  <2>2. taken = p + 2
    <3>1. ~CutShort(i)
      BY <1>2, <2>1, NothingArrived DEF CutShort
    <3> QED
      BY <1>5, <3>1
  <2>3. taken + 1 = p + 3 /\ taken + 2 = p + 4
    BY <2>2
  <2>4. CASE EndsWithChunks(m)
    <3>1. stream[taken + 1] = CR /\ stream[taken + 2] = LF /\ EndOf(i) = taken + 2
      BY <1>7, <2>3, <2>4
    <3>2. \/ LineLength = 2 /\ line = CrLf
          \/ LineLength = 1 /\ line # CrLf /\ fin /\ taken + 1 = sent
      BY <1>2, <2>1, <3>1, EmptyLine
    <3> HIDE DEF line
    <3>3. CASE LineLength = 2 /\ line = CrLf
      <4>1. pc' = "received"
        BY <1>11, <3>3
      <4>2. taken' = EndOf(i) /\ EndOf(i)' = EndOf(i)
        BY <1>1, <2>1, <3>1, <3>3, SameMessages
      <4>3. ForImport(RequestOf(m)) => MayBeHandedOn(req.body, i)
        <5> SUFFICES ASSUME ForImport(RequestOf(m)) PROVE req.body = m.call.body
          BY DEF MayBeHandedOn
        <5>1. Len(m.call.body) = d
          <6>1. ChunksMeant(m)
            BY <1>2, ChunkedAsMeant
          <6> QED
            BY <1>4, <1>6, <6>1 DEF ChunksMeant
        <5>2. d \in Int
          OBVIOUS
        <5> QED
          BY <1>2, <1>5, <5>1, <5>2, DataIsPrefix
      <4>4. (script[i].awkward \/ taken = EndOf(i) \/ AllRead)'
        BY <4>2
      <4> QED
        BY <1>1, <1>2, <2>4, <4>1, <4>3, <4>4, ChunksHandedOn
    <3>4. CASE LineLength = 1 /\ line # CrLf /\ fin /\ taken + 1 = sent
      <4>1. pc' = "reply"
        BY <1>11, <3>4 DEF Answer
      <4>2. taken' = sent /\ sent < EndOf(i) /\ fin
        BY <1>2, <2>1, <3>1, <3>4
      <4>3. CutShort(i)' /\ AllRead'
        BY <1>1, <1>2, <4>2, CutOff
      <4> QED
        BY <4>1, <4>3 DEF Proceeds, Answered
    <3> QED
      BY <3>2, <3>3, <3>4
  <2>5. CASE ~EndsWithChunks(m)
    <3>1. HasTrailer(m) /\ m.awkward /\ 400 \in m.answers
      BY <1>2, <2>5, ChunkedAsMeant
    <3>2. stream[taken + 1] \notin {CR, LF}
      BY <1>6, <1>7, <2>3, <3>1 DEF HasTrailer
    <3>3. line # CrLf
      <4>1. line[1] = stream[taken + 1]
        <5>1. /\ LineLength \in Nat /\ \A x \in 1..LineLength : line[x] = stream[taken + x]
          BY <1>2, <2>1, LineRead
        <5> HIDE DEF line
        <5>2. 1 \in 1..LineLength
          BY <2>1, <5>1
        <5> QED
          BY <5>1, <5>2
      <4>2. CrLf[1] = CR
        BY DEF CrLf
      <4> HIDE DEF line
      <4> QED
        BY <3>2, <4>1, <4>2
    <3>4. Answer(400)
      BY <1>11, <3>3
    <3>5. 400 # -1 /\ 400 \in script[i].answers /\ script[i].awkward
      BY <3>1
    <3> QED
      BY <1>1, <3>4, <3>5, RefusalAnswered
  <2> QED
    BY <2>4, <2>5
<1> QED
  BY <1>9, <1>10, <1>11

-----------------------------------------------------------------------------
(* The request that is read is one of the messages.                          *)

LEMMA RequestProceeds ==
  ASSUME ConnInv, Worker, NEW i \in 1..Len(script), Reading(i)
  PROVE  Proceeds(i)
<1>1. pc \in InRequest
  BY ReadingAt
<1>2. CASE ReadHeader
  BY <1>2, HeaderProceeds
<1>3. CASE WriteContinue
  BY <1>3, ContinueProceeds
<1>4. CASE Routing
  BY <1>4, RoutingProceeds
<1>5. CASE ReadWithLength
  <2>1. CASE pc = "with length"
    <3>1. InForm(i) \/ InLength(i)
      BY <2>1, ReadingAt
    <3> QED
      BY <1>5, <3>1, FormProceeds, LengthProceeds
  <2>2. CASE pc = "chunk data"
    <3>1. InChunkedBody(i)
      BY <2>2, ReadingAt
    <3> QED
      BY <1>5, <3>1, DataProceeds
  <2> QED
    BY <1>5, <2>1, <2>2 DEF ReadWithLength
<1>6. CASE ReadUntilClose
  BY <1>6, UntilCloseProceeds
<1>7. CASE ReadChunkSize
  BY <1>7, SizeProceeds
<1>8. CASE ReadChunkEnd
  BY <1>8, EndProceeds
<1>9. CASE ReadLastChunk
  BY <1>9, LastProceeds
<1>10. CASE ContentRead
  BY <1>10, ContentProceeds
<1>11. CASE Dispatch
  BY <1>11, DispatchProceeds
<1>12. ~(\/ AwaitRequest \/ IdleTooLong \/ CloseSocket \/ ReadRequestLine \/ SkipHeader
         \/ WriteHead \/ WriteBody \/ Terminate)
  BY <1>1 DEF InRequest, AwaitRequest, IdleTooLong, CloseSocket, ReadRequestLine, SkipHeader,
              WriteHead, WriteBody, Terminate
<1> QED
  BY <1>2, <1>3, <1>4, <1>5, <1>6, <1>7, <1>8, <1>9, <1>10, <1>11, <1>12 DEF Worker

\* What the client has not sent before it closes its side it never sends.
SentForGood == fin => fin' /\ sent' = sent

LEMMA ClientSteps ==
  ASSUME ConnInv, [Next]_vars
  PROVE  /\ SentForGood
         /\ UNCHANGED <<script, stream>>
         /\ Client \/ UNCHANGED vars =>
               /\ UNCHANGED <<taken, pc, left, start, req, res, need, parser, late>>
               /\ UNCHANGED <<replies, calls, continues>> /\ (gone => gone')
         /\ ~(Client \/ UNCHANGED vars) => Worker /\ UNCHANGED client
<1>1. CASE Client
  BY <1>1 DEF Client, Send, Close, Reset, SentForGood, reading, made
<1>2. CASE UNCHANGED vars
  BY <1>2 DEF vars, client, SentForGood, reading, made
<1>3. CASE Worker
  <2>1. UNCHANGED client
    BY <1>3 DEF Worker, AwaitRequest, IdleTooLong, CloseSocket, ReadRequestLine, SkipHeader,
         ReadHeader, WriteContinue, Routing, ReadWithLength, ReadUntilClose, ReadChunkSize,
         ReadChunkEnd, ReadLastChunk, ContentRead, Dispatch, WriteHead, WriteBody, Terminate
  <2>2. SentForGood /\ UNCHANGED <<script, stream>>
    BY <2>1 DEF client, SentForGood
  <2>3. CASE Client \/ UNCHANGED vars
    BY <1>1, <1>2, <2>3
  <2> QED
    BY <1>3, <2>1, <2>2, <2>3
<1> QED
  BY <1>1, <1>2, <1>3 DEF Next

LEMMA EndKept ==
  ASSUME SentForGood, UNCHANGED <<script, stream, taken>>, NEW CONSTANT i, NEW CONSTANT body
  PROVE  /\ AllRead => AllRead'
         /\ CutShort(i) => CutShort(i)'
         /\ AllRead /\ sent < BodyOfMessage(i) => (AllRead /\ sent < BodyOfMessage(i))'
         /\ MayBeHandedOn(body, i) => MayBeHandedOn(body, i)'
<1>1. AllRead => AllRead' /\ sent' = sent
  BY DEF AllRead, SentForGood
<1>2. EndOf(i)' = EndOf(i) /\ BodyOfMessage(i)' = BodyOfMessage(i)
  BY SameMessages
<1>3. MayBeHandedOn(body, i) => MayBeHandedOn(body, i)'
  BY DEF MayBeHandedOn, SentForGood
<1> QED
  BY <1>1, <1>2, <1>3 DEF CutShort

LEMMA ReadingKept ==
  ASSUME SentForGood, UNCHANGED <<script, stream, taken, pc, req, need, parser>>,
         NEW CONSTANT i, Reading(i)
  PROVE  Reading(i)'
<1>1. /\ script' = script /\ stream' = stream /\ taken' = taken /\ pc' = pc /\ req' = req
      /\ need' = need /\ parser' = parser
  OBVIOUS
<1>2. /\ BeginOf(i)' = BeginOf(i) /\ EndOf(i)' = EndOf(i)
      /\ BodyOfMessage(i)' = BodyOfMessage(i)
  BY SameMessages
<1>3. /\ AllRead => AllRead'
      /\ CutShort(i) => CutShort(i)'
      /\ AllRead /\ sent < BodyOfMessage(i) => (AllRead /\ sent < BodyOfMessage(i))'
  BY EndKept
<1>4. \A body : MayBeHandedOn(body, i) => MayBeHandedOn(body, i)'
  <2> TAKE body
  <2>1. MayBeHandedOn(body, i) => MayBeHandedOn(body, i)'
    BY DEF MayBeHandedOn, SentForGood
  <2> QED
    BY <2>1
<1>5. InHead(i) => InHead(i)'
  BY <1>1, <1>2, <1>3 DEF InHead
<1>6. BehindHead(i) => BehindHead(i)'
  BY <1>1, <1>2 DEF BehindHead
<1>7. InForm(i) => InForm(i)'
  BY <1>1, <1>2 DEF InForm
<1>8. OtherBody(i) => OtherBody(i)'
  BY <1>1 DEF OtherBody
<1>9. HasRead(i) => HasRead(i)'
  BY <1>1, <1>2 DEF HasRead
<1>10. InLength(i) => InLength(i)'
  BY <1>1, <1>2, <1>8, <1>9 DEF InLength
<1>11. UpToTheEnd(i) => UpToTheEnd(i)'
  BY <1>1, <1>2, <1>8, <1>9 DEF UpToTheEnd
<1>12. InChunkedBody(i) => InChunkedBody(i)'
  <2>1. ASSUME NEW CONSTANT k, InChunk(i, k) PROVE InChunk(i, k)'
    <3>1. /\ PlaceOfChunk(i, k)' = PlaceOfChunk(i, k)
          /\ DataBefore(script[i], k)' = DataBefore(script[i], k)
          /\ ChunkSize(script[i], k)' = ChunkSize(script[i], k)
      BY SameChunks
    <3>2. ASSUME NEW CONSTANT n, HasData(i, n) PROVE HasData(i, n)'
      BY <1>1, <3>2 DEF HasData
    <3>3. AtSize(i, k) => AtSize(i, k)'
      BY <1>1, <3>1, <3>2 DEF AtSize, HasData
    <3>4. InData(i, k) => InData(i, k)'
      BY <1>1, <1>3, <3>1, <3>2 DEF InData, HasData
    <3>5. BehindData(i, k) => BehindData(i, k)'
      BY <1>1, <3>1, <3>2 DEF BehindData, HasData
    <3>6. AtLast(i, k) => AtLast(i, k)'
      BY <1>1, <1>3, <3>1, <3>2 DEF AtLast, HasData
    <3> QED
      BY <2>1, <3>3, <3>4, <3>5, <3>6 DEF InChunk
  <2>2. SUFFICES ASSUME InChunkedBody(i) PROVE InChunkedBody(i)'
    OBVIOUS
  <2>3. PICK k \in DOMAIN script[i].chunks : InChunk(i, k)
    BY <2>2 DEF InChunkedBody
  <2>4. InChunk(i, k)'
    BY <2>1, <2>3
  <2> QED
    BY <1>1, <1>8, <2>2, <2>4 DEF InChunkedBody
<1>13. IsMeant(i) => IsMeant(i)'
  BY <1>1, <1>2, <1>3, <1>4 DEF IsMeant
<1>14. IsRead(i) => IsRead(i)'
  BY <1>1, <1>8, <1>13 DEF IsRead
<1> QED
  BY <1>1, <1>5, <1>6, <1>7, <1>10, <1>11, <1>12, <1>14 DEF Reading

LEMMA BeginsApart ==
  ASSUME InputOK, NEW i \in 1..Len(script), NEW j \in 1..Len(script)
  PROVE  /\ BeginOf(i) \in Nat /\ EndOf(i) \in Nat /\ BeginOf(i) < EndOf(i)
         /\ i < j => EndOf(i) <= BeginOf(j)
         /\ BeginOf(i) = BeginOf(j) => i = j
<1>1. \A k \in 1..Len(script) : BeginOf(k) \in Nat /\ EndOf(k) \in Nat /\ BeginOf(k) < EndOf(k)
  <2> TAKE k \in 1..Len(script)
  <2>1. BeginOf(k) \in Nat /\ EndOf(k) \in Nat
    BY RestFacts
  <2>2. EndOf(k) = BeginOf(k) + Len(script[k].text)
    BY MessageFacts
  <2>3. Len(script[k].text) \in Nat /\ HeadOf(script[k]) \in 5..Len(script[k].text)
    BY HeadFacts
  <2>4. Len(script[k].text) > 0
    BY <2>3
  <2> QED
    BY <2>1, <2>2, <2>3, <2>4
<1>2. \A a, b \in 1..Len(script) : a < b => EndOf(a) <= BeginOf(b)
  <2> SUFFICES ASSUME NEW a \in 1..Len(script), NEW b \in 1..Len(script), a < b
               PROVE  EndOf(a) <= BeginOf(b)
    OBVIOUS
  <2>1. Len(script) \in Nat
    BY MessageFacts
  <2>2. b \in 1..(Len(script) + 1) /\ a + 1 \in 1..b
    BY <2>1
  <2> QED
    BY <2>2, MessageFacts DEF EndOf
<1>3. ASSUME BeginOf(i) = BeginOf(j) PROVE i = j
  <2>1. ~(i < j)
    BY <1>1, <1>2, <1>3
  <2>2. ~(j < i)
    BY <1>1, <1>2, <1>3
  <2>3. i \in Int /\ j \in Int
    OBVIOUS
  <2> QED
    BY <2>1, <2>2, <2>3
<1> QED
  BY <1>1, <1>2, <1>3

\* A request line that is read where no message has been left half read is that of a
\* message.
LEMMA RequestBegins ==
  ASSUME ConnInv, ReadRequestLine, pc' = "headers", ClearBefore(taken)
  PROVE  \E i \in 1..Len(script) : taken = BeginOf(i) /\ Reading(i)'
<1> DEFINE line == SubSeq(Arrived, 1, LineLength)
<1>1. InputOK /\ UNCHANGED client /\ script' = script /\ stream' = stream
  BY DEF ConnInv, ReadRequestLine, client
<1>2. /\ LineLength > 0 /\ taken' = taken + LineLength /\ IsRequestLine(line)
      /\ req' = parse_request_line(line)
  BY DEF ReadRequestLine, GetLine, GotRequestLine, EndProcess, HangUp
<1>3. /\ LineLength = 3 /\ IsWord(line[1], "request") /\ line[1] = stream[taken + 1]
      /\ taken + 3 <= sent
  <2>1. /\ LineLength \in Nat /\ taken + LineLength <= sent /\ Len(line) = LineLength
        /\ \A k \in 1..LineLength : line[k] = stream[taken + k]
    BY <1>1, <1>2, LineRead
  <2>2. Len(line) = 3 /\ IsWord(line[1], "request")
    BY <1>2 DEF IsRequestLine
  <2> HIDE DEF line
  <2>3. LineLength = 3
    BY <2>1, <2>2
  <2>4. 1 \in 1..LineLength
    BY <2>3
  <2> QED
    BY <2>1, <2>2, <2>3, <2>4
<1> HIDE DEF line
<1>4. taken \in Nat /\ taken + 1 \in 1..Len(stream)
  <2>1. sent \in 0..Len(stream) /\ taken \in 0..sent /\ Len(stream) \in Nat
    BY <1>1, StreamFacts DEF InputOK
  <2> QED
    BY <1>3, <2>1
<1>5. PICK i \in 1..Len(script) : BeginOf(i) < taken + 1 /\ taken + 1 <= EndOf(i)
  BY <1>1, <1>4, InSomeMessage
<1> DEFINE m == script[i]
<1>6. PICK b \in Nat, l \in Nat :
         /\ b = BeginOf(i) /\ l = Len(m.text) /\ EndOf(i) = b + l
         /\ \A k \in 1..l : stream[b + k] = m.text[k]
  <2>1. BeginOf(i) \in Nat /\ Len(m.text) \in Nat
    BY <1>1, RestFacts, HeadFacts
  <2>2. /\ EndOf(i) = BeginOf(i) + Len(m.text)
        /\ \A k \in 1..Len(m.text) : stream[BeginOf(i) + k] = m.text[k]
    BY <1>1, MessageFacts
  <2> QED
    BY <2>1, <2>2
<1>7. PICK q \in 1..l : b + q = taken + 1
  <2>1. b < taken + 1 /\ taken + 1 <= b + l
    BY <1>5, <1>6
  <2>2. (taken + 1) - b \in 1..l /\ b + ((taken + 1) - b) = taken + 1
    BY <1>4, <2>1
  <2> QED
    BY <2>2
<1>8. IsWord(m.text[q], "request")
  BY <1>3, <1>6, <1>7
<1>9. /\ MessageMeant(m, i = Len(script)) /\ i \in DOMAIN script
      /\ LinesOf(m) \in 1..Len(m.text)
  BY <1>1, HeadFacts, MessageFacts
<1>10. q = 1
  <2> SUFFICES ASSUME q # 1 PROVE FALSE
    OBVIOUS
  <2>1. q \in 2..Len(m.text)
    BY <1>6, <1>7
  <2>2. m.awkward
    BY <1>8, <1>9, <2>1 DEF MessageMeant
  <2>3. taken <= b
    BY <1>6, <1>9, <2>2 DEF ClearBefore
  <2> QED
    BY <1>4, <1>7, <2>1, <2>3
<1>11. taken = b
  BY <1>4, <1>7, <1>10
<1>12. IsWord(m.text[1], "request") /\ line[1] = m.text[1]
  BY <1>3, <1>6, <1>7, <1>8, <1>10
<1>13. req' = RequestWith(m, 0)
  <2>1. req' = Shape(m, <<>>, <<>>, <<>>)
    BY <1>2, <1>12, LineShape
  <2>2. HeaderLines(m, 0) = <<>>
    <3>1. 1..0 = {}
      OBVIOUS
    <3> QED
      BY <3>1 DEF HeaderLines
  <2>3. RequestWith(m, 0) = Shape(m, HeaderLines(m, 0), <<>>, <<>>)
    BY RequestShape
  <2> QED
    BY <2>1, <2>2, <2>3
<1>14. taken' = b + 3 * 1 /\ 1 \in 1..LinesOf(m) /\ 1 - 1 = 0
  <2>1. taken' = taken + 3
    BY <1>2, <1>3
  <2>2. LinesOf(m) \in 1..l
    BY <1>6, <1>9
  <2>3. 1 \in 1..LinesOf(m)
    BY <2>2
  <2> QED
    BY <1>11, <2>1, <2>3
<1>15. InHead(i)'
  <2>1. BeginOf(i)' = b
    BY <1>1, <1>6, SameMessages
  <2>2. (\E n \in 1..LinesOf(script[i]) : /\ taken = BeginOf(i) + 3 * n
                                         /\ req = RequestWith(script[i], n - 1))'
    BY <1>1, <1>13, <1>14, <2>1
  <2> QED
    BY <2>2 DEF InHead
<1>16. Reading(i)'
  BY <1>1, <1>12, <1>15 DEF Reading
<1> QED
  BY <1>6, <1>11, <1>16

\* The step into InRequest, and those that begin inside.
LEMMA RequestSteps ==
  ASSUME ConnInv, [Next]_vars
  PROVE  /\ pc \in InRequest => start' = start
         /\ pc' \in InRequest /\ pc \notin InRequest =>
               ReadRequestLine /\ start' = taken /\ pc' = "headers"
<1>1. CASE Client \/ UNCHANGED vars
  BY <1>1, ClientSteps
<1>2. CASE Worker
  <2>1. pc \in InRequest => start' = start
    <3>1. CASE ReadRequestLine
      BY <3>1 DEF ReadRequestLine, InRequest
    <3>2. CASE ~ReadRequestLine
      <4>1. UNCHANGED start
        BY <1>2, <3>2 DEF Worker, AwaitRequest, IdleTooLong, CloseSocket, SkipHeader,
           ReadHeader, WriteContinue, Routing, ReadWithLength, ReadUntilClose, ReadChunkSize,
           ReadChunkEnd, ReadLastChunk, ContentRead, Dispatch, WriteHead, WriteBody, Terminate
      <4> QED
        BY <4>1
    <3> QED
      BY <3>1, <3>2
  <2>2. ASSUME pc' \in InRequest, pc \notin InRequest
        PROVE  ReadRequestLine /\ start' = taken /\ pc' = "headers"
    <3>1. ~(\/ ReadHeader \/ WriteContinue \/ Routing \/ ReadWithLength \/ ReadUntilClose
            \/ ReadChunkSize \/ ReadChunkEnd \/ ReadLastChunk \/ ContentRead \/ Dispatch)
      BY <2>2 DEF InRequest, ReadHeader, WriteContinue, Routing, ReadWithLength,
           ReadUntilClose, ReadChunkSize, ReadChunkEnd, ReadLastChunk, ContentRead, Dispatch
    <3>2. ~(\/ AwaitRequest \/ IdleTooLong \/ CloseSocket \/ WriteHead \/ WriteBody \/ Terminate)
      BY <2>2 DEF InRequest, AwaitRequest, IdleTooLong, CloseSocket, WriteHead, WriteBody,
           Terminate, EndProcess
    <3>3. ~SkipHeader
      BY <2>2 DEF InRequest, SkipHeader, GetLine, Answer
    <3>4. ReadRequestLine
      BY <1>2, <3>1, <3>2, <3>3 DEF Worker
    <3> QED
      BY ZenonT(40), <2>2, <3>4 DEF InRequest, ReadRequestLine, GetLine, GotRequestLine,
           EndProcess, HangUp
  <2> QED
    BY <2>1, <2>2
<1> QED
  BY <1>1, <1>2 DEF Next

LEMMA ReadInvKept ==
  ASSUME ConnInv, ReadInv, [Next]_vars
  PROVE  ReadInv'
<1> SUFFICES ASSUME pc' \in InRequest, ClearBefore(start)'
             PROVE  \E i \in DOMAIN script' : start' = BeginOf(i)' /\ Reading(i)'
  BY DEF ReadInv
<1>1. InputOK /\ script' = script /\ DOMAIN script = 1..Len(script)
  BY ClientSteps, MessageFacts DEF ConnInv
<1>2. \A i : BeginOf(i)' = BeginOf(i)
  BY <1>1 DEF BeginOf
<1>3. CASE pc \in InRequest
  <2>1. start' = start
    BY <1>3, RequestSteps
  <2>2. ClearBefore(start)
    BY <1>1, <1>2, <2>1 DEF ClearBefore
  <2>3. PICK i \in 1..Len(script) : start = BeginOf(i) /\ Reading(i)
    BY <1>1, <1>3, <2>2 DEF ReadInv
  <2>4. Reading(i)'
    <3>1. CASE Client \/ UNCHANGED vars
      <4>1. SentForGood /\ UNCHANGED <<script, stream, taken, pc, req, need, parser>>
        BY <3>1, ClientSteps
      <4> QED
        BY <2>3, <4>1, ReadingKept
    <3>2. CASE ~(Client \/ UNCHANGED vars)
      <4>1. Worker
        BY <3>2, ClientSteps
      <4>2. Proceeds(i)
        BY <2>3, <4>1, RequestProceeds
      <4> QED
        BY <4>2 DEF Proceeds, InRequest
    <3> QED
      BY <3>1, <3>2
  <2> QED
    BY <1>1, <1>2, <2>1, <2>3, <2>4
<1>4. CASE pc \notin InRequest
  <2>1. ReadRequestLine /\ start' = taken /\ pc' = "headers"
    BY <1>4, RequestSteps
  <2>2. ClearBefore(taken)
    BY <1>1, <1>2, <2>1 DEF ClearBefore
  <2>3. PICK i \in 1..Len(script) : taken = BeginOf(i) /\ Reading(i)'
    BY <2>1, <2>2, RequestBegins
  <2> QED
    BY <1>1, <1>2, <2>1, <2>3
<1> QED
  BY <1>3, <1>4

-----------------------------------------------------------------------------
(* The handlers that are called.                                             *)

CallRight(c) ==
    \/ \E i \in DOMAIN script :
          /\ c.start = BeginOf(i)
          /\ c.handler = script[i].call.handler
          /\ c.arg = script[i].call.arg
          /\ MayBeHandedOn(c.body, i)
    \/ \E i \in DOMAIN script : script[i].awkward /\ BeginOf(i) < c.start

CallsOK ==
    /\ start \in Nat
    /\ calls \in Seq(Range(calls)) /\ \A k \in DOMAIN calls : CallRight(calls[k])

LEMMA CallStaysRight ==
  ASSUME SentForGood, UNCHANGED <<script, stream>>, NEW CONSTANT c, CallRight(c)
  PROVE  CallRight(c)'
<1>1. \A i : BeginOf(i)' = BeginOf(i)
  BY DEF BeginOf
<1>2. \A i : \A body : MayBeHandedOn(body, i) => MayBeHandedOn(body, i)'
  BY DEF MayBeHandedOn, SentForGood
<1> QED
  BY <1>1, <1>2 DEF CallRight

LEMMA OnlyDispatchCalls ==
  ASSUME [Next]_vars
  PROVE  UNCHANGED calls \/ Dispatch
<1>1. CASE Client
  BY <1>1 DEF Client, Send, Close, Reset, made
<1>2. CASE AwaitRequest \/ IdleTooLong \/ CloseSocket \/ ReadRequestLine \/ SkipHeader \/ ReadHeader
  BY <1>2 DEF AwaitRequest, IdleTooLong, CloseSocket, ReadRequestLine, SkipHeader, ReadHeader, made
<1>3. CASE WriteContinue \/ Routing \/ ReadWithLength \/ ReadUntilClose
  BY <1>3 DEF WriteContinue, Routing, ReadWithLength, ReadUntilClose, made
<1>4. CASE ReadChunkSize \/ ReadChunkEnd \/ ReadLastChunk \/ ContentRead
  BY <1>4 DEF ReadChunkSize, ReadChunkEnd, ReadLastChunk, ContentRead, made
<1>5. CASE WriteHead \/ WriteBody \/ Terminate
  BY <1>5 DEF WriteHead, WriteBody, Terminate, made
<1>6. CASE UNCHANGED vars
  BY <1>6 DEF vars, made
<1> QED
  BY <1>1, <1>2, <1>3, <1>4, <1>5, <1>6 DEF Next, Worker

LEMMA StartKept ==
  ASSUME ConnInv, start \in Nat, [Next]_vars
  PROVE  start' \in Nat
<1>1. CASE Client \/ UNCHANGED vars
  BY <1>1, ClientSteps
<1>2. CASE ReadRequestLine
  <2>1. start' = taken
    BY <1>2 DEF ReadRequestLine
  <2>2. sent \in 0..Len(stream) /\ taken \in 0..sent /\ Len(stream) \in Nat
    BY StreamFacts DEF InputOK, ConnInv
  <2>3. taken \in Nat
    BY ONLY <2>2
  <2> QED
    BY <2>1, <2>3
<1>3. CASE Worker /\ ~ReadRequestLine
  <2>1. UNCHANGED start
    BY <1>3 DEF Worker, AwaitRequest, IdleTooLong, CloseSocket, SkipHeader,
       ReadHeader, WriteContinue, Routing, ReadWithLength, ReadUntilClose, ReadChunkSize,
       ReadChunkEnd, ReadLastChunk, ContentRead, Dispatch, WriteHead, WriteBody, Terminate
  <2> QED
    BY <2>1
<1> QED
  BY <1>1, <1>2, <1>3 DEF Next

\* What Dispatch calls is what the message means.
LEMMA CallMade ==
  ASSUME ConnInv, ReadInv, start \in Nat, Dispatch, NEW handler, NEW arg, NEW body,
         \/ /\ ForQuery(req) /\ SqlKeys(req) # {} /\ handler = "query" /\ arg = SqlOf(req)
            /\ body = <<>>
         \/ ForImport(req) /\ handler = "import" /\ arg = Tail(req.path) /\ body = req.body,
         NEW c, c = [handler |-> handler, arg |-> arg, body |-> body, start |-> start]
  PROVE  CallRight(c)
<1>1. /\ InputOK /\ DOMAIN script = 1..Len(script) /\ pc = "dispatch"
      /\ c.handler = handler /\ c.arg = arg /\ c.body = body /\ c.start = start
  BY MessageFacts DEF ConnInv, Dispatch
<1>2. CASE ClearBefore(start)
  <2>1. PICK i \in 1..Len(script) : start = BeginOf(i) /\ Reading(i)
    BY <1>1, <1>2 DEF ReadInv, InRequest
  <2> DEFINE m == script[i]
             r == RequestOf(m)
  <2>2. req = WithBody(r, req.body) /\ IsMeant(i)
    BY <1>1, <2>1, ReadingAt
  <2>3. CallMeant(m, r) /\ (ForImport(r) => MayBeHandedOn(req.body, i))
    BY <2>2 DEF IsMeant
  <2>4. PICK b : b = req.body
    OBVIOUS
  <2>5. req = WithBody(r, b)
    BY <2>2, <2>4
  <2>6. /\ req.method = r.method /\ req.path = r.path /\ req.params = r.params
        /\ req.ranges = r.ranges
    BY ONLY <2>5, RequestOfMessage
  <2>7. /\ ForQuery(req) = ForQuery(r) /\ ForImport(req) = ForImport(r)
        /\ SqlKeys(req) = SqlKeys(r) /\ SqlOf(req) = SqlOf(r)
    BY ONLY <2>6, SameMeaning
  <2> HIDE DEF m, r
  <2>8. handler = m.call.handler /\ arg = m.call.arg /\ MayBeHandedOn(body, i)
    <3>1. CASE /\ ForQuery(req) /\ SqlKeys(req) # {} /\ handler = "query" /\ arg = SqlOf(req)
               /\ body = <<>>
      <4>1. m.call.handler = "query" /\ m.call.arg = SqlOf(r) /\ m.call.body = <<>>
        BY <2>3, <2>7, <3>1 DEF CallMeant
      <4>2. MayBeHandedOn(body, i)
        BY <3>1, <4>1 DEF MayBeHandedOn, m
      <4> QED
        BY <2>7, <3>1, <4>1, <4>2
    <3>2. CASE ForImport(req) /\ handler = "import" /\ arg = Tail(req.path) /\ body = req.body
      <4>1. m.call.handler = "import" /\ m.call.arg = Tail(r.path)
        BY <2>3, <2>7, <3>2 DEF CallMeant
      <4> QED
        BY <2>3, <2>6, <2>7, <3>2, <4>1
    <3> QED
      BY <3>1, <3>2
  <2> QED
    BY <1>1, <2>1, <2>8 DEF CallRight, m
<1>3. CASE ~ClearBefore(start)
  <2>1. PICK i \in DOMAIN script : script[i].awkward /\ ~(start <= BeginOf(i))
    BY <1>3 DEF ClearBefore
  <2>2. BeginOf(i) \in Nat
    BY <1>1, <2>1, RestFacts
  <2>3. BeginOf(i) < start
    BY <2>1, <2>2
  <2> QED
    BY <1>1, <2>1, <2>3 DEF CallRight
<1> QED
  BY <1>2, <1>3

LEMMA CallsKept ==
  ASSUME ConnInv, ReadInv, CallsOK, [Next]_vars
  PROVE  CallsOK'
<1>1. start' \in Nat /\ start \in Nat
  BY StartKept DEF CallsOK
<1>2. SentForGood /\ UNCHANGED <<script, stream>>
  BY ClientSteps
<1>3. ASSUME NEW CONSTANT k \in DOMAIN calls, NEW CONSTANT c, c = calls[k]
      PROVE  CallRight(c)'
  <2>1. CallRight(c)
    BY <1>3 DEF CallsOK
  <2> QED
    BY <1>2, <2>1, CallStaysRight
<1>4. ASSUME NEW CONSTANT k, NEW CONSTANT c, c = calls'[k], CallRight(c)'
      PROVE  CallRight(calls[k])'
  BY <1>4 DEF CallRight
<1>5. CASE UNCHANGED calls
  <2>1. ASSUME NEW CONSTANT k \in DOMAIN calls' PROVE CallRight(calls[k])'
    <3>1. PICK c : c = calls[k]
      OBVIOUS
    <3>2. CallRight(c)'
      BY <1>3, <1>5, <3>1
    <3> QED
      BY <1>4, <1>5, <3>1, <3>2
  <2> QED
    BY <1>1, <1>5, <2>1 DEF CallsOK
<1>6. ASSUME Dispatch, NEW handler, NEW arg, NEW body, Called(handler, arg, body),
             \/ /\ ForQuery(req) /\ SqlKeys(req) # {} /\ handler = "query" /\ arg = SqlOf(req)
                /\ body = <<>>
             \/ ForImport(req) /\ handler = "import" /\ arg = Tail(req.path) /\ body = req.body
      PROVE  CallsOK'
  <2>1. PICK x : x = [handler |-> handler, arg |-> arg, body |-> body, start |-> start]
    OBVIOUS
  <2>2. CallRight(x)'
    <3>1. CallRight(x)
      BY <1>1, <1>6, <2>1, CallMade
    <3> QED
      BY <1>2, <3>1, CallStaysRight
  <2>3. calls' = Append(calls, x) /\ calls \in Seq(Range(calls))
    BY <1>6, <2>1 DEF Called, CallsOK
  <2>4. /\ calls' \in Seq(Range(calls'))
        /\ DOMAIN calls' = 1..(Len(calls) + 1) /\ DOMAIN calls = 1..Len(calls)
        /\ Len(calls) \in Nat
        /\ \A j \in 1..Len(calls) : calls'[j] = calls[j]
        /\ calls'[Len(calls) + 1] = x
    BY <2>3, ReplyAppended
  <2>5. \A j \in 1..(Len(calls) + 1) : j \in 1..Len(calls) \/ j = Len(calls) + 1
    BY <2>4
  <2>6. ASSUME NEW CONSTANT k \in DOMAIN calls' PROVE CallRight(calls[k])'
    <3>1. CASE k \in DOMAIN calls
      <4>1. PICK c : c = calls[k] /\ c = calls'[k]
        BY <2>4, <3>1
      <4>2. CallRight(c)'
        BY <1>3, <3>1, <4>1
      <4> QED
        BY <1>4, <4>1, <4>2
    <3>2. CASE k = Len(calls) + 1
      <4>1. x = calls'[k]
        BY <2>4, <3>2
      <4> QED
        BY <1>4, <2>2, <4>1
    <3> QED
      BY <2>4, <2>5, <3>1, <3>2
  <2> QED
    BY <1>1, <2>4, <2>6 DEF CallsOK
<1>7. CASE Dispatch
  <2>1. CASE ForQuery(req) /\ SqlKeys(req) # {} /\ Called("query", SqlOf(req), <<>>)
    BY <1>6, <1>7, <2>1
  <2>2. CASE ForImport(req) /\ Called("import", Tail(req.path), req.body)
    BY <1>6, <1>7, <2>2
  <2> QED
    BY <1>5, <1>7, <2>1, <2>2, Dispatched
<1> QED
  BY <1>5, <1>7, OnlyDispatchCalls

-----------------------------------------------------------------------------
LEMMA RequestsRead == Spec => []ReadInv
<1>1. Init => ReadInv
  BY DEF Init, ReadInv, InRequest
<1>2. ConnInv /\ ReadInv /\ [Next]_vars => ReadInv'
  BY ReadInvKept
<1> QED
  BY <1>1, <1>2, ConnectionInvariant, PTL DEF Spec

\* No handler is called with a table, a query or a body that its client did not mean,
\* however the messages are cut, whatever stops in the middle, times out or is reset.
THEOREM HandlersCalledAsMeant == Spec => []HandlersGetWholeMessages
<1>1. Init => CallsOK
  <2> SUFFICES ASSUME Init PROVE CallsOK
    OBVIOUS
  <2>1. calls = <<>> /\ start = 0
    BY DEF Init
  <2>2. <<>> \in Seq(Range(<<>>)) /\ DOMAIN <<>> = {}
    BY NothingTyped
  <2> QED
    BY <2>1, <2>2 DEF CallsOK
<1>2. ConnInv /\ ReadInv /\ CallsOK /\ [Next]_vars => CallsOK'
  BY CallsKept
<1>3. CallsOK => HandlersGetWholeMessages
  BY DEF CallsOK, CallRight, HandlersGetWholeMessages
<1> QED
  BY <1>1, <1>2, <1>3, ConnectionInvariant, RequestsRead, PTL DEF Spec

-----------------------------------------------------------------------------
(* The replies stay in step with the messages.                               *)

LEMMA LateForGood ==
  ASSUME Worker
  PROVE  late => late'
<1>1. CASE AwaitRequest \/ IdleTooLong \/ CloseSocket \/ Routing \/ ContentRead \/ Dispatch
           \/ Terminate
  BY <1>1 DEF AwaitRequest, IdleTooLong, CloseSocket, Routing, ContentRead, Dispatch, Terminate,
              reading
<1>2. CASE ReadRequestLine
  BY <1>2 DEF ReadRequestLine, GetLine, reading
<1>3. CASE SkipHeader
  BY <1>3 DEF SkipHeader, GetLine, reading
<1>4. CASE ReadHeader
  BY <1>4 DEF ReadHeader, GetLine, reading
<1>5. CASE ReadChunkSize
  BY <1>5 DEF ReadChunkSize, GetLine, reading
<1>6. CASE ReadChunkEnd
  BY <1>6 DEF ReadChunkEnd, GetLine, reading
<1>7. CASE ReadLastChunk
  BY <1>7 DEF ReadLastChunk, GetLine, reading
<1>8. CASE ReadWithLength
  BY <1>8 DEF ReadWithLength, Read, reading
<1>9. CASE ReadUntilClose
  BY <1>9 DEF ReadUntilClose, Read, reading
<1>10. CASE WriteContinue
  BY <1>10 DEF WriteContinue, Write, reading
<1>11. CASE WriteHead
  BY <1>11 DEF WriteHead, Write, reading
<1>12. CASE WriteBody
  BY <1>12 DEF WriteBody, Write, reading
<1> QED
  BY <1>1, <1>2, <1>3, <1>4, <1>5, <1>6, <1>7, <1>8, <1>9, <1>10, <1>11, <1>12 DEF Worker

LEMMA ReplyCount ==
  ASSUME RepliesOK, [Next]_vars
  PROVE  /\ Len(replies) \in Nat /\ Len(replies') \in Nat /\ Len(replies) <= Len(replies')
         /\ WriteBody => Len(replies') = Len(replies) + 1
         /\ ~WriteBody => replies' = replies
<1>1. Len(replies) \in Nat
  BY LenProperties DEF RepliesOK
<1>2. CASE WriteBody
  <2>1. PICK x : replies' = Append(replies, x)
    BY <1>2 DEF WriteBody, Write
  <2>2. Len(replies') = Len(replies) + 1
    BY <2>1, ReplyAppended DEF RepliesOK
  <2> QED
    BY <1>1, <1>2, <2>2
<1>3. CASE ~WriteBody
  BY <1>1, <1>3, OnlyWriteBodyReplies
<1> QED
  BY <1>2, <1>3

LEMMA CurrentIs ==
  ASSUME RepliesOK
  PROVE  Len(replies) \in Nat /\ Current \in Nat /\ Current = Len(replies) + 1
<1>1. Len(replies) \in Nat
  BY LenProperties DEF RepliesOK
<1> QED
  BY <1>1 DEF Current

LEMMA InStepBefore ==
  ASSUME ConnInv, RepliesOK, [Next]_vars, InStep'
  PROVE  InStep /\ ~late /\ ~gone /\ ~late' /\ ~gone'
<1>1. ~late' /\ ~gone'
  BY DEF InStep
<1>2. ~late /\ ~gone
  <2>1. CASE Client \/ UNCHANGED vars
    BY <1>1, <2>1, ClientSteps
  <2>2. CASE ~(Client \/ UNCHANGED vars)
    BY <1>1, <2>2, ClientSteps, LateForGood DEF client
  <2> QED
    BY <2>1, <2>2
<1>3. \A k \in DOMAIN script : k <= Len(replies) => ~script[k].awkward
  <2>1. script' = script
    BY ClientSteps
  <2>2. Len(replies) \in Nat /\ Len(replies') \in Nat /\ Len(replies) <= Len(replies')
    BY ReplyCount
  <2>3. DOMAIN script = 1..Len(script) /\ Len(script) \in Nat
    BY MessageFacts DEF ConnInv
  <2>4. ASSUME NEW k \in 1..Len(script), k <= Len(replies) PROVE ~script[k].awkward
    <3>1. k <= Len(replies')
      BY <2>2, <2>4
    <3> QED
      BY <2>1, <2>3, <3>1 DEF InStep
  <2> QED
    BY <2>3, <2>4
<1> QED
  BY <1>1, <1>2, <1>3 DEF InStep

\* While the worker is in step it reads the message after those it has answered.
LEMMA CurrentRead ==
  ASSUME ConnInv, RepliesOK, ReadInv, InStep, InPlace, pc \in InRequest
  PROVE  Current \in 1..Len(script) /\ start = BeginOf(Current) /\ Reading(Current)
<1>1. PICK c \in Nat : c = Current /\ c = Len(replies) + 1
  BY ReplyCount DEF Current, RepliesOK
<1>2. InputOK /\ DOMAIN script = 1..Len(script) /\ Len(script) \in Nat
  BY MessageFacts DEF ConnInv
<1>3. Current <= Len(script) /\ start = BeginOf(Current)
  BY DEF InPlace, Busy
<1>4. c \in 1..Len(script) /\ Len(replies) \in Nat
  <2>1. Len(replies) \in Nat
    BY LenProperties DEF RepliesOK
  <2> QED
    BY <1>1, <1>2, <1>3, <2>1
<1>5. ClearBefore(start)
  <2> SUFFICES ASSUME NEW k \in DOMAIN script, script[k].awkward PROVE start <= BeginOf(k)
    BY DEF ClearBefore
  <2>1. ~(k <= Len(replies)) /\ k \in 1..Len(script)
    BY <1>2 DEF InStep
  <2>2. k = c \/ c < k
    BY <1>1, <1>4, <2>1
  <2>3. BeginOf(c) \in Nat /\ EndOf(c) \in Nat /\ BeginOf(c) < EndOf(c)
        /\ (c < k => EndOf(c) <= BeginOf(k)) /\ BeginOf(k) \in Nat
    BY <1>2, <1>4, <2>1, BeginsApart
  <2>4. BeginOf(c) <= BeginOf(k)
    BY <2>2, <2>3
  <2> QED
    BY <1>1, <1>3, <2>4
<1>6. PICK i \in 1..Len(script) : start = BeginOf(i) /\ Reading(i)
  BY <1>2, <1>5 DEF ReadInv
<1>7. i = c
  BY <1>1, <1>2, <1>3, <1>4, <1>6, BeginsApart
<1> QED
  BY <1>1, <1>3, <1>4, <1>6, <1>7

LEMMA InPlaceNext ==
  ASSUME NEW CONSTANT c, Current' = c, Len(replies') <= Len(script'),
         pc' \in {"keep_alive", "request line"} => AtMessage',
         pc' \in Busy => c <= Len(script') /\ start' = BeginOf(c)',
         pc' = "skip headers" => Skipping(c)',
         pc' \in {"reply", "reply body"} => Answered(c)',
         pc' = "reply body" => res'.head
  PROVE  InPlace'
<1>1. BeginOf(c)' = BeginOf(Current)'
  BY DEF BeginOf
<1>2. pc' = "skip headers" => Skipping(Current)'
  BY <1>1 DEF Skipping
<1>3. pc' \in {"reply", "reply body"} => Answered(Current)'
  BY DEF Answered, CutShort, EndOf, BeginOf
<1> QED
  BY <1>1, <1>2, <1>3 DEF InPlace

\* Steps that read nothing and write nothing.
LEMMA QuietInPlace ==
  ASSUME ConnInv, RepliesOK, InPlace, SentForGood,
         UNCHANGED <<script, stream, taken, start, req, res, replies>>,
         \/ UNCHANGED pc
         \/ pc = "keep_alive" /\ pc' = "request line"
         \/ pc' \in Ended
  PROVE  InPlace'
<1>1. PICK c \in Nat : c = Current
  <2>1. Current \in Nat
    BY CurrentIs
  <2> QED
    BY ONLY <2>1
<1>2. Current' = c /\ Len(replies') <= Len(script')
  BY <1>1 DEF Current, InPlace
<1>3. AtMessage => AtMessage'
  <2>1. AllRead => AllRead'
    BY EndKept
  <2>2. BeginOf(c)' = BeginOf(c)
    BY SameMessages
  <2>3. BeginOf(Current)' = BeginOf(c)'
    BY <1>2 DEF BeginOf
  <2> QED
    BY <1>1, <2>1, <2>2, <2>3 DEF AtMessage
<1>4. Skipping(c) => Skipping(c)'
  <2>1. AllRead /\ sent < BodyOfMessage(c) => (AllRead /\ sent < BodyOfMessage(c))'
    BY EndKept
  <2>2. BeginOf(c)' = BeginOf(c)
    BY SameMessages
  <2> QED
    BY <2>1, <2>2 DEF Skipping
<1>5. Answered(c) => Answered(c)'
  <2>1. (AllRead => AllRead') /\ (CutShort(c) => CutShort(c)')
    BY EndKept
  <2>2. EndOf(c)' = EndOf(c)
    BY SameMessages
  <2>3. StatusOf' = StatusOf
    BY DEF StatusOf
  <2> QED
    BY <2>1, <2>2, <2>3 DEF Answered
<1>6. BeginOf(c)' = BeginOf(c)
  BY SameMessages
<1>7. CASE UNCHANGED pc
  <2>1. /\ pc' \in {"keep_alive", "request line"} => AtMessage'
        /\ pc' \in Busy => c <= Len(script') /\ start' = BeginOf(c)'
        /\ pc' = "skip headers" => Skipping(c)'
        /\ pc' \in {"reply", "reply body"} => Answered(c)'
        /\ pc' = "reply body" => res'.head
    BY <1>1, <1>3, <1>4, <1>5, <1>6, <1>7 DEF InPlace
  <2> QED
    BY <1>2, <2>1, InPlaceNext
<1>8. CASE pc = "keep_alive" /\ pc' = "request line"
  <2>1. AtMessage'
    BY <1>3, <1>8 DEF InPlace
  <2> QED
    BY <1>2, <1>8, <2>1, InPlaceNext DEF Busy, InRequest
<1>9. CASE pc' \in Ended
  BY <1>2, <1>9, InPlaceNext DEF Busy, InRequest, Ended
<1> QED
  BY <1>7, <1>8, <1>9

\* The first line of a message.
LEMMA FirstLine ==
  ASSUME InputOK, NEW c \in 1..Len(script)
  PROVE  LET m == script[c]
             b == BeginOf(c)
         IN  /\ stream[b + 1] = m.text[1] /\ m.text[1] # LF /\ m.text[1] # CR
             /\ stream[b + 2] = CR /\ stream[b + 3] = LF
             /\ b \in Nat /\ b + 3 < BodyOfMessage(c) /\ BodyOfMessage(c) <= EndOf(c)
             /\ BodyOfMessage(c) \in Nat /\ EndOf(c) \in Nat
             /\ 1 \in 1..LinesOf(m)
<1> DEFINE m == script[c]
<1>1. PICK b \in Nat, l \in Nat :
         /\ b = BeginOf(c) /\ l = Len(m.text)
         /\ \A k \in 1..l : stream[b + k] = m.text[k]
  <2>1. BeginOf(c) \in Nat /\ Len(m.text) \in Nat
    BY RestFacts, HeadFacts
  <2>2. \A k \in 1..Len(m.text) : stream[BeginOf(c) + k] = m.text[k]
    BY MessageFacts
  <2> QED
    BY <2>1, <2>2
<1>2. PICK n \in Nat : /\ n = LinesOf(m) /\ n > 0 /\ HeadHasLines(m.text, n)
                       /\ HeadOf(m) = 3 * n + 2
  <2>1. LinesOf(m) \in 1..l /\ HeadHasLines(m.text, LinesOf(m))
        /\ HeadOf(m) = 3 * LinesOf(m) + 2
    BY <1>1, HeadFacts
  <2>2. LinesOf(m) \in Nat /\ LinesOf(m) > 0
    BY <2>1
  <2> QED
    BY <2>1, <2>2
<1>3. /\ 3 * n + 2 <= l /\ m.text[1] # CR /\ m.text[1] # LF
      /\ m.text[3 * 1 - 1] = CR /\ m.text[3 * 1] = LF
  <2>1. 1 \in 1..n
    BY <1>2
  <2> HIDE DEF m
  <2> QED
    BY <1>1, <1>2, <2>1 DEF HeadHasLines
<1>4. m.text[2] = CR /\ m.text[3] = LF
  <2>1. 3 * 1 - 1 = 2 /\ 3 * 1 = 3
    OBVIOUS
  <2> QED
    BY <1>3, <2>1
<1>5. 1 \in 1..l /\ 2 \in 1..l /\ 3 \in 1..l
  BY <1>2, <1>3
<1>6. stream[b + 1] = m.text[1] /\ stream[b + 2] = CR /\ stream[b + 3] = LF
  BY <1>1, <1>4, <1>5
<1>7. /\ BodyOfMessage(c) = b + (3 * n + 2) /\ BodyOfMessage(c) \in Nat
      /\ BodyOfMessage(c) <= EndOf(c) /\ EndOf(c) \in Nat
  <2>1. /\ BodyOfMessage(c) = BeginOf(c) + HeadOf(m) /\ EndOf(c) \in Nat
        /\ EndOf(c) = BodyOfMessage(c) + Len(Rest(m)) /\ Len(Rest(m)) \in Nat
        /\ BodyOfMessage(c) \in Nat
    BY RestFacts
  <2>2. BodyOfMessage(c) <= EndOf(c)
    BY <2>1
  <2> QED
    BY <1>1, <1>2, <2>1, <2>2
<1>8. b + 3 < BodyOfMessage(c) /\ 1 \in 1..LinesOf(m)
  BY <1>2, <1>7
<1> QED
  BY <1>1, <1>3, <1>6, <1>7, <1>8

\* A word, the end of its line, or what has come of it: which of them are words.
LEMMA WordsOfLine ==
  ASSUME InputOK, NEW c \in 1..Len(script), LineLength > 0, taken = BeginOf(c)
  PROVE  LET line == SubSeq(Arrived, 1, LineLength)
             word == script[c].text[1]
         IN  /\ line[1] = word /\ 1 \in DOMAIN line
             /\ \A k \in DOMAIN line : k = 1 \/ line[k] \in {CR, LF}
             /\ \/ LineLength = 3 /\ Len(line) = 3 /\ end_with_crlf(line)
                \/ LineLength < 3 /\ LineLength \in Nat /\ Len(line) # 3 /\ fin
                   /\ taken + LineLength = sent
<1> DEFINE line == SubSeq(Arrived, 1, LineLength)
           n == LineLength
<1>1. /\ stream[taken + 1] = script[c].text[1] /\ stream[taken + 1] # LF
      /\ stream[taken + 2] = CR /\ stream[taken + 3] = LF
  BY FirstLine
<1>2. /\ line[1] = stream[taken + 1]
      /\ \/ n = 3 /\ Len(line) = 3 /\ end_with_crlf(line)
         \/ n < 3 /\ fin /\ taken + n = sent /\ Len(line) < 3
  BY <1>1, WordLine
<1>3. /\ n \in Nat /\ n > 0 /\ Len(line) = n /\ line \in Seq(Range(stream))
      /\ \A k \in 1..n : line[k] = stream[taken + k]
  BY LineRead
<1> HIDE DEF line, n
<1>4. DOMAIN line = 1..n
  BY <1>3
<1>5. n <= 3 /\ Len(line) \in Nat /\ (Len(line) < 3 => Len(line) # 3)
  BY <1>2, <1>3
<1>6. ASSUME NEW k \in 1..n PROVE k = 1 \/ line[k] \in {CR, LF}
  <2>1. k = 1 \/ k = 2 \/ k = 3
    BY <1>3, <1>5
  <2> QED
    BY <1>1, <1>3, <2>1
<1>7. 1 \in 1..n
  BY <1>3
<1> QED
  BY <1>1, <1>2, <1>3, <1>4, <1>5, <1>6, <1>7 DEF line, n

\* What a message begins with decides where the worker goes.
LEMMA MessageBegins ==
  ASSUME ConnInv, NEW c \in 1..Len(script), taken = BeginOf(c), UNCHANGED client,
         LineLength > 0, taken' = taken + LineLength,
         GotRequestLine(SubSeq(Arrived, 1, LineLength))
  PROVE  \/ pc' = "headers" /\ IsWord(script[c].text[1], "request")
         \/ pc' = "terminated"
         \/ pc' = "skip headers" /\ Skipping(c)'
         \/ pc' = "reply" /\ Answered(c)' /\ (IsWord(script[c].text[1], "request") => fin)
<1> DEFINE m == script[c]
           line == SubSeq(Arrived, 1, LineLength)
           word == m.text[1]
<1>1. InputOK /\ script' = script /\ fin' = fin /\ sent' = sent
  BY DEF ConnInv, client
<1>2. /\ line[1] = word /\ 1 \in DOMAIN line
      /\ \A k \in DOMAIN line : k = 1 \/ line[k] \in {CR, LF}
      /\ \/ LineLength = 3 /\ Len(line) = 3 /\ end_with_crlf(line)
         \/ LineLength < 3 /\ LineLength \in Nat /\ Len(line) # 3 /\ fin
            /\ taken + LineLength = sent
  BY <1>1, WordsOfLine
<1>3. /\ BodyOfMessage(c) \in Nat /\ EndOf(c) \in Nat /\ BodyOfMessage(c) <= EndOf(c)
      /\ BeginOf(c) \in Nat /\ BeginOf(c) + 3 < BodyOfMessage(c) /\ 1 \in 1..LinesOf(m)
  BY <1>1, FirstLine
<1>4. MessageMeant(m, c = Len(script))
  BY <1>1, HeadFacts
<1>5. /\ BeginOf(c)' = BeginOf(c) /\ BodyOfMessage(c)' = BodyOfMessage(c)
      /\ EndOf(c)' = EndOf(c)
  BY <1>1, SameMessages
<1>6. \/ taken' = BeginOf(c) + 3
      \/ AllRead' /\ sent' < BodyOfMessage(c)
  <2>1. CASE LineLength = 3
    BY <2>1
  <2>2. CASE LineLength < 3 /\ LineLength \in Nat /\ fin /\ taken + LineLength = sent
    <3>1. AllRead'
      BY <1>1, <2>2 DEF AllRead
    <3>2. sent < BodyOfMessage(c)
      BY <1>3, <2>2
    <3> QED
      BY <1>1, <3>1, <3>2
  <2> QED
    BY <1>2, <2>1, <2>2
<1> HIDE DEF line
<1>7. (\E k \in DOMAIN line : IsWord(line[k], "long")) <=> IsWord(word, "long")
  BY <1>2, LineEndNoWord
<1>8. CASE IsWord(word, "long")
  <2>1. pc' = "skip headers"
    BY <1>7, <1>8 DEF GotRequestLine, line
  <2>2. Skipping(c)'
    <3>1. taken' = BeginOf(c) + 3 =>
            (\E n \in 1..LinesOf(script[c]) : taken = BeginOf(c) + 3 * n)'
      <4>1. BeginOf(c) + 3 = BeginOf(c) + 3 * 1
        OBVIOUS
      <4> QED
        BY <1>1, <1>3, <1>5, <4>1
    <3>2. AllRead' /\ sent' < BodyOfMessage(c) => (AllRead /\ sent < BodyOfMessage(c))'
      BY <1>5
    <3> QED
      BY <1>1, <1>6, <1>8, <3>1, <3>2 DEF Skipping
  <2> QED
    BY <2>1, <2>2
<1>9. CASE ~IsWord(word, "long") /\ IsRequestLine(line)
  <2>1. pc' \in {"headers", "terminated"}
    BY <1>7, <1>9 DEF GotRequestLine, EndProcess, line
  <2>2. IsWord(word, "request")
    BY <1>2, <1>9 DEF IsRequestLine
  <2> QED
    BY <2>1, <2>2
<1>10. CASE ~IsWord(word, "long") /\ ~IsRequestLine(line)
  <2>1. pc' = "reply" /\ res' = [NoResponse EXCEPT !.status = 400]
    BY <1>7, <1>10 DEF GotRequestLine, line
  <2>2. StatusOf' = 400
    <3>1. res'.status = 400
      BY <2>1 DEF NoResponse
    <3> QED
      BY <3>1 DEF StatusOf
  <2>3. CASE IsWord(word, "request")
    <3>1. fin /\ taken' = sent /\ sent < BodyOfMessage(c)
      <4>1. ~(Len(line) = 3 /\ end_with_crlf(line))
        BY <1>2, <1>10, <2>3 DEF IsRequestLine
      <4>2. LineLength < 3 /\ LineLength \in Nat /\ fin /\ taken + LineLength = sent
        BY <1>2, <4>1
      <4> QED
        BY <1>3, <4>2
    <3>2. CutShort(c)' /\ AllRead'
      <4>1. sent < EndOf(c)
        BY <1>1, <1>3, <3>1, StreamFacts DEF InputOK
      <4> QED
        BY <1>1, <3>1, <4>1, CutOff
    <3>3. Answered(c)'
      BY <3>2 DEF Answered
    <3> QED
      BY <2>1, <3>1, <3>3
  <2>4. CASE ~IsWord(word, "request")
    <3>1. m.awkward /\ 400 \in m.answers
      BY <1>4, <1>10, <2>4 DEF MessageMeant
    <3>2. Answered(c)'
      BY <1>1, <2>2, <3>1 DEF Answered
    <3> QED
      BY <2>1, <2>4, <3>2
  <2> QED
    BY <2>3, <2>4
<1> QED
  BY <1>8, <1>9, <1>10

LEMMA RequestLineInPlace ==
  ASSUME ConnInv, RepliesOK, ReadRequestLine, InPlace, ~late', ~gone
  PROVE  InPlace'
<1>1. /\ InputOK /\ UNCHANGED client /\ script' = script /\ replies' = replies
      /\ start' = taken /\ pc = "request line"
  BY DEF ConnInv, ReadRequestLine, client, made
<1>2. Len(replies) \in Nat
  BY LenProperties DEF RepliesOK
<1>3. Current \in Nat /\ Current = Len(replies) + 1
  BY CurrentIs
<1>4. PICK c \in Nat : c = Current /\ c = Len(replies) + 1
  BY ONLY <1>3
<1>5. Len(replies) <= Len(script)
  BY DEF InPlace
<1>6. Current' = c /\ Len(replies') <= Len(script')
  BY <1>1, <1>4, <1>5 DEF Current
<1>7. \/ /\ LineLength > 0 /\ taken' = taken + LineLength
         /\ GotRequestLine(SubSeq(Arrived, 1, LineLength))
      \/ pc' = "close"
  BY DEF ReadRequestLine, GetLine, HangUp
<1>8. CASE pc' \in {"close", "terminated"}
  BY <1>6, <1>8, InPlaceNext DEF Busy, InRequest
<1>9. CASE /\ LineLength > 0 /\ taken' = taken + LineLength
           /\ GotRequestLine(SubSeq(Arrived, 1, LineLength)) /\ pc' # "terminated"
  <2>1. LineLength > 0
    BY <1>9
  <2>2. taken = BeginOf(c)
    <3>1. ~AllRead
      BY <1>1, <2>1, NothingArrived
    <3> QED
      BY <1>1, <1>4, <3>1 DEF InPlace, AtMessage
  <2>3. c \in 1..Len(script)
    <3>1. /\ Len(script) \in Nat /\ BeginOf(Len(script) + 1) = Len(stream)
      BY <1>1, MessageFacts
    <3>2. taken < Len(stream)
      <4>1. sent \in 0..Len(stream) /\ taken \in 0..sent /\ Len(stream) \in Nat
        BY <1>1, StreamFacts DEF InputOK
      <4>2. LineLength \in Nat /\ taken + LineLength <= sent
        BY <1>1, <2>1, LineRead
      <4> QED
        BY ONLY <2>1, <4>1, <4>2
    <3>3. c # Len(script) + 1
      <4>1. ASSUME c = Len(script) + 1 PROVE FALSE
        <5>1. BeginOf(c) = Len(stream)
          BY <3>1, <4>1
        <5>2. taken = Len(stream) /\ Len(stream) \in Nat
          BY <1>1, <2>2, <5>1, StreamFacts DEF InputOK
        <5> QED
          BY ONLY <3>2, <5>2
      <4> QED
        BY <4>1
    <3> QED
      BY ONLY <1>2, <1>4, <1>5, <3>1, <3>3
  <2>4. \/ pc' = "headers"
        \/ pc' = "skip headers" /\ Skipping(c)'
        \/ pc' = "reply" /\ Answered(c)'
    BY <1>1, <1>9, <2>2, <2>3, MessageBegins
  <2>5. c <= Len(script') /\ start' = BeginOf(c)'
    <3>1. c <= Len(script)
      BY <2>3
    <3>2. start' = BeginOf(c)'
      BY <1>1, <2>2, SameMessages
    <3> QED
      BY <1>1, <3>1, <3>2
  <2>6. /\ pc' \in {"keep_alive", "request line"} => AtMessage'
        /\ pc' = "skip headers" => Skipping(c)'
        /\ pc' \in {"reply", "reply body"} => Answered(c)'
        /\ pc' = "reply body" => res'.head
    BY <2>4
  <2> QED
    BY <1>6, <2>5, <2>6, InPlaceNext
<1> QED
  BY <1>7, <1>8, <1>9

\* The headers behind a request line that is too long.
LEMMA SkipHeaderInPlace ==
  ASSUME ConnInv, RepliesOK, SkipHeader, InPlace, ~late', ~gone
  PROVE  InPlace'
<1> DEFINE line == SubSeq(Arrived, 1, LineLength)
<1>1. /\ InputOK /\ UNCHANGED client /\ script' = script /\ replies' = replies
      /\ start' = start /\ pc = "skip headers" /\ fin' = fin /\ sent' = sent
      /\ pc \notin {"reply", "reply body", "terminated"}
  BY DEF ConnInv, SkipHeader, client, made
<1>2. Len(replies) \in Nat
  BY LenProperties DEF RepliesOK
<1>3. Current \in Nat /\ Current = Len(replies) + 1
  BY CurrentIs
<1>4. PICK c \in Nat : c = Current /\ c = Len(replies) + 1
  BY ONLY <1>3
<1>5. c = Current /\ c = Len(replies) + 1 /\ c <= Len(script)
  BY <1>1, <1>4 DEF InPlace, Busy
<1>6. /\ Current' = c /\ Len(replies') <= Len(script') /\ c <= Len(script')
      /\ start' = BeginOf(c)'
  <2>1. start = BeginOf(c) /\ Len(replies) <= Len(script)
    BY <1>1, <1>5 DEF InPlace, Busy
  <2> QED
    BY <1>1, <1>5, <2>1, SameMessages DEF Current
<1>7. c \in 1..Len(script) /\ Skipping(c)
  <2>1. Len(script) \in Nat
    BY <1>1, MessageFacts
  <2>2. Skipping(c)
    BY <1>1, <1>5 DEF InPlace, Skipping
  <2> QED
    BY <1>2, <1>5, <2>1, <2>2
<1> DEFINE m == script[c]
<1>8. /\ IsWord(m.text[1], "long") /\ 414 \in m.answers /\ (Rest(m) = <<>> \/ m.awkward)
  BY <1>1, <1>7, HeadFacts DEF Skipping, MessageMeant
<1>9. /\ BodyOfMessage(c) \in Nat /\ EndOf(c) \in Nat /\ BodyOfMessage(c) <= EndOf(c)
      /\ BeginOf(c) \in Nat /\ sent \in Nat /\ taken \in Nat
      /\ EndOf(c) = BodyOfMessage(c) + Len(Rest(m))
  <2>1. sent \in 0..Len(stream) /\ taken \in 0..sent /\ Len(stream) \in Nat
    BY <1>1, StreamFacts DEF InputOK
  <2>2. sent \in Nat
    BY ONLY <2>1
  <2>3. taken \in Nat
    BY ONLY <2>1, <2>2
  <2> QED
    BY <1>1, <1>7, <2>2, <2>3, FirstLine, RestFacts
<1>10. Proceeds(c) \/ (pc' = "skip headers" /\ Skipping(c)')
  <2>1. \/ /\ LineLength > 0 /\ taken' = taken + LineLength
           /\ IF line = CrLf THEN Answer(414) ELSE UNCHANGED <<pc, res>>
        \/ GivenUp /\ Answer(414)
    BY DEF SkipHeader, GetLine, GivenUp
  <2>2. \/ \E n \in 1..LinesOf(m) : taken = BeginOf(c) + 3 * n
        \/ AllRead /\ sent < BodyOfMessage(c)
    BY <1>7 DEF Skipping
  <2>3. CASE GivenUp /\ Answer(414)
    <3>1. taken < EndOf(c) \/ CutShort(c)
      <4>1. CASE AllRead /\ sent < BodyOfMessage(c)
        BY <1>9, <4>1 DEF CutShort
      <4>2. ASSUME NEW n \in 1..LinesOf(m), taken = BeginOf(c) + 3 * n
            PROVE  taken < EndOf(c)
        <5>1. BeginOf(c) + 3 * n + 1 < BodyOfMessage(c)
          BY <1>1, <1>7, LineOfHead
        <5>2. PICK t \in Nat : t = BeginOf(c) + 3 * n /\ t + 1 < BodyOfMessage(c)
          BY <1>9, <4>2, <5>1
        <5> QED
          BY <1>9, <4>2, <5>2
      <4> QED
        BY <2>2, <4>1, <4>2
    <3>2. pc' = "reply"
      BY <2>3 DEF Answer
    <3> QED
      BY <1>1, <1>7, <2>3, <3>1, <3>2, FailureAnswered
  <2>4. CASE /\ LineLength > 0 /\ taken' = taken + LineLength
             /\ IF line = CrLf THEN Answer(414) ELSE UNCHANGED <<pc, res>>
    <3>1. LineLength > 0 /\ taken' = taken + LineLength
      BY <2>4
    <3>2. PICK n \in 1..LinesOf(m) : taken = BeginOf(c) + 3 * n
      BY <1>1, <2>2, <3>1, NothingArrived
    <3>3. PICK e \in Nat : e = LinesOf(m) /\ n \in 1..e
      <4>1. LinesOf(m) \in 1..Len(m.text) /\ Len(m.text) \in Nat
        BY <1>1, <1>7, HeadFacts
      <4>2. LinesOf(m) \in Nat
        BY <4>1
      <4> QED
        BY <4>2
    <3>4. CASE n = e
      <4>1. stream[taken + 1] = CR /\ stream[taken + 2] = LF /\ taken + 2 = BodyOfMessage(c)
        BY <1>1, <1>7, <3>2, <3>3, <3>4, LineOfHead
      <4>2. \/ LineLength = 2 /\ line = CrLf
            \/ LineLength = 1 /\ line # CrLf /\ fin /\ taken + 1 = sent
        BY <1>1, <3>1, <4>1, EmptyLine
      <4> HIDE DEF line
      <4>3. CASE LineLength = 2 /\ line = CrLf
        <5>1. Answer(414) /\ taken' = BodyOfMessage(c)
          BY <2>4, <3>1, <4>1, <4>3
        <5>2. m.awkward \/ taken' = EndOf(c)
          <6>1. Rest(m) = <<>> => Len(Rest(m)) = 0
            BY <1>1, <1>7, RestFacts
          <6> QED
            BY <1>8, <1>9, <5>1, <6>1
        <5>3. 414 # -1
          OBVIOUS
        <5> QED
          BY <1>1, <1>7, <1>8, <5>1, <5>2, <5>3, RefusalAnswered
      <4>4. CASE LineLength = 1 /\ line # CrLf /\ fin /\ taken + 1 = sent
        <5>1. pc' = "skip headers"
          BY <1>1, <2>4, <4>4
        <5>2. (AllRead /\ sent < BodyOfMessage(c))'
          <6>1. AllRead'
            BY <1>1, <3>1, <4>4 DEF AllRead
          <6>2. sent < BodyOfMessage(c)
            BY <1>9, <4>1, <4>4
          <6>3. BodyOfMessage(c)' = BodyOfMessage(c)
            BY <1>1, SameMessages
          <6> QED
            BY <1>1, <6>1, <6>2, <6>3
        <5> QED
          BY <1>1, <1>8, <5>1, <5>2 DEF Skipping
      <4> QED
        BY <4>2, <4>3, <4>4
    <3>5. CASE n # e
      <4>1. n \in Nat /\ n < e /\ n + 1 \in 1..e
        BY <3>3, <3>5
      <4>2. /\ IsWord(m.text[3 * n + 1], "header") /\ stream[taken + 1] = m.text[3 * n + 1]
            /\ stream[taken + 2] = CR /\ stream[taken + 3] = LF /\ taken + 3 < BodyOfMessage(c)
        BY <1>1, <1>7, <3>2, <3>3, <4>1, LineOfHead
      <4>3. stream[taken + 1] # LF
        BY <4>2, WordFacts
      <4>4. /\ line # CrLf
            /\ LineLength = 3 \/ (LineLength < 3 /\ fin /\ taken + LineLength = sent)
        BY <1>1, <3>1, <4>2, <4>3, WordLine
      <4> HIDE DEF line
      <4>5. pc' = "skip headers"
        BY <1>1, <2>4, <4>4
      <4>6. Skipping(c)'
        <5>1. CASE LineLength = 3
          <6>1. taken' = BeginOf(c) + 3 * (n + 1)
            BY <1>9, <3>1, <3>2, <4>1, <5>1
          <6>2. (\E k \in 1..LinesOf(script[c]) : taken = BeginOf(c) + 3 * k)'
            <7>1. BeginOf(c)' = BeginOf(c)
              BY <1>1, SameMessages
            <7> QED
              BY <1>1, <3>3, <4>1, <6>1, <7>1
          <6> QED
            BY <1>1, <1>8, <6>2 DEF Skipping
        <5>2. CASE LineLength < 3 /\ fin /\ taken + LineLength = sent
          <6>1. AllRead'
            BY <1>1, <3>1, <5>2 DEF AllRead
          <6>2. sent < BodyOfMessage(c)
            <7>1. LineLength \in Nat
              BY <1>1, <3>1, LineRead
            <7> QED
              BY <1>9, <4>2, <5>2, <7>1
          <6>3. BodyOfMessage(c)' = BodyOfMessage(c)
            BY <1>1, SameMessages
          <6> QED
            BY <1>1, <1>8, <6>1, <6>2, <6>3 DEF Skipping
        <5> QED
          BY <4>4, <5>1, <5>2
      <4> QED
        BY <4>5, <4>6
    <3> QED
      BY <3>4, <3>5
  <2> QED
    BY <2>1, <2>3, <2>4
<1>11. pc' \in {"skip headers", "reply"}
  BY <1>1 DEF SkipHeader, GetLine, Answer
<1>12. CASE pc' = "skip headers"
  <2>1. Skipping(c)'
    <3>1. ~Reading(c)'
      BY <1>12 DEF Reading, InForm, InLength, UpToTheEnd, InChunkedBody, InChunk, AtSize, InData,
                   BehindData, AtLast, IsRead
    <3> QED
      BY <1>10, <1>12, <3>1 DEF Proceeds
  <2> QED
    BY <1>6, <1>12, <2>1, InPlaceNext
<1>13. CASE pc' = "reply"
  <2>1. Answered(c)'
    <3>1. ~Reading(c)'
      BY <1>13 DEF Reading, InForm, InLength, UpToTheEnd, InChunkedBody, InChunk, AtSize, InData,
                   BehindData, AtLast, IsRead
    <3>2. ~gone'
      BY <1>1 DEF client
    <3> QED
      BY <1>10, <1>13, <3>1, <3>2 DEF Proceeds
  <2> QED
    BY <1>6, <1>13, <2>1, InPlaceNext
<1> QED
  BY <1>11, <1>12, <1>13

LEMMA ReadingWhere ==
  ASSUME NEW CONSTANT i, Reading(i)'
  PROVE  pc' \in InRequest
  BY DEF Reading, InForm, InLength, UpToTheEnd, InChunkedBody, InChunk, AtSize, InData,
         BehindData, AtLast, IsRead, InRequest

LEMMA RequestInPlace ==
  ASSUME ConnInv, RepliesOK, ReadInv, InStep, InPlace, Worker, pc \in InRequest, ~late', ~gone'
  PROVE  InPlace'
<1>1. /\ Current \in 1..Len(script) /\ start = BeginOf(Current) /\ Reading(Current)
      /\ Current \in Nat /\ Current = Len(replies) + 1
  BY CurrentRead, CurrentIs
<1>2. PICK c \in Nat : /\ c = Current /\ c = Len(replies) + 1 /\ c \in 1..Len(script)
                       /\ start = BeginOf(c) /\ Reading(c)
  BY <1>1
<1>3. Proceeds(c)
  BY <1>2, RequestProceeds
<1>4. [Next]_vars /\ ~WriteBody
  BY DEF Next, WriteBody, InRequest
<1>5. script' = script /\ replies' = replies
  BY <1>4, ClientSteps, ReplyCount
<1>6. Current' = c /\ Len(replies') <= Len(script') /\ c <= Len(script')
  <2>1. Len(replies) <= Len(script)
    BY DEF InPlace
  <2>2. c <= Len(script)
    BY <1>2
  <2> QED
    BY <1>2, <1>5, <2>1, <2>2 DEF Current
<1>7. start' = BeginOf(c)'
  BY <1>2, <1>4, <1>5, RequestSteps, SameMessages
<1>8. CASE Reading(c)'
  <2>1. pc' \in InRequest
    BY <1>8, ReadingWhere
  <2>2. pc' \notin {"keep_alive", "request line", "skip headers", "reply", "reply body"}
    BY <2>1 DEF InRequest
  <2> QED
    BY <1>6, <1>7, <2>2, InPlaceNext
<1>9. CASE pc' = "reply" /\ Answered(c)'
  BY <1>6, <1>7, <1>9, InPlaceNext
<1>10. CASE pc' = "terminated"
  BY <1>6, <1>10, InPlaceNext DEF Busy, InRequest
<1> QED
  BY <1>3, <1>8, <1>9, <1>10 DEF Proceeds

LEMMA HeadInPlace ==
  ASSUME ConnInv, RepliesOK, InPlace, WriteHead, ~late', ~gone'
  PROVE  InPlace'
<1>1. /\ pc = "reply" /\ pc' = "reply body" /\ UNCHANGED client /\ UNCHANGED made
      /\ start' = start /\ req' = req
  BY DEF WriteHead
<1>2. res' = [res EXCEPT !.head = TRUE] /\ taken' = taken
  <2>1. ~gone
    BY <1>1 DEF client
  <2>2. Write(LAMBDA done : res' = [res EXCEPT !.head = done])
    BY DEF WriteHead
  <2>3. res' = [res EXCEPT !.head = TRUE] /\ UNCHANGED reading
    BY <2>1, <2>2 DEF Write
  <2> QED
    BY <2>3 DEF reading
<1>3. /\ script' = script /\ stream' = stream /\ replies' = replies /\ SentForGood
  BY <1>1 DEF client, made, SentForGood
<1>4. Current \in Nat /\ Current = Len(replies) + 1
  BY CurrentIs
<1>5. PICK c \in Nat : c = Current /\ c = Len(replies) + 1
  BY ONLY <1>4
<1>6. Len(replies) <= Len(script) /\ c <= Len(script) /\ start = BeginOf(c) /\ Answered(c)
  BY <1>1, <1>5 DEF InPlace, Busy, Answered
<1>7. Current' = c /\ Len(replies') <= Len(script') /\ c <= Len(script') /\ start' = BeginOf(c)'
  BY <1>1, <1>3, <1>5, <1>6, SameMessages DEF Current
<1>8. res'.head /\ res'.status = res.status
  BY <1>2 DEF ConnInv, ResponseOK
<1>9. Answered(c)'
  <2>1. StatusOf' = StatusOf
    BY <1>1, <1>8 DEF StatusOf
  <2>2. (AllRead => AllRead') /\ (CutShort(c) => CutShort(c)')
    BY <1>2, <1>3, EndKept
  <2>3. EndOf(c)' = EndOf(c)
    BY <1>3, SameMessages
  <2> QED
    BY <1>2, <1>3, <1>6, <2>1, <2>2, <2>3 DEF Answered
<1> QED
  BY <1>1, <1>7, <1>8, <1>9, InPlaceNext

LEMMA BodyInPlace ==
  ASSUME ConnInv, RepliesOK, InPlace, WriteBody, InStep'
  PROVE  InPlace'
<1>1. /\ pc = "reply body" /\ pc' \in {"close", "keep_alive"} /\ UNCHANGED client
      /\ start' = start
  BY DEF WriteBody
<1>2. taken' = taken
  BY DEF WriteBody, Write, reading, InStep
<1>3. /\ script' = script /\ stream' = stream /\ SentForGood
  BY <1>1 DEF client, SentForGood
<1>4. Current \in Nat /\ Current = Len(replies) + 1 /\ Len(replies) \in Nat
  BY CurrentIs
<1>5. PICK c \in Nat, d \in Nat : c = Current /\ c = Len(replies) + 1 /\ d = c + 1
  BY ONLY <1>4
<1>6. c <= Len(script) /\ Answered(c)
  BY <1>1, <1>5 DEF InPlace, Busy, Answered
<1>7. Len(replies') = c
  <2>1. [Next]_vars
    BY DEF Next, Worker
  <2>2. Len(replies') = Len(replies) + 1
    BY <2>1, ReplyCount
  <2> QED
    BY <1>5, <2>2
<1>8. Current' = d /\ Len(replies') <= Len(script')
  BY <1>3, <1>5, <1>6, <1>7 DEF Current
<1>9. ~script[c].awkward
  <2>1. DOMAIN script = 1..Len(script) /\ Len(script) \in Nat
    BY MessageFacts DEF ConnInv
  <2>2. c \in 1..Len(script)
    BY <1>4, <1>5, <1>6, <2>1
  <2>3. c <= Len(replies')
    BY <1>5, <1>7
  <2> QED
    BY <1>3, <2>1, <2>2, <2>3 DEF InStep
<1>10. taken = EndOf(c) \/ AllRead
  BY <1>6, <1>9 DEF Answered
<1>11. AtMessage'
  <2>1. AllRead => AllRead'
    BY <1>2, <1>3, EndKept
  <2>2. EndOf(c) = BeginOf(d) /\ BeginOf(d)' = BeginOf(d)
    BY <1>3, <1>5, SameMessages DEF EndOf
  <2>3. BeginOf(Current)' = BeginOf(d)'
    BY <1>8 DEF BeginOf
  <2> QED
    BY <1>2, <1>10, <2>1, <2>2, <2>3 DEF AtMessage
<1>12. pc' \notin Busy /\ pc' \notin {"skip headers", "reply", "reply body"}
  BY <1>1 DEF Busy, InRequest
<1> QED
  BY <1>8, <1>11, <1>12, InPlaceNext

LEMMA StepInvKept ==
  ASSUME ConnInv, RepliesOK, ReadInv, StepInv, [Next]_vars
  PROVE  StepInv'
<1> SUFFICES ASSUME InStep' PROVE InPlace'
  BY DEF StepInv
<1>1. InStep /\ ~late /\ ~gone /\ ~late' /\ ~gone'
  BY InStepBefore
<1>2. InPlace
  BY <1>1 DEF StepInv
<1>3. SentForGood /\ UNCHANGED <<script, stream>>
  BY ClientSteps
<1>4. CASE Client \/ UNCHANGED vars
  <2>1. UNCHANGED <<script, stream, taken, start, req, res, replies>> /\ UNCHANGED pc
    BY <1>3, <1>4, ClientSteps
  <2> QED
    BY <1>2, <1>3, <2>1, QuietInPlace
<1>5. CASE AwaitRequest \/ IdleTooLong \/ CloseSocket \/ Terminate
  <2>1. UNCHANGED <<script, stream, taken, start, req, res, replies>>
    BY <1>5 DEF AwaitRequest, IdleTooLong, CloseSocket, Terminate, client, reading, made
  <2>2. (pc = "keep_alive" /\ pc' = "request line") \/ pc' \in Ended
    BY <1>5 DEF AwaitRequest, IdleTooLong, CloseSocket, Terminate, EndProcess, Ended
  <2> QED
    BY <1>2, <1>3, <2>1, <2>2, QuietInPlace
<1>6. CASE ReadRequestLine
  BY <1>1, <1>2, <1>6, RequestLineInPlace
<1>7. CASE SkipHeader
  BY <1>1, <1>2, <1>7, SkipHeaderInPlace
<1>8. CASE WriteHead
  BY <1>1, <1>2, <1>8, HeadInPlace
<1>9. CASE WriteBody
  BY <1>1, <1>2, <1>9, BodyInPlace
<1>10. CASE ReadHeader \/ WriteContinue \/ Routing \/ ReadWithLength \/ ReadUntilClose
            \/ ReadChunkSize \/ ReadChunkEnd \/ ReadLastChunk \/ ContentRead \/ Dispatch
  <2>1. pc \in InRequest
    BY <1>10 DEF ReadHeader, WriteContinue, Routing, ReadWithLength, ReadUntilClose,
                 ReadChunkSize, ReadChunkEnd, ReadLastChunk, ContentRead, Dispatch, InRequest
  <2>2. Worker
    BY <1>10 DEF Worker
  <2> QED
    BY <1>1, <1>2, <2>1, <2>2, RequestInPlace
<1> QED
  BY <1>4, <1>5, <1>6, <1>7, <1>8, <1>9, <1>10 DEF Next, Worker

LEMMA StepInvAtFirst ==
  ASSUME Init
  PROVE  StepInv
<1>1. Len(replies) = 0 /\ Current = 1
  BY DEF Init, Current
<1>2. InputOK
  BY InitConn DEF ConnInv
<1>3. Len(replies) <= Len(script)
  <2>1. Len(script) \in Nat
    BY <1>2, MessageFacts
  <2> QED
    BY <1>1, <2>1
<1>4. pc = "keep_alive" /\ taken = 0
  BY DEF Init
<1>5. BeginOf(1) = 0
  BY <1>2, MessageFacts
<1> QED
  BY <1>1, <1>3, <1>4, <1>5 DEF StepInv, InPlace, Busy, InRequest, AtMessage

\* As long as nothing is given up the worker stays in step with the messages.
LEMMA StaysInStep == Spec => []StepInv
<1>1. Init => StepInv
  BY StepInvAtFirst
<1>2. ConnInv /\ RepliesOK /\ ReadInv /\ StepInv /\ [Next]_vars => StepInv'
  BY StepInvKept
<1> QED
  BY <1>1, <1>2, ConnectionInvariant, RepliesTyped, RequestsRead, PTL DEF Spec

-----------------------------------------------------------------------------
(* Every reply to the message that it answers.                               *)

\* Reply r answers message j, of which the client has sent all or has stopped.
ReplyRight(r, j) ==
    \/ r.start = BeginOf(j) /\ r.status \in script[j].answers /\ r.head
    \/ fin /\ sent < EndOf(j)

OrderInv == \A j \in DOMAIN replies : j \in DOMAIN script /\ Undisturbed(j) => ReplyRight(replies[j], j)

LEMMA ReplyStaysRight ==
  ASSUME SentForGood, UNCHANGED script, NEW CONSTANT r, NEW CONSTANT j, ReplyRight(r, j)
  PROVE  ReplyRight(r, j)'
<1>1. BeginOf(j)' = BeginOf(j) /\ EndOf(j)' = EndOf(j)
  BY SameMessages
<1> QED
  BY <1>1 DEF ReplyRight, SentForGood

LEMMA UndisturbedBefore ==
  ASSUME ConnInv, RepliesOK, [Next]_vars, NEW CONSTANT j, Undisturbed(j)'
  PROVE  Undisturbed(j) /\ ~late' /\ ~gone'
<1>1. ~late' /\ ~gone' /\ script' = script
  BY ClientSteps DEF Undisturbed
<1>2. ~late /\ ~gone
  <2>1. CASE Client \/ UNCHANGED vars
    BY <1>1, <2>1, ClientSteps
  <2>2. CASE ~(Client \/ UNCHANGED vars)
    BY <1>1, <2>2, ClientSteps, LateForGood DEF client
  <2> QED
    BY <2>1, <2>2
<1> QED
  BY <1>1, <1>2 DEF Undisturbed

\* Undisturbed up to the next reply the worker is in step.
LEMMA UndisturbedInStep ==
  ASSUME ConnInv, RepliesOK, Undisturbed(Len(replies) + 1)
  PROVE  InStep
<1>1. /\ DOMAIN script = 1..Len(script) /\ Len(script) \in Nat /\ Len(replies) \in Nat
  BY MessageFacts, CurrentIs DEF ConnInv
<1>2. PICK n \in Nat : n = Len(replies)
  BY <1>1
<1>3. ASSUME NEW k \in 1..Len(script), k <= n PROVE ~script[k].awkward
  <2>1. k \in 1..(n + 1 - 1)
    BY <1>1, <1>3
  <2> QED
    BY <1>2, <2>1 DEF Undisturbed
<1> QED
  BY <1>1, <1>2, <1>3 DEF InStep, Undisturbed

LEMMA NewReplyRight ==
  ASSUME ConnInv, InPlace, pc = "reply body", NEW CONSTANT c, c = Current, NEW written
  PROVE  ReplyRight(ReplyOf(written), c)
<1>1. start = BeginOf(c) /\ Answered(c) /\ res.head
  BY DEF InPlace, Busy, Answered
<1>2. /\ ReplyOf(written).start = start /\ ReplyOf(written).status = StatusOf
      /\ ReplyOf(written).head = res.head
  BY DEF ReplyOf
<1>3. CutShort(c) => fin /\ sent < EndOf(c)
  BY DEF CutShort, AllRead
<1> QED
  BY <1>1, <1>2, <1>3 DEF ReplyRight, Answered

LEMMA OrderKept ==
  ASSUME ConnInv, RepliesOK, StepInv, OrderInv, [Next]_vars
  PROVE  OrderInv'
<1>1. SentForGood /\ script' = script /\ Len(replies) \in Nat
      /\ DOMAIN replies = 1..Len(replies)
  BY ClientSteps, CurrentIs, LenProperties DEF RepliesOK
<1>2. ASSUME NEW CONSTANT j \in DOMAIN replies, j \in DOMAIN script, Undisturbed(j)',
             replies'[j] = replies[j]
      PROVE  ReplyRight(replies[j], j)'
  <2>1. PICK r : r = replies[j] /\ r = replies'[j]
    BY <1>2
  <2>2. ReplyRight(r, j)
    BY <1>2, <2>1, UndisturbedBefore DEF OrderInv
  <2>3. ReplyRight(r, j)'
    BY <1>1, <2>2, ReplyStaysRight
  <2>4. ReplyRight(r, j)' <=> ReplyRight(replies[j], j)'
    BY <2>1 DEF ReplyRight
  <2> QED
    BY <2>3, <2>4
<1>3. CASE UNCHANGED replies
  BY <1>1, <1>2, <1>3 DEF OrderInv
<1>4. CASE WriteBody
  <2>1. PICK written \in {<<>>, Body} : replies' = Append(replies, ReplyOf(written))
    BY <1>4, ReplyWritten
  <2>2. PICK x : x = ReplyOf(written)
    OBVIOUS
  <2>3. /\ DOMAIN replies' = 1..(Len(replies) + 1)
        /\ \A j \in 1..Len(replies) : replies'[j] = replies[j]
        /\ replies'[Len(replies) + 1] = x
    BY <2>1, <2>2, ReplyAppended DEF RepliesOK
  <2>4. \A j \in 1..(Len(replies) + 1) : j \in 1..Len(replies) \/ j = Len(replies) + 1
    BY <1>1
  <2>5. ASSUME NEW CONSTANT j, j = Len(replies) + 1, j \in DOMAIN script, Undisturbed(j)'
        PROVE  ReplyRight(replies[j], j)'
    <3>1. Undisturbed(Len(replies) + 1)
      BY <2>5, UndisturbedBefore
    <3>2. InPlace
      BY <3>1, UndisturbedInStep DEF StepInv
    <3>3. ReplyRight(ReplyOf(written), j)
      BY <1>4, <2>5, <3>2, NewReplyRight DEF Current, WriteBody
    <3>4. ReplyRight(x, j)'
      BY <1>1, <2>2, <3>3, ReplyStaysRight
    <3>5. x = replies'[j]
      BY <2>3, <2>5
    <3>6. ReplyRight(x, j)' <=> ReplyRight(replies[j], j)'
      BY <3>5 DEF ReplyRight
    <3> QED
      BY <3>4, <3>6
  <2>6. ASSUME NEW CONSTANT j \in DOMAIN replies', j \in DOMAIN script', Undisturbed(j)'
        PROVE  ReplyRight(replies[j], j)'
    <3>1. CASE j \in 1..Len(replies)
      BY <1>1, <1>2, <2>3, <2>6, <3>1
    <3>2. CASE j = Len(replies) + 1
      BY <1>1, <2>5, <2>6, <3>2
    <3> QED
      BY <2>3, <2>4, <2>6, <3>1, <3>2
  <2> QED
    BY <2>6 DEF OrderInv
<1> QED
  BY <1>3, <1>4, OnlyWriteBodyReplies

LEMMA InOrder ==
  ASSUME ConnInv, RepliesOK, StepInv, OrderInv
  PROVE  AnswersInOrder
<1>1. /\ DOMAIN script = 1..Len(script) /\ Len(script) \in Nat
      /\ DOMAIN replies = 1..Len(replies) /\ Len(replies) \in Nat
      /\ sent \in 0..Len(stream) /\ Len(stream) \in Nat
  BY MessageFacts, CurrentIs, LenProperties, StreamFacts DEF ConnInv, InputOK, RepliesOK
<1>2. sent \in Nat
  BY ONLY <1>1
<1>3. ASSUME NEW j \in 1..Len(replies), Undisturbed(Len(script) + 1)
      PROVE  j <= Len(script)
  <2>1. InStep
    <3>1. \A k \in 1..Len(script) : k \in 1..(Len(script) + 1 - 1)
      BY <1>1
    <3> QED
      BY <1>1, <1>3, <3>1 DEF InStep, Undisturbed
  <2>2. Len(replies) <= Len(script)
    BY <2>1 DEF StepInv, InPlace
  <2> QED
    BY <1>1, <2>2
<1>4. ASSUME NEW j \in 1..Len(replies), j \in DOMAIN script, Undisturbed(j), Complete(j)
      PROVE  /\ replies[j].start = BeginOf(j) /\ replies[j].status \in script[j].answers
             /\ replies[j].head
  <2>1. ReplyRight(replies[j], j)
    BY <1>1, <1>4 DEF OrderInv
  <2>2. EndOf(j) <= sent /\ EndOf(j) \in Nat
    BY <1>1, <1>4, BeginsApart DEF Complete, EndOf, ConnInv
  <2>3. ~(sent < EndOf(j))
    BY <1>2, <2>2
  <2> QED
    BY <2>1, <2>3 DEF ReplyRight
<1> QED
  BY <1>1, <1>3, <1>4 DEF AnswersInOrder

\* As long as nothing is given up and no message is awkward, the j-th reply answers the
\* j-th message, however the messages are cut and run together, and nothing is answered
\* that was not asked: for every script of messages that are written as they are meant.
THEOREM RepliesInOrder == Spec => []AnswersInOrder
<1>1. Init => OrderInv
  <2> SUFFICES ASSUME Init PROVE OrderInv
    OBVIOUS
  <2>1. replies = <<>>
    BY DEF Init
  <2>2. DOMAIN <<>> = {}
    OBVIOUS
  <2> QED
    BY <2>1, <2>2 DEF OrderInv
<1>2. ConnInv /\ RepliesOK /\ StepInv /\ OrderInv /\ [Next]_vars => OrderInv'
  BY OrderKept
<1>3. ConnInv /\ RepliesOK /\ StepInv /\ OrderInv => AnswersInOrder
  BY InOrder
<1> QED
  BY <1>1, <1>2, <1>3, ConnectionInvariant, RepliesTyped, StaysInStep, PTL DEF Spec

-----------------------------------------------------------------------------
(* Whoever waits for "100 Continue" is told to go on.                        *)

\* Message i is one whose client waits, and how many there are in the first n.
Pausing(i) == script[i].pause < Len(script[i].text)
Waiting(n) == Cardinality({k \in 1..n : Pausing(k)})

PastContinue == (InRequest \ {"headers", "continue"}) \union {"reply", "reply body"}

ContinueInv ==
    /\ continues \in Nat
    /\ InStep /\ ~fin => /\ Waiting(Len(replies)) <= continues
                         /\ pc \in PastContinue => Waiting(Current) <= continues

LEMMA WaitingFacts ==
  ASSUME NEW n \in Nat
  PROVE  /\ Waiting(n) \in Nat /\ Waiting(n + 1) \in Nat
         /\ Waiting(n) <= Waiting(n + 1) /\ Waiting(n + 1) <= Waiting(n) + 1
         /\ ~Pausing(n + 1) => Waiting(n + 1) = Waiting(n)
<1> DEFINE P == {k \in 1..n : Pausing(k)}
           Q == {k \in 1..(n + 1) : Pausing(k)}
<1>1. IsFiniteSet(P) /\ Cardinality(P) \in Nat
  <2>1. IsFiniteSet(1..n)
    BY FS_Interval
  <2> QED
    BY <2>1, FS_Subset, FS_CardinalityType
<1>2. \A k \in 1..(n + 1) : k \in 1..n \/ k = n + 1
  OBVIOUS
<1>3. 1..n \subseteq 1..(n + 1) /\ n + 1 \in 1..(n + 1) /\ n + 1 \notin 1..n
  OBVIOUS
<1>4. CASE Pausing(n + 1)
  <2>1. Q = P \union {n + 1} /\ n + 1 \notin P
    BY <1>2, <1>3, <1>4
  <2>2. Cardinality(Q) = Cardinality(P) + 1
    BY <1>1, <2>1, FS_AddElement
  <2>3. Waiting(n) = Cardinality(P) /\ Waiting(n + 1) = Cardinality(Q)
    BY DEF Waiting
  <2> HIDE DEF P, Q
  <2> QED
    BY <1>1, <1>4, <2>2, <2>3
<1>5. CASE ~Pausing(n + 1)
  <2>1. Q = P
    BY <1>2, <1>3, <1>5
  <2>2. Waiting(n) = Cardinality(P) /\ Waiting(n + 1) = Cardinality(Q)
    BY DEF Waiting
  <2> HIDE DEF P, Q
  <2> QED
    BY <1>1, <2>1, <2>2
<1> QED
  BY <1>4, <1>5

LEMMA SameWaiting ==
  ASSUME UNCHANGED script, NEW CONSTANT n
  PROVE  Waiting(n)' = Waiting(n)
  BY DEF Waiting, Pausing

LEMMA PauseMeant ==
  ASSUME InputOK, NEW i \in 1..Len(script), Pausing(i)
  PROVE  /\ IsWord(script[i].text[1], "request")
         /\ HeaderOf(RequestOf(script[i]), "Expect", "") = "100-continue"
<1>1. MessageMeant(script[i], i = Len(script)) /\ Len(script[i].text) \in Nat
  BY HeadFacts
<1>2. script[i].pause # Len(script[i].text)
  BY <1>1 DEF Pausing
<1> QED
  BY <1>1, <1>2 DEF MessageMeant

LEMMA OnlyOneContinues ==
  ASSUME [Next]_vars
  PROVE  UNCHANGED continues \/ WriteContinue
<1>1. CASE Client
  BY <1>1 DEF Client, Send, Close, Reset, made
<1>2. CASE AwaitRequest \/ IdleTooLong \/ CloseSocket \/ ReadRequestLine \/ SkipHeader \/ ReadHeader
  BY <1>2 DEF AwaitRequest, IdleTooLong, CloseSocket, ReadRequestLine, SkipHeader, ReadHeader, made
<1>3. CASE Routing \/ ReadWithLength \/ ReadUntilClose
  BY <1>3 DEF Routing, ReadWithLength, ReadUntilClose, made
<1>4. CASE ReadChunkSize \/ ReadChunkEnd \/ ReadLastChunk \/ ContentRead
  BY <1>4 DEF ReadChunkSize, ReadChunkEnd, ReadLastChunk, ContentRead, made
<1>5. CASE Dispatch \/ WriteHead \/ WriteBody \/ Terminate
  BY <1>5 DEF Dispatch, WriteHead, WriteBody, Terminate, made
<1>6. CASE UNCHANGED vars
  BY <1>6 DEF vars, made
<1> QED
  BY <1>1, <1>2, <1>3, <1>4, <1>5, <1>6 DEF Next, Worker

\* Where a request gets past the point at which a client may wait.
LEMMA PassesContinue ==
  ASSUME ConnInv, [Next]_vars, pc' \in PastContinue, pc \notin PastContinue, ~WriteContinue
  PROVE  \/ ReadRequestLine /\ pc' = "reply"
         \/ SkipHeader /\ pc' = "reply"
         \/ ReadHeader /\ pc' \in {"routing", "reply"}
<1>1. CASE Client \/ UNCHANGED vars
  BY <1>1, ClientSteps
<1>2. CASE AwaitRequest \/ IdleTooLong \/ CloseSocket \/ WriteBody
  BY <1>2 DEF AwaitRequest, IdleTooLong, CloseSocket, WriteBody, PastContinue, InRequest
<1>3. CASE Routing \/ ReadWithLength \/ ReadUntilClose \/ ReadChunkSize \/ ReadChunkEnd
           \/ ReadLastChunk \/ ContentRead \/ Dispatch \/ WriteHead \/ Terminate
  BY <1>3 DEF Routing, ReadWithLength, ReadUntilClose, ReadChunkSize, ReadChunkEnd,
              ReadLastChunk, ContentRead, Dispatch, WriteHead, Terminate, PastContinue, InRequest
<1>4. CASE ReadRequestLine
  <2>1. pc' \in {"skip headers", "reply", "headers", "close", "terminated"}
    BY <1>4 DEF ReadRequestLine, GetLine, GotRequestLine, EndProcess, HangUp
  <2> QED
    BY <1>4, <2>1 DEF PastContinue, InRequest
<1>5. CASE SkipHeader
  <2>1. pc' \in {"skip headers", "reply"}
    BY <1>5 DEF SkipHeader, GetLine, Answer
  <2> QED
    BY <1>5, <2>1 DEF PastContinue, InRequest
<1>6. CASE ReadHeader
  <2>1. pc' \in {"headers", "continue", "routing", "reply", "terminated"}
    BY <1>6 DEF ReadHeader, GetLine, GotHeader, ParseRanges, EndProcess, Answer
  <2> QED
    BY <1>6, <2>1 DEF PastContinue, InRequest
<1> QED
  BY <1>1, <1>2, <1>3, <1>4, <1>5, <1>6 DEF Next, Worker

\* A line that is refused, or skipped, is that of a client that does not wait.
LEMMA RefusedNotWaiting ==
  ASSUME ConnInv, RepliesOK, InPlace, ~late', ~gone, ~fin, pc' = "reply",
         ReadRequestLine \/ SkipHeader
  PROVE  Current \in 1..Len(script) /\ ~Pausing(Current)
<1>1. InputOK /\ Len(script) \in Nat
  BY MessageFacts DEF ConnInv
<1>2. Current \in Nat /\ Current = Len(replies) + 1 /\ Len(replies) \in Nat
  BY CurrentIs
<1>3. PICK c \in Nat : c = Current /\ c = Len(replies) + 1
  BY ONLY <1>2
<1>4. CASE ReadRequestLine
  <2>1. /\ script' = script /\ replies' = replies /\ start' = taken /\ UNCHANGED client
    BY <1>4 DEF ReadRequestLine, client, made
  <2>2. InPlace'
    BY <1>4, RequestLineInPlace
  <2>3. Current' = c
    BY <1>3, <2>1 DEF Current
  <2>4. c <= Len(script) /\ start' = BeginOf(Current)'
    BY <2>1, <2>2, <2>3 DEF InPlace, Busy
  <2>5. taken = BeginOf(c)
    <3>1. BeginOf(Current)' = BeginOf(c)' /\ BeginOf(c)' = BeginOf(c)
      BY <2>1, <2>3, SameMessages DEF BeginOf
    <3> QED
      BY <2>1, <2>4, <3>1
  <2>6. c \in 1..Len(script)
    BY <1>1, <1>2, <1>3, <2>4
  <2>7. /\ LineLength > 0 /\ taken' = taken + LineLength
        /\ GotRequestLine(SubSeq(Arrived, 1, LineLength))
    BY <1>4 DEF ReadRequestLine, GetLine, HangUp
  <2>8. ~IsWord(script[c].text[1], "request")
    <3>1. \/ pc' \in {"headers", "terminated", "skip headers"}
          \/ IsWord(script[c].text[1], "request") => fin
      BY <2>1, <2>5, <2>6, <2>7, MessageBegins
    <3> QED
      BY <3>1
  <2> QED
    BY <1>1, <1>3, <2>6, <2>8, PauseMeant
<1>5. CASE SkipHeader
  <2>1. pc = "skip headers"
    BY <1>5 DEF SkipHeader
  <2>2. c <= Len(script) /\ IsWord(script[c].text[1], "long")
    BY <1>3, <2>1 DEF InPlace, Busy, Skipping
  <2>3. c \in 1..Len(script)
    BY <1>1, <1>2, <1>3, <2>2
  <2>4. ~IsWord(script[c].text[1], "request")
    BY <2>2, WordFacts
  <2> QED
    BY <1>1, <1>3, <2>3, <2>4, PauseMeant
<1> QED
  BY <1>4, <1>5

LEMMA RoutedNotWaiting ==
  ASSUME ConnInv, RepliesOK, ReadInv, InStep, InPlace, ReadHeader, ~late', ~gone', ~fin,
         pc' \in {"routing", "reply"}
  PROVE  Current \in 1..Len(script) /\ ~Pausing(Current)
<1>1. InputOK /\ pc = "headers" /\ pc \in InRequest /\ UNCHANGED client /\ Worker
  BY DEF ConnInv, ReadHeader, InRequest, Worker
<1>2. Current \in 1..Len(script) /\ Reading(Current) /\ Current \in Nat
  BY <1>1, CurrentRead, CurrentIs
<1>3. PICK c \in Nat : c = Current /\ c \in 1..Len(script) /\ Reading(c)
  BY <1>2
<1>4. PICK line : GotHeader(line)
  <2>1. ~gone /\ ~AtEnd
    BY <1>1 DEF client, AtEnd
  <2> QED
    BY <2>1 DEF ReadHeader, GetLine
<1>5. pc' = "routing" /\ HeaderOf(req, "Expect", "") # "100-continue"
      /\ req' = [req EXCEPT !.ranges = parse_range_header(HeaderOf(req, "Range", <<>>))]
  BY <1>1, <1>4 DEF GotHeader, ParseRanges, EndProcess
<1>6. req'.headers = req.headers
  BY <1>5 DEF ConnInv, RequestOK
<1>7. Reading(c)'
  BY <1>1, <1>3, <1>5, RequestProceeds DEF Proceeds
<1>8. BehindHead(c)'
  BY <1>5, <1>7 DEF Reading, InForm, InLength, UpToTheEnd, InChunkedBody, InChunk, AtSize, InData,
         BehindData, AtLast, IsRead
<1>9. req' = RequestOf(script[c])
  BY <1>1, <1>8 DEF BehindHead, client
<1>10. HeaderOf(RequestOf(script[c]), "Expect", "") # "100-continue"
  <2>1. PICK q : q = RequestOf(script[c]) /\ q.headers = req.headers
    BY <1>6, <1>9
  <2>2. HeaderOf(q, "Expect", "") = HeaderOf(req, "Expect", "")
    <3>1. PICK a : a = req /\ q.headers = a.headers
      BY <2>1
    <3>2. \A name, absent : HeaderOf(q, name, absent) = HeaderOf(a, name, absent)
      BY ONLY <3>1 DEF HeaderOf
    <3> QED
      BY <3>1, <3>2
  <2> QED
    BY <1>5, <2>1, <2>2
<1> QED
  BY <1>1, <1>3, <1>10, PauseMeant

LEMMA ContinueKept ==
  ASSUME ConnInv, RepliesOK, ReadInv, StepInv, ContinueInv, [Next]_vars
  PROVE  ContinueInv'
<1>1. continues \in Nat /\ continues' \in Nat
  <2>1. continues \in Nat
    BY DEF ContinueInv
  <2>2. continues' = continues \/ continues' = continues + 1
    <3>1. WriteContinue => continues' = continues \/ continues' = continues + 1
      BY DEF WriteContinue, Write
    <3> QED
      BY <3>1, OnlyOneContinues
  <2> QED
    BY ONLY <2>1, <2>2
<1> SUFFICES ASSUME InStep', ~fin'
             PROVE  /\ (Waiting(Len(replies)) <= continues)'
                    /\ pc' \in PastContinue => (Waiting(Current) <= continues)'
  BY <1>1 DEF ContinueInv
<1>2. InStep /\ ~late /\ ~gone /\ ~late' /\ ~gone' /\ InPlace
  BY InStepBefore DEF StepInv
<1>3. ~fin /\ script' = script
  BY ClientSteps DEF SentForGood
<1>4. Current \in Nat /\ Current = Len(replies) + 1 /\ Len(replies) \in Nat
  BY CurrentIs
<1>5. PICK n \in Nat, c \in Nat : n = Len(replies) /\ c = Current /\ c = n + 1
  BY ONLY <1>4
<1>6. /\ Waiting(n) <= continues
      /\ pc \in PastContinue => Waiting(c) <= continues
  BY <1>2, <1>3, <1>5 DEF ContinueInv
<1>7. /\ Waiting(n) \in Nat /\ Waiting(c) \in Nat /\ Waiting(c) <= Waiting(n) + 1
      /\ ~Pausing(c) => Waiting(c) = Waiting(n)
  BY <1>5, WaitingFacts
<1>8. Waiting(n)' = Waiting(n) /\ Waiting(c)' = Waiting(c)
  BY <1>3, SameWaiting
<1>9. CASE WriteBody
  <2>1. pc = "reply body" /\ pc' \notin PastContinue /\ continues' = continues
    BY <1>9 DEF WriteBody, PastContinue, InRequest
  <2>2. Waiting(c) <= continues
    BY <1>6, <2>1 DEF PastContinue
  <2>3. Len(replies') = c
    BY <1>5, <1>9, ReplyCount
  <2>4. Waiting(Len(replies))' = Waiting(c)'
    BY <2>3 DEF Waiting
  <2> QED
    BY <1>8, <2>1, <2>2, <2>4
<1>10. CASE ~WriteBody
  <2>1. replies' = replies
    BY <1>10, ReplyCount
  <2>2. Len(replies)' = n /\ Current' = c
    BY <1>5, <2>1 DEF Current
  <2>3. Waiting(Len(replies))' = Waiting(n)' /\ Waiting(Current)' = Waiting(c)'
    BY <2>2 DEF Waiting
  <2>4. CASE WriteContinue
    <3>1. continues' = continues + 1
      BY <1>2, <2>4 DEF WriteContinue, Write
    <3>2. Waiting(n) <= continues + 1 /\ Waiting(c) <= continues + 1
      BY <1>1, <1>6, <1>7
    <3> QED
      BY <1>8, <2>3, <3>1, <3>2
  <2>5. CASE ~WriteContinue
    <3>1. continues' = continues
      BY <2>5, OnlyOneContinues
    <3>2. ASSUME pc' \in PastContinue PROVE Waiting(c) <= continues
      <4>1. CASE pc \in PastContinue
        BY <1>6, <4>1
      <4>2. CASE pc \notin PastContinue
        <5>1. \/ (ReadRequestLine \/ SkipHeader) /\ pc' = "reply"
              \/ ReadHeader /\ pc' \in {"routing", "reply"}
          BY <2>5, <3>2, <4>2, PassesContinue
        <5>2. ~Pausing(Current)
          BY <1>2, <1>3, <5>1, RefusedNotWaiting, RoutedNotWaiting
        <5>3. Waiting(c) = Waiting(n)
          BY <1>5, <1>7, <5>2
        <5> QED
          BY <1>6, <5>3
      <4> QED
        BY <4>1, <4>2
    <3> QED
      BY <1>6, <1>8, <2>3, <3>1, <3>2
  <2> QED
    BY <2>4, <2>5
<1> QED
  BY <1>9, <1>10

LEMMA ContinuesInTime == Spec => []ContinueInv
<1>1. Init => ContinueInv
  <2> SUFFICES ASSUME Init PROVE ContinueInv
    OBVIOUS
  <2>1. continues = 0 /\ Len(replies) = 0 /\ pc \notin PastContinue
    BY DEF Init, PastContinue, InRequest
  <2>2. Waiting(0) = 0
    <3>1. {k \in 1..0 : Pausing(k)} = {}
      OBVIOUS
    <3> QED
      BY <3>1, FS_EmptySet DEF Waiting
  <2> QED
    BY <2>1, <2>2 DEF ContinueInv
<1>2. ConnInv /\ RepliesOK /\ ReadInv /\ StepInv /\ ContinueInv /\ [Next]_vars => ContinueInv'
  BY ContinueKept
<1> QED
  BY <1>1, <1>2, ConnectionInvariant, RepliesTyped, RequestsRead, StaysInStep, PTL DEF Spec

\* The worker waits for some part of a body.
ReadsBody == pc \in {"with length", "until close", "chunk size", "chunk data", "chunk end"}

\* A body that is still waited for has not been sent to its end.
LEMMA BodyNotAllSent ==
  ASSUME InputOK, NEW i \in 1..Len(script), Reading(i), ~script[i].awkward, ~fin,
         taken = sent, sent < Len(stream), ReadsBody
  PROVE  sent < EndOf(i)
<1>1. /\ BodyOfMessage(i) \in Nat /\ EndOf(i) \in Nat /\ EndOf(i) <= Len(stream)
      /\ Len(Rest(script[i])) \in Nat /\ EndOf(i) = BodyOfMessage(i) + Len(Rest(script[i]))
  BY RestFacts
<1>2. Len(stream) \in Nat /\ sent \in Nat /\ need \in Nat
  <2>1. sent \in 0..Len(stream) /\ Len(stream) \in Nat /\ need \in Nat
    BY StreamFacts DEF InputOK
  <2> QED
    BY ONLY <2>1
<1>3. \/ InForm(i) /\ pc = "with length"
      \/ InLength(i)
      \/ UpToTheEnd(i)
      \/ pc # "last chunk" /\ InChunkedBody(i)
  BY ReadingAt DEF ReadsBody
<1>4. ~CutShort(i)
  BY DEF CutShort, AllRead
<1>5. CASE InForm(i) /\ pc = "with length"
  <2>1. PICK n : n = taken - BodyOfMessage(i) /\ n \in 0..Len(Rest(script[i]))
                 /\ n < Len(Rest(script[i]))
    BY <1>5 DEF InForm
  <2> QED
    BY <1>1, <1>2, <2>1
<1>6. CASE InLength(i)
  <2>1. taken \in BodyOfMessage(i)..(EndOf(i) - 1)
    BY <1>6 DEF InLength
  <2> QED
    BY <1>1, <1>2, <2>1
<1>7. CASE UpToTheEnd(i)
  <2>1. OtherBody(i) /\ ~IsChunked(RequestOf(script[i])) /\ LengthOf(RequestOf(script[i])) = -1
    BY <1>7 DEF UpToTheEnd
  <2>2. LengthOf(RequestOf(script[i])) = Len(Rest(script[i])) \/ i = Len(script)
    BY <2>1 DEF OtherBody, BodyIsMeant
  <2>3. i = Len(script)
    BY <1>1, <2>1, <2>2
  <2>4. EndOf(i) = Len(stream)
    BY <2>3, MessageFacts DEF EndOf
  <2> QED
    BY <2>4
<1>8. CASE pc # "last chunk" /\ InChunkedBody(i)
  <2>1. OtherBody(i) /\ IsChunked(RequestOf(script[i]))
    BY <1>8 DEF InChunkedBody
  <2>2. PICK k \in DOMAIN script[i].chunks : InChunk(i, k)
    BY <1>8 DEF InChunkedBody
  <2>3. PICK c \in Nat, size \in Nat, p \in Nat :
           /\ c = Len(script[i].chunks) /\ k \in 1..c /\ size = ChunkSize(script[i], k)
           /\ p = PlaceOfChunk(i, k) /\ p + 3 <= EndOf(i)
           /\ k = c <=> size = 0
           /\ k < c => p + size + 8 <= EndOf(i)
    BY <2>1, ChunkFacts
  <2>4. \/ taken = p - 1
        \/ need \in 1..size /\ taken = p + 2 + size - need
        \/ size > 0 /\ taken = p + 2 + size
    BY <1>4, <1>8, <2>2, <2>3 DEF InChunk, AtSize, InData, BehindData, AtLast
  <2>5. c \in Nat /\ size \in Nat /\ p \in Nat
    OBVIOUS
  <2>6. size > 0 => p + size + 8 <= EndOf(i)
    <3>1. size > 0 => size # 0
      BY ONLY <2>5
    <3>2. k \in 1..c /\ k # c => k < c
      BY ONLY <2>5
    <3>3. /\ k = c <=> size = 0
          /\ k < c => p + size + 8 <= EndOf(i)
          /\ k \in 1..c
      BY <2>3
    <3> QED
      BY ONLY <3>1, <3>2, <3>3
  <2>7. PICK e \in Nat, t \in Int, n \in Nat : e = EndOf(i) /\ t = taken /\ n = need
    BY <1>1, <1>2
  <2>8. p + 3 <= e /\ (size > 0 => p + size + 8 <= e)
    BY <2>3, <2>6, <2>7
  <2>9. \/ t = p - 1
        \/ n \in 1..size /\ t = p + 2 + size - n
        \/ size > 0 /\ t = p + 2 + size
    BY <2>4, <2>7
  <2>10. t < e
    <3>1. e \in Nat /\ t \in Int /\ n \in Nat
      BY <2>7
    <3> QED
      BY ONLY <2>5, <2>8, <2>9, <3>1
  <2> QED
    BY <2>7, <2>10
<1> QED
  BY <1>3, <1>5, <1>6, <1>7, <1>8

\* Nobody stops before the end of the message that is read.
LEMMA SendsToTheEnd ==
  ASSUME ConnInv, ContinueInv, InStep, ~fin, pc \in PastContinue,
         NEW c \in 1..Len(script), c = Current, c = Len(replies) + 1,
         sent < EndOf(c), sent < Len(stream)
  PROVE  sent < SendLimit
<1>1. InputOK /\ DOMAIN script = 1..Len(script) /\ Len(script) \in Nat
  BY MessageFacts DEF ConnInv
<1>2. Waiting(c) <= continues
  BY DEF ContinueInv
<1>3. /\ EndOf(c) \in Nat /\ sent \in Nat /\ c \in Nat
      /\ continues \in Nat /\ Waiting(c) \in Nat
  <2>1. sent \in 0..Len(stream) /\ Len(stream) \in Nat
    BY <1>1, StreamFacts DEF InputOK
  <2>2. c \in Nat /\ c = (c - 1) + 1 /\ c - 1 \in Nat
    BY <1>1
  <2>3. Waiting(c) \in Nat
    BY <2>2, WaitingFacts
  <2> QED
    BY <1>1, <2>1, <2>2, <2>3, RestFacts DEF ContinueInv
<1>4. CASE Waits = {}
  BY <1>4 DEF SendLimit
<1>5. CASE Waits # {}
  <2> DEFINE i == CHOOSE i \in Waits : \A k \in Waits : i <= k
  <2>1. Waits \in SUBSET Nat
    BY <1>1 DEF Waits
  <2>2. i \in Waits
    <3>1. \E k \in Waits : \A l \in Waits : k <= l
      BY <1>5, <2>1, LeastOf
    <3> QED
      BY <3>1
  <2>3. SendLimit = BeginOf(i) + script[i].pause
    BY <1>5 DEF SendLimit
  <2> HIDE DEF i
  <2>4. /\ i \in 1..Len(script) /\ continues < Waiting(i) /\ ~(i <= Len(replies))
    <3>1. i \in DOMAIN script /\ Len(replies) < i
          /\ continues < Cardinality({k \in 1..i : script[k].pause < Len(script[k].text)})
      BY <2>2 DEF Waits
    <3>2. Len(replies) \in Nat
      BY <1>3
    <3> QED
      BY <1>1, <3>1, <3>2 DEF Waiting, Pausing
  <2>5. i # c
    BY <1>2, <1>3, <2>4
  <2>6. c < i
    BY <1>1, <2>4, <2>5
  <2>7. EndOf(c) <= BeginOf(i) /\ BeginOf(i) \in Nat
    BY <1>1, <2>4, <2>6, BeginsApart
  <2>8. script[i].pause \in Nat
    BY <1>1, <2>4, HeadFacts
  <2> QED
    BY <1>3, <2>3, <2>7, <2>8
<1> QED
  BY <1>4, <1>5

LEMMA NobodyStandsOff ==
  ASSUME ConnInv, RepliesOK, ReadInv, StepInv, ContinueInv
  PROVE  NoStandoff
<1> SUFFICES ASSUME ReadsBody, Undisturbed(Len(script) + 1), ~fin, Arrived = <<>>, sent < Len(stream)
             PROVE  sent < SendLimit
  BY DEF NoStandoff, ReadsBody
<1>1. /\ InputOK /\ DOMAIN script = 1..Len(script) /\ Len(script) \in Nat
  BY MessageFacts DEF ConnInv
<1>2. \A k \in 1..Len(script) : ~script[k].awkward
  <2>1. \A k \in 1..Len(script) : k \in 1..(Len(script) + 1 - 1)
    BY <1>1
  <2> QED
    BY <2>1 DEF Undisturbed
<1>3. InStep
  BY <1>1, <1>2 DEF InStep, Undisturbed
<1>4. pc \in InRequest /\ pc \in PastContinue
  BY DEF ReadsBody, InRequest, PastContinue
<1>5. Current \in 1..Len(script) /\ Reading(Current) /\ Current = Len(replies) + 1
  BY <1>3, <1>4, CurrentRead, CurrentIs DEF StepInv
<1>6. PICK c \in 1..Len(script) : c = Current /\ c = Len(replies) + 1 /\ Reading(c)
  BY <1>5
<1>7. taken = sent
  <2>1. Len(Arrived) = 0 /\ Len(Arrived) = sent - taken
    BY <1>1, ArrivedFacts
  <2>2. sent \in Int /\ taken \in Int
    BY <1>1, StreamFacts DEF InputOK
  <2> QED
    BY <2>1, <2>2
<1>8. sent < EndOf(c)
  BY <1>1, <1>2, <1>6, <1>7, BodyNotAllSent
<1> QED
  BY <1>3, <1>4, <1>6, <1>8, SendsToTheEnd

\* The server waits for no body whose client waits for "100 Continue": whoever has to be
\* told has been told, whatever was answered before.
THEOREM NobodyWaitsInVain == Spec => []NoStandoff
<1>1. ConnInv /\ RepliesOK /\ ReadInv /\ StepInv /\ ContinueInv => NoStandoff
  BY NobodyStandsOff
<1> QED
  BY <1>1, ConnectionInvariant, RepliesTyped, RequestsRead, StaysInStep, ContinuesInTime, PTL
=============================================================================
