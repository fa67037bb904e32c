--------------------------------- MODULE Wkt --------------------------------
(***************************************************************************)
(* The reader and the writer of WKT of src/spatial/geom.c.  A text is a    *)
(* sequence of tokens: names, the words Z, M, ZM and EMPTY, brackets,      *)
(* commas and numbers.  Blanks are skipped wherever they may stand, and    *)
(* ZM is one token, as it is read without a blank only.                    *)
(***************************************************************************)
EXTENDS Binary

\* Numbers of one digit: the model does not look into a number.
Digits == <<"1", "2", "3", "4", "5", "6", "7", "8", "9">>

dstr(n) == IF n = 0 THEN "0" ELSE Digits[n]

IsNumber(token) == \E n \in 0 .. 9 : dstr(n) = token

strtod(token) == CHOOSE n \in 0 .. 9 : dstr(n) = token

CONSTANT Tokens  \* the tokens of texts

\* All that the writer writes.
Vocabulary ==
    Range(GeomTypes) \union {"M", "(", ")", ","} \union {dstr(n) : n \in 0 .. 9}

ASSUME TokensAssumption == Vocabulary \subseteq Tokens

-----------------------------------------------------------------------------
(***************************************************************************)
(* The context of a call of the reader: what is left of the text, the      *)
(* buffer, the words after the name, the last coordinate, what it had and  *)
(* what the first one has fixed.  heap counts the blocks that the call and *)
(* those below it hold.                                                    *)
(***************************************************************************)
Context ==
    [p : Seq(Tokens), err : {"none", "input"}, g : Seq(Int), heap : Int,
     hasZ : BOOLEAN, hasM : BOOLEAN, isEmpty : BOOLEAN,
     x : 0 .. 9, y : 0 .. 9, z : 0 .. 9, m : 0 .. 9, foundZ : BOOLEAN, foundM : BOOLEAN,
     writtenCoord : BOOLEAN, mustZ : BOOLEAN, mustM : BOOLEAN]

NewContext(text) ==
    [p |-> text, err |-> "none", g |-> <<LittleEndian>>, heap |-> 1,
     hasZ |-> FALSE, hasM |-> FALSE, isEmpty |-> FALSE,
     x |-> 0, y |-> 0, z |-> 0, m |-> 0, foundZ |-> FALSE, foundM |-> FALSE,
     writtenCoord |-> FALSE, mustZ |-> FALSE, mustM |-> FALSE]

\* The n-th token of what is left, and the end of the text as one.
Ahead(c, n) == IF n <= Len(c.p) THEN c.p[n] ELSE "end"

Skip(c, n) == [c EXCEPT !.p = SubSeq(@, n + 1, Len(@))]

Failed(c) == [c EXCEPT !.err = "input"]

Grow(c, cells) == [c EXCEPT !.g = @ \o cells]

\* The next step of the reader, unless the one before has failed.
Then(c, Step(_)) == IF c.err = "none" THEN Step(c) ELSE c

\* Z, M or ZM, if one of them is there.
decodeWord(c) ==
    LET tag == Ahead(c, 1)
    IN  [Skip(c, IF tag \in {"Z", "M", "ZM"} THEN 1 ELSE 0) EXCEPT !.hasZ = tag \in {"Z", "ZM"},
                                                                  !.hasM = tag \in {"M", "ZM"}]

\* EMPTY; if it is not, what comes next is a bracket.
decodeEmpty(c) ==
    CASE Ahead(c, 1) = "EMPTY" -> [Skip(c, 1) EXCEPT !.isEmpty = TRUE]
      [] Ahead(c, 1) = "(" -> c
      [] OTHER -> Failed(c)

decodeHead(c) == decodeEmpty(decodeWord(c))

\* The numbers that the words ask for, neither more nor fewer.
DeclaredNumbers(c) ==
    LET n == 2 + (IF c.hasZ THEN 1 ELSE 0) + (IF c.hasM THEN 1 ELSE 0)
    IN  IF \E i \in 1 .. n : ~IsNumber(Ahead(c, i)) THEN Failed(c)
        ELSE [Skip(c, n) EXCEPT !.x = strtod(c.p[1]), !.y = strtod(c.p[2]),
                                !.z = IF c.hasZ THEN strtod(c.p[3]) ELSE 0,
                                !.m = IF c.hasM THEN strtod(c.p[n]) ELSE 0,
                                !.foundZ = c.hasZ, !.foundM = c.hasM]

\* Two numbers, and one or two more if no bracket or comma comes first.
NumbersAhead(c) ==
    LET ends(n) == Ahead(c, n + 1) \in {")", ","}
    IN  CHOOSE k \in 2 .. 4 : (k = 4 \/ ends(k)) /\ \A j \in 2 .. k - 1 : ~ends(j)

\* Mutant: z stays what it was, as m does.
TakeNumbersStale(c, n) ==
    IF \E i \in 1 .. n : ~IsNumber(Ahead(c, i)) THEN Failed(c)
    ELSE [Skip(c, n) EXCEPT !.x = strtod(c.p[1]), !.y = strtod(c.p[2]),
                            !.z = IF n >= 3 THEN strtod(c.p[3]) ELSE @,
                            !.m = IF n = 4 THEN strtod(c.p[4]) ELSE IF n = 3 THEN 0 ELSE @,
                            !.foundZ = @ \/ n >= 3, !.foundM = @ \/ n = 4]

\* A coordinate of two numbers ends before m is assigned: m stays what it was.
TakeNumbers(c, n) ==
    IF \E i \in 1 .. n : ~IsNumber(Ahead(c, i)) THEN Failed(c)
    ELSE [Skip(c, n) EXCEPT !.x = strtod(c.p[1]), !.y = strtod(c.p[2]),
                            !.z = IF n >= 3 THEN strtod(c.p[3]) ELSE 0,
                            !.m = IF n = 4 THEN strtod(c.p[4]) ELSE IF n = 3 THEN 0 ELSE @,
                            !.foundZ = @ \/ n >= 3, !.foundM = @ \/ n = 4]

FoundNumbers(c) == TakeNumbers(c, NumbersAhead(c))

decodeNumbers(c) == IF c.hasZ \/ c.hasM THEN DeclaredNumbers(c) ELSE FoundNumbers(c)

appendType(c, type) == Grow(c, <<TypeCell(TypeCode(type), c.hasZ, c.hasM)>>)

\* The first coordinate decides on the numbers of all of them, and on the type cell.
appendCoord(c) ==
    LET z == IF c.writtenCoord THEN c.mustZ ELSE c.hasZ \/ c.foundZ
        m == IF c.writtenCoord THEN c.mustM ELSE c.hasM \/ c.foundM
        type == readhdr(c.g, 1).type
    IN  [Grow(c, <<c.x, c.y>> \o (IF z THEN <<c.z>> ELSE <<>>) \o (IF m THEN <<c.m>> ELSE <<>>))
            EXCEPT !.g[2] = TypeCell(TypeCode(type), z, m), !.mustZ = z, !.mustM = m,
                   !.writtenCoord = TRUE]

PointEnd(c) == IF Ahead(c, 1) = ")" THEN appendCoord(Skip(c, 1)) ELSE Failed(c)

PointBody(c) ==
    IF c.isEmpty THEN appendCoord(c) ELSE Then(decodeNumbers(Skip(c, 1)), PointEnd)

geomDecodePoint(c) ==
    Then(decodeHead(c), LAMBDA head : PointBody(appendType(head, "POINT")))

-----------------------------------------------------------------------------
(***************************************************************************)
(* The elements of a series may be series or, in a collection, geometries: *)
(* series is the reader of those, a function of the context, the level,    *)
(* the position of the count and what has been counted.                    *)
(***************************************************************************)
\* Mutant: the buffer of a member is not freed.
TakeMemberLeak(c, member) ==
    IF member.err # "none" THEN [c EXCEPT !.err = member.err, !.heap = @ + member.heap]
    ELSE [Grow(Skip(c, member.read), member.g) EXCEPT !.heap = @ + member.heap]

\* The buffer of a geometry of a collection is copied and freed.
TakeMember(c, member) ==
    IF member.err # "none" THEN [c EXCEPT !.err = member.err, !.heap = @ + member.heap]
    ELSE [Grow(Skip(c, member.read), member.g) EXCEPT !.heap = @ + member.heap - 1]

decodeSeriesSegment(series, c, level) ==
    LET d == Grow(c, <<0>>)
    IN  CASE c.isEmpty -> d
          [] ~c.isEmpty /\ Ahead(d, 1) # "(" -> Failed(d)
          [] ~c.isEmpty /\ Ahead(d, 1) = "(" /\ Ahead(d, 2) = ")" -> Skip(d, 2)
          [] OTHER -> series[<<Skip(d, 1), level, Len(d.g), 0>>]

geomDecodeSeries(series, c, type) ==
    Then(decodeHead(c), LAMBDA head : decodeSeriesSegment(series, appendType(head, type), Level(type)))

geomDecodeGeometry(series, c) ==
    LET name == Ahead(c, 1)
    IN  CASE name = "POINT" -> geomDecodePoint(Skip(c, 1))
          [] name \in Range(GeomTypes) \ {"POINT"} -> geomDecodeSeries(series, Skip(c, 1), name)
          [] OTHER -> Failed(c)

\* What a call of the reader returns, and the blocks it leaves behind.
Outcome(err, g, read, heap) == [err |-> err, g |-> g, read |-> read, heap |-> heap]

Returned(c, text, leaveOpen) ==
    CASE c.err # "none" -> Outcome(c.err, <<>>, 0, c.heap - 1)
      [] c.err = "none" /\ ~leaveOpen /\ c.p # <<>> -> Outcome("input", <<>>, 0, c.heap - 1)
      [] OTHER -> Outcome("none", c.g, Len(text) - Len(c.p), c.heap)

geomDecodeWKTInner(series, text, leaveOpen) ==
    IF text = <<>> THEN Outcome("input", <<>>, 0, 0)
    ELSE Returned(geomDecodeGeometry(series, NewContext(text)), text, leaveOpen)

DecodeElement(series, c, level) ==
    CASE level < 0 -> TakeMember(c, geomDecodeWKTInner(series, c.p, TRUE))
      [] level = 0 -> Then(decodeNumbers(c), appendCoord)
      [] OTHER -> decodeSeriesSegment(series, c, level - 1)

\* Mutant: the last element is not counted.
SeriesElementsFew(series, c, level, szpos, sz) ==
    Then(DecodeElement(series, c, level),
         LAMBDA d : CASE Ahead(d, 1) = "," -> series[<<Skip(d, 1), level, szpos, sz + 1>>]
                      [] Ahead(d, 1) = ")" -> [Skip(d, 1) EXCEPT !.g[szpos] = sz]
                      [] OTHER -> Failed(d))

\* The loop: sz elements are read, and one begins here; their number goes to szpos.
SeriesElements(series, c, level, szpos, sz) ==
    Then(DecodeElement(series, c, level),
         LAMBDA d : CASE Ahead(d, 1) = "," -> series[<<Skip(d, 1), level, szpos, sz + 1>>]
                      [] Ahead(d, 1) = ")" -> [Skip(d, 1) EXCEPT !.g[szpos] = sz + 1]
                      [] OTHER -> Failed(d))

\* The reader of series that calls itself at most n deep.
Series[n \in Nat] ==
    [call \in Context \X (-1 .. 2) \X Nat \X Nat |->
        IF n = 0 THEN Failed(call[1])
        ELSE SeriesElements(Series[n - 1], call[1], call[2], call[3], call[4])]

\* Each call takes a token, so that there are not more of them than tokens.
geomDecodeWKT(text) == geomDecodeWKTInner(Series[Len(text)], text, FALSE)

-----------------------------------------------------------------------------
(***************************************************************************)
(* The writer: a text and the position behind what was read.               *)
(***************************************************************************)
Written(text, at) == [text |-> text, at |-> at]

Coordinate(g, at, dims) == [i \in 1 .. dims |-> dstr(g[at + i - 1])]

AddElement(w, i, element) ==
    Written(w.text \o (IF i = 1 THEN <<>> ELSE <<",">>) \o element.text, element.at)

Closed(w) == Written(Append(w.text, ")"), w.at)

\* Nothing between the brackets if the count is 0, and commas between elements; element is
\* the writer of what is at a position.
EncodeList(element, g, at) ==
    LET list[k \in 0 .. CountAt(g, at)] ==
            IF k = 0 THEN Written(<<"(">>, at + 1)
            ELSE LET w == list[k - 1] IN AddElement(w, k, element[w.at])
    IN  Closed(list[CountAt(g, at)])

EncodeCoordinate(g, at, dims) == Written(Coordinate(g, at, dims), at + dims)

EncodeSeries(g, at, level, dims) ==
    LET element[l \in Nat] == [p \in Nat |->
            IF l = 0 THEN EncodeCoordinate(g, p, dims) ELSE EncodeList(element[l - 1], g, p)]
    IN  element[level + 1][at]

\* Mutant: M is never shown, as Z and ZM are not.
TypeWordsNoM(h) == <<h.type>>

\* With the options of all callers, only M without Z is shown: three and four numbers speak
\* for themselves.
TypeWords(h) == IF h.m /\ ~h.z THEN <<h.type, "M">> ELSE <<h.type>>

\* members is the writer of the geometries in a collection.
EncodeGeometry(members, g, at) ==
    LET h == readhdr(g, at)
        body == CASE h.type = "POINT" ->
                         Closed(Written(<<"(">> \o Coordinate(g, at + 2, Dims(h)), at + 2 + Dims(h)))
                  [] h.type = "GEOMETRYCOLLECTION" -> EncodeList(members, g, at + 2)
                  [] OTHER -> EncodeSeries(g, at + 2, Level(h.type), Dims(h))
    IN  Written(TypeWords(h) \o body.text, body.at)

\* By how deep geometries are nested in others: never deeper than g has cells.
geomEncodeWKTInner(g, at) ==
    LET inner[depth \in Nat] == [p \in Nat |->
            IF depth = 0 THEN Written(<<>>, p) ELSE EncodeGeometry(inner[depth - 1], g, p)]
    IN  inner[Len(g)][at]

geomEncodeWKT(g) == geomEncodeWKTInner(g, 1).text
=============================================================================
