------------------------------ MODULE Grammar -------------------------------
(***************************************************************************)
(* WKT and GeoJSON by their shape: the reference that Wkt and GeoJson are  *)
(* checked by.  A text is cut at the commas outside of its brackets, where *)
(* the code moves a cursor through it.                                     *)
(***************************************************************************)
EXTENDS Integers, SequencesExt, FiniteSetsExt

Words == {"Z", "M", "ZM"}
Numerals == <<"0", "1", "2", "3", "4", "5", "6", "7", "8", "9">>

\* Stands for a number that the text does not give; any stands for one that nobody knows.
Unknown == -1

ValueOf(token) ==
    IF token = "any" THEN Unknown ELSE (CHOOSE n \in DOMAIN Numerals : Numerals[n] = token) - 1

IsNumeral(token) == token = "any" \/ \E n \in DOMAIN Numerals : Numerals[n] = token

\* Types by the nesting of their coordinates, with the codes of the OGC.
Shape(name) ==
    CASE name = "POINT" -> [code |-> 1, depth |-> 0]
      [] name = "LINESTRING" -> [code |-> 2, depth |-> 1]
      [] name = "POLYGON" -> [code |-> 3, depth |-> 2]
      [] name = "MULTIPOINT" -> [code |-> 4, depth |-> 1]
      [] name = "MULTILINESTRING" -> [code |-> 5, depth |-> 2]
      [] name = "MULTIPOLYGON" -> [code |-> 6, depth |-> 3]
      [] OTHER -> [code |-> 7, depth |-> 1]

Names == {"POINT", "LINESTRING", "POLYGON", "MULTIPOINT", "MULTILINESTRING", "MULTIPOLYGON",
          "GEOMETRYCOLLECTION"}

Depth(s, i) ==
    Cardinality({j \in 1 .. i : s[j] = "("}) - Cardinality({j \in 1 .. i : s[j] = ")"})

Bracketed(s) ==
    /\ Len(s) >= 2
    /\ s[1] = "(" /\ Depth(s, Len(s)) = 0
    /\ \A i \in 1 .. Len(s) - 1 : Depth(s, i) >= 1

Inside(s) == SubSeq(s, 2, Len(s) - 1)

\* The pieces between the commas of the outermost level.
Pieces(s) ==
    LET commas == {i \in DOMAIN s : s[i] = "," /\ Depth(s, i) = 0}
        cuts == SetToSortSeq(commas \union {0, Len(s) + 1}, <)
    IN  IF s = <<>> THEN <<>>
        ELSE [k \in 1 .. Len(cuts) - 1 |-> SubSeq(s, cuts[k] + 1, cuts[k + 1] - 1)]

WordOf(s) == IF Len(s) >= 2 /\ s[2] \in Words THEN s[2] ELSE ""
BodyOf(s) == SubSeq(s, IF WordOf(s) = "" THEN 2 ELSE 3, Len(s))

\* How many numbers a coordinate may have under a word.
Sizes(word) ==
    CASE word \in {"Z", "M"} -> {3}
      [] word = "ZM" -> {4}
      [] OTHER -> 2 .. 4

IsCoordinate(s, word) == Len(s) \in Sizes(word) /\ \A i \in DOMAIN s : IsNumeral(s[i])

RECURSIVE IsGeometry(_), IsBody(_, _, _, _)

IsBody(s, name, depth, word) ==
    /\ Bracketed(s)
    /\ \A piece \in Range(Pieces(Inside(s))) :
          CASE name = "GEOMETRYCOLLECTION" -> IsGeometry(piece)
            [] name # "GEOMETRYCOLLECTION" /\ depth > 1 -> IsBody(piece, name, depth - 1, word)
            [] OTHER -> IsCoordinate(piece, word)

IsGeometry(s) ==
    /\ s # <<>> /\ s[1] \in Names
    /\ \/ BodyOf(s) = <<"EMPTY">>
       \/ s[1] # "POINT" /\ IsBody(BodyOf(s), s[1], Shape(s[1]).depth, WordOf(s))
       \/ /\ s[1] = "POINT" /\ Bracketed(BodyOf(s))
          /\ IsCoordinate(Inside(BodyOf(s)), WordOf(s))

-----------------------------------------------------------------------------
(***************************************************************************)
(* The binary form that a text of the grammar stands for.  What coordinates *)
(* have is what the word says or, without one, what the first one has: in  *)
(* the others, numbers beyond it do not count, and a missing Z is 0.       *)
(***************************************************************************)
RECURSIVE Coordinates(_, _, _)

\* The coordinates of a body, from left to right.
Coordinates(s, name, depth) ==
    IF depth = 0 THEN <<s>>
    ELSE FlattenSeq([k \in DOMAIN Pieces(Inside(s)) |->
                        Coordinates(Pieces(Inside(s))[k], name, depth - 1)])

DimensionsOf(s) ==
    LET word == WordOf(s)
        depth == Shape(s[1]).depth
        all == IF s[1] = "POINT" THEN <<Inside(BodyOf(s))>> ELSE Coordinates(BodyOf(s), s[1], depth)
    IN  CASE word # "" -> word
          [] word = "" /\ (BodyOf(s) = <<"EMPTY">> \/ s[1] = "GEOMETRYCOLLECTION" \/ all = <<>>) -> ""
          [] OTHER -> CASE Len(all[1]) = 2 -> "" [] Len(all[1]) = 3 -> "Z" [] Len(all[1]) = 4 -> "ZM"

Numbers(s, word, dimensions) ==
    LET given(i, default) == IF i <= Len(s) THEN ValueOf(s[i]) ELSE default
    IN  <<given(1, 0), given(2, 0)>>
        \o (CASE dimensions = "" -> <<>>
              [] dimensions = "Z" -> <<given(3, 0)>>
              [] dimensions = "M" -> <<given(3, 0)>>
              [] dimensions = "ZM" -> <<given(3, 0), given(4, Unknown)>>)

RECURSIVE Meaning(_), BodyMeaning(_, _, _, _, _)

BodyMeaning(s, name, depth, word, dimensions) ==
    LET pieces == Pieces(Inside(s))
    IN  <<Len(pieces)>> \o FlattenSeq([k \in DOMAIN pieces |->
            CASE name = "GEOMETRYCOLLECTION" -> Meaning(pieces[k])
              [] name # "GEOMETRYCOLLECTION" /\ depth > 1 ->
                     BodyMeaning(pieces[k], name, depth - 1, word, dimensions)
              [] OTHER -> Numbers(pieces[k], word, dimensions)])

Meaning(s) ==
    LET word == WordOf(s)
        dimensions == DimensionsOf(s)
        offset == CASE dimensions = "" -> 0 [] dimensions = "Z" -> 1000
                    [] dimensions = "M" -> 2000 [] dimensions = "ZM" -> 3000
        empty == BodyOf(s) = <<"EMPTY">>
    IN  <<1, Shape(s[1]).code + offset>>
        \o (CASE s[1] = "POINT" -> IF empty THEN [i \in 1 .. 2 + Len(word) |-> 0]
                                   ELSE Numbers(Inside(BodyOf(s)), word, dimensions)
              [] s[1] # "POINT" /\ empty -> <<0>>
              [] OTHER -> BodyMeaning(BodyOf(s), s[1], Shape(s[1]).depth, word, dimensions))

\* The same cells, but for those that nobody knows.
Means(cells, meaning) ==
    /\ Len(cells) = Len(meaning)
    /\ \A i \in DOMAIN cells : meaning[i] \in {cells[i], Unknown}

-----------------------------------------------------------------------------
(***************************************************************************)
(* The WKT of a GeoJSON value.  The fourth number of a position is one     *)
(* that nobody knows.                                                      *)
(***************************************************************************)
JsonName(name) ==
    CASE name = "Point" -> "POINT"
      [] name = "LineString" -> "LINESTRING"
      [] name = "Polygon" -> "POLYGON"
      [] name = "MultiPoint" -> "MULTIPOINT"
      [] name = "MultiLineString" -> "MULTILINESTRING"
      [] name = "MultiPolygon" -> "MULTIPOLYGON"
      [] name = "GeometryCollection" -> "GEOMETRYCOLLECTION"
      [] OTHER -> "unknown"

\* The member of a name with a value of a kind, whatever members of another kind there are;
\* the last one counts.
Field(value, name, kind) ==
    LET at == {i \in DOMAIN value.members :
                  value.members[i].name = name /\ value.members[i].value.kind = kind}
    IN  IF at = {} THEN [kind |-> "none"] ELSE value.members[Max(at)].value

TypeOf(value) ==
    LET type == Field(value, "type", "string")
    IN  IF type.kind = "none" THEN "unknown" ELSE JsonName(type.string)

PartsOf(value) ==
    Field(value, IF TypeOf(value) = "GEOMETRYCOLLECTION" THEN "geometries" ELSE "coordinates", "array")

IsTuple(value) ==
    /\ value.kind = "array" /\ Len(value.items) \in 2 .. 4
    /\ \A i \in DOMAIN value.items : value.items[i].kind = "number"

RECURSIVE IsNested(_, _), Tuples(_, _), IsGeoJson(_)

IsNested(value, depth) ==
    IF depth = 0 THEN IsTuple(value)
    ELSE value.kind = "array" /\ \A i \in DOMAIN value.items : IsNested(value.items[i], depth - 1)

Tuples(value, depth) ==
    IF depth = 0 THEN {value} ELSE UNION {Tuples(value.items[i], depth - 1) : i \in DOMAIN value.items}

IsGeoJson(value) ==
    /\ value.kind = "object"
    /\ TypeOf(value) # "unknown" /\ PartsOf(value).kind = "array"
    /\ LET parts == PartsOf(value)
           depth == Shape(TypeOf(value)).depth
       IN  IF TypeOf(value) = "GEOMETRYCOLLECTION"
           THEN \A i \in DOMAIN parts.items : IsGeoJson(parts.items[i])
           ELSE /\ IsNested(parts, depth)
                /\ \A s, t \in Tuples(parts, depth) : Len(s.items) = Len(t.items)

RECURSIVE WktOf(_), ArrayText(_, _)

WithCommas(texts) ==
    FoldLeft(LAMBDA s, t : IF s = <<>> THEN t ELSE s \o <<",">> \o t, <<>>, texts)

ArrayText(value, depth) ==
    IF depth = 0
    THEN [i \in DOMAIN value.items |-> IF i = 4 THEN "any" ELSE Numerals[value.items[i].number + 1]]
    ELSE <<"(">> \o WithCommas([i \in DOMAIN value.items |-> ArrayText(value.items[i], depth - 1)])
             \o <<")">>

WktOf(value) ==
    LET name == TypeOf(value)
        parts == PartsOf(value)
    IN  <<name>> \o
        CASE name = "POINT" -> <<"(">> \o ArrayText(parts, 0) \o <<")">>
          [] name = "GEOMETRYCOLLECTION" ->
                 <<"(">> \o WithCommas([i \in DOMAIN parts.items |-> WktOf(parts.items[i])]) \o <<")">>
          [] OTHER -> ArrayText(parts, Shape(name).depth)
=============================================================================
