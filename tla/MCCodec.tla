------------------------------ MODULE MCCodec -------------------------------
(***************************************************************************)
(* An instance of Codec for TLC: texts of every type, with every word, of  *)
(* few and short coordinates that differ in their dimensions, and what     *)
(* becomes of some of them when a token is lost, doubled or replaced.      *)
(***************************************************************************)
EXTENDS CodecMeaning

UpTo(n, S) == UNION {[1 .. k -> S] : k \in 0 .. n}

List(items) ==
    <<"(">> \o FoldLeft(LAMBDA s, t : IF s = <<>> THEN t ELSE s \o <<",">> \o t, <<>>, items) \o <<")">>

Given(name, word, body) == <<name>> \o (IF word = "" THEN <<>> ELSE <<word>>) \o body

AllWords == {"", "Z", "M", "ZM"}
Empty == <<"EMPTY">>

C2 == <<"1", "2">>
C3 == <<"3", "4", "5">>
C4 == <<"6", "7", "8", "9">>
Coords == {C2, C3, C4}

Flat == {List(s) : s \in UpTo(3, Coords)}
Rings == {List(<<>>), List(<<C2>>), List(<<C4, C2>>), List(<<C3, C4>>)}
Nested == {List(s) : s \in UpTo(2, Rings)}
Deeper == {List(s) : s \in UpTo(2, {List(<<>>), List(<<List(<<C2>>)>>),
                                    List(<<List(<<C4>>), List(<<C2, C3>>)>>),
                                    List(<<List(<<>>), List(<<C3>>)>>)})}

Singles ==
    {Given("POINT", word, body) : word \in AllWords, body \in {List(<<c>>) : c \in Coords} \union {Empty}}
    \union {Given(name, word, body) : name \in {"LINESTRING", "MULTIPOINT"}, word \in AllWords,
                                      body \in Flat \union {Empty}}
    \union {Given(name, word, body) : name \in {"POLYGON", "MULTILINESTRING"}, word \in AllWords,
                                      body \in Nested \union {Empty}}
    \union {Given("MULTIPOLYGON", word, body) : word \in AllWords, body \in Deeper \union {Empty}}

Members ==
    {Given("POINT", "", List(<<C2>>)), Given("POINT", "M", List(<<C3>>)),
     Given("LINESTRING", "", List(<<C4, C2>>)), Given("POINT", "", Empty),
     Given("POLYGON", "Z", List(<<List(<<C3>>), List(<<C3, C3>>)>>)),
     Given("MULTIPOLYGON", "", List(<<List(<<List(<<C2>>), List(<<C4>>)>>), List(<<>>)>>)),
     Given("LINESTRING", "ZM", Empty), Given("MULTIPOINT", "Z", List(<<C2>>))}

Collection(word, items) == Given("GEOMETRYCOLLECTION", word, List(items))

Collections ==
    {Collection(word, s) : word \in AllWords, s \in UpTo(2, Members)}
    \union {Collection("", <<x, Collection(word, s), y>>) :
                x, y \in {Given("POINT", "", List(<<C2>>)), Given("LINESTRING", "", List(<<C3, C2>>))},
                word \in {"", "M"}, s \in UpTo(2, Members)}
    \union {Collection("", <<Collection("", <<x, Collection("Z", <<y>>)>>), x>>) : x, y \in Members}
    \union {Given("GEOMETRYCOLLECTION", word, Empty) : word \in AllWords}

WellFormed == Singles \union Collections

\* A text that begins with byte 1: all of it, or with four more such bytes for a type.
Unread == {<<LittleEndian>>, <<LittleEndian, 16843009>>}

\* Texts of every type, to be damaged.
Samples ==
    {Given("POINT", word, List(<<c>>)) : word \in {"", "Z"}, c \in {C2, C3}}
    \union {Given("LINESTRING", word, List(<<C3, C3>>)) : word \in {"", "M"}}
    \union {Given("POLYGON", "", List(<<List(<<C2, C2>>), List(<<>>), List(<<C4>>)>>)),
            Given("MULTIPOLYGON", "", List(<<List(<<List(<<C2, C3>>), List(<<C2>>)>>), List(<<>>)>>)),
            Given("MULTIPOINT", "ZM", Empty),
            Collection("", <<Given("POINT", "", List(<<C2>>)), Given("LINESTRING", "Z", List(<<C3, C3>>))>>),
            Collection("", <<Collection("M", <<Given("POINT", "", Empty)>>), Given("POINT", "", List(<<C2>>))>>)}

SomeTokens == {"(", ")", ",", "1", "Z", "M", "ZM", "EMPTY", "POINT", "LINESTRING", "GEOMETRYCOLLECTION", "?"}

Lost(s) == {SubSeq(s, 1, i - 1) \o SubSeq(s, i + 1, Len(s)) : i \in DOMAIN s}
Inserted(s) == {SubSeq(s, 1, i) \o <<t>> \o SubSeq(s, i + 1, Len(s)) : i \in 0 .. Len(s), t \in SomeTokens}
Replaced(s) == {[s EXCEPT ![i] = t] : i \in DOMAIN s, t \in SomeTokens}

Damaged ==
    UNION {Lost(s) : s \in Singles} \union UNION {Lost(s) \union Inserted(s) \union Replaced(s) : s \in Samples}

-----------------------------------------------------------------------------
N(s) == JsonArray([i \in DOMAIN s |-> JsonNumber(s[i])])

P2 == N(<<1, 2>>)
P3 == N(<<3, 4, 5>>)
P4 == N(<<6, 7, 8, 9>>)
BadPositions == {N(<<1>>), N(<<1, 2, 3, 4, 5>>), JsonArray(<<JsonNumber(1), JsonString("2")>>),
                 JsonNumber(1), JsonNull, JsonObject(<<>>)}

Arrays(n, S) == {JsonArray(s) : s \in UpTo(n, S)}

FlatArrays == Arrays(2, {P2, P3, P4} \union BadPositions)
NestedArrays == Arrays(2, Arrays(1, {P2, P3}) \union {JsonArray(<<P4, P4>>), JsonArray(<<P2, P3>>), JsonNull})
DeeperArrays == Arrays(2, Arrays(1, Arrays(1, {P2, P3})) \union {JsonArray(<<JsonArray(<<P3, P3>>), JsonArray(<<>>)>>), P2})

TypeNames == Range(JsonTypes) \union {"Feature"}

JsonGeometry(name, coordinates) ==
    JsonObject(<<JsonMember("type", JsonString(name)), JsonMember("coordinates", coordinates)>>)

JsonSingles ==
    {JsonGeometry(name, a) : name \in TypeNames,
                             a \in {P2, P3, P4} \union BadPositions \union FlatArrays \union NestedArrays \union DeeperArrays}

JsonCollection(items) ==
    JsonObject(<<JsonMember("geometries", JsonArray(items)), JsonMember("type", JsonString("GeometryCollection"))>>)

JsonMembers ==
    {JsonGeometry("Point", P2), JsonGeometry("Point", P4), JsonGeometry("LineString", JsonArray(<<P3, P3>>)),
     JsonGeometry("Polygon", JsonArray(<<>>)), JsonGeometry("LineString", JsonArray(<<P2, P3>>)),
     JsonGeometry("MultiPolygon", JsonArray(<<JsonArray(<<JsonArray(<<P2>>)>>)>>)), JsonNull}

JsonCollections ==
    {JsonCollection(s) : s \in UpTo(3, JsonMembers)}
    \union {JsonCollection(<<x, JsonCollection(<<y, JsonCollection(<<z>>)>>)>>) : x, y, z \in JsonMembers}

\* Members missing, doubled, of another kind and of other names, in any order.
SomeMembers ==
    {JsonMember("type", JsonString("Point")), JsonMember("type", JsonString("LineString")),
     JsonMember("type", JsonNumber(1)), JsonMember("coordinates", P2),
     JsonMember("coordinates", JsonArray(<<P3, P3>>)), JsonMember("coordinates", JsonNull),
     JsonMember("geometries", JsonArray(<<JsonGeometry("Point", P2)>>)),
     JsonMember("bbox", N(<<0, 0, 1, 1>>)), JsonMember("type", JsonString("GeometryCollection"))}

JsonObjects == {JsonObject(s) : s \in UpTo(3, SomeMembers)}

MCJsonValues == JsonSingles \union JsonCollections \union JsonObjects

MCTokens == Vocabulary \union SomeTokens
MCStrings == TypeNames \union {"", "type", "coordinates", "geometries", "bbox", "2"}

MCTexts ==
    {WktText(s) : s \in WellFormed \union Damaged \union {<<>>}}
    \union {JsonText(FALSE, 12, v) : v \in MCJsonValues}
    \union {StoredText(cells) : cells \in Unread}
    \union {JsonText(TRUE, 2, JsonGeometry("Point", P2))}
=============================================================================
