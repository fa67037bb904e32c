------------------------------ MODULE GeoJson -------------------------------
(***************************************************************************)
(* GeoJSON to the binary form (geom_json.c) and back (geom.c).  A JSON     *)
(* value is the tree that the reader of json.c gives: a record of its kind *)
(* and what belongs to it; the members of an object are a sequence, as     *)
(* names may occur more than once.                                         *)
(***************************************************************************)
EXTENDS Binary

JsonNumber(n) == [kind |-> "number", number |-> n]
JsonString(s) == [kind |-> "string", string |-> s]
JsonArray(items) == [kind |-> "array", items |-> items]
JsonObject(members) == [kind |-> "object", members |-> members]
JsonMember(name, value) == [name |-> name, value |-> value]
JsonNull == [kind |-> "null"]

\* The names of the types, in the order of their codes.
JsonTypes == <<"Point", "LineString", "Polygon", "MultiPoint", "MultiLineString",
               "MultiPolygon", "GeometryCollection">>

CONSTANT Strings  \* the strings of JSON values

ASSUME StringsAssumption ==
    Range(JsonTypes) \union {"", "type", "coordinates", "geometries"} \subseteq Strings

\* Values that are nested at most depth deep.
Json[depth \in Nat] ==
    LET below == IF depth = 0 THEN {} ELSE Json[depth - 1]
    IN  {JsonNull} \union [kind : {"number"}, number : 0 .. 9] \union [kind : {"string"}, string : Strings]
        \union [kind : {"array"}, items : Seq(below)]
        \union [kind : {"object"}, members : Seq([name : Strings, value : below])]

IsArray(value) == value.kind = "array"

-----------------------------------------------------------------------------
(***************************************************************************)
(* Reading.  A writer holds the buffer, the dimensions of the first        *)
(* position, whether it has failed, and the blocks held, as in Wkt.        *)
(***************************************************************************)
NewWriter(code) == [b |-> <<LittleEndian, code>>, rdims |-> 0, ok |-> TRUE, heap |-> 1]

WriteCells(w, cells) == [w EXCEPT !.b = @ \o cells]

Refused(w) == [w EXCEPT !.ok = FALSE]

IsPosition(value) ==
    /\ IsArray(value)
    /\ Len(value.items) \in 2 .. 4
    /\ \A i \in DOMAIN value.items : value.items[i].kind = "number"

\* The fourth number goes nowhere: m stays 0.
jsonGetPosition(value) ==
    [i \in DOMAIN value.items |-> IF i <= 3 THEN value.items[i].number ELSE 0]

\* A position of three or four numbers is one of Z, or of Z and M.
DimsOffset(dims) == CASE dims = 2 -> 0 [] dims = 3 -> 1000 [] dims = 4 -> 3000

WriteCoord(w, value) ==
    IF ~IsPosition(value) THEN Refused(w)
    ELSE LET dims == Len(value.items)
             first == w.rdims = 0
         IN  IF ~first /\ dims # w.rdims THEN Refused(w)
             ELSE [WriteCells(w, jsonGetPosition(value)) EXCEPT
                      !.rdims = dims, !.b[2] = IF first THEN @ + DimsOffset(dims) ELSE @]

\* A geometry of a collection, copied and freed.
TakeGeometry(w, member) ==
    IF ~member.ok THEN [Refused(w) EXCEPT !.heap = @ + member.heap]
    ELSE [WriteCells(w, member.b) EXCEPT !.heap = @ + member.heap - 1]

\* The first element that is refused ends the loop.
WriteItems(w, value, WriteItem(_, _)) ==
    IF ~IsArray(value) THEN Refused(w)
    ELSE LET written[k \in 0 .. Len(value.items)] ==
                 IF k = 0 THEN WriteCells(w, <<Len(value.items)>>)
                 ELSE LET v == written[k - 1] IN IF v.ok THEN WriteItem(v, value.items[k]) ELSE v
         IN  written[Len(value.items)]

\* The macros for arrays of positions, of arrays of them, and of arrays of those.
WriteMulti1(w, value) == WriteItems(w, value, WriteCoord)
WriteMulti2(w, value) == WriteItems(w, value, WriteMulti1)
WriteMulti3(w, value) == WriteItems(w, value, WriteMulti2)

WriteCoords(w, value, level) ==
    CASE level = 0 -> WriteMulti1(w, value)
      [] level = 1 -> WriteMulti2(w, value)
      [] level = 2 -> WriteMulti3(w, value)

\* decode is the reader of the geometries in a collection.
WriteGeometries(decode, w, value) ==
    WriteItems(w, value, LAMBDA v, item : TakeGeometry(v, decode[item]))

\* The places of the members of a name that have a value of a kind.
PlacesOf(value, name, kind) ==
    {i \in DOMAIN value.members : value.members[i].name = name /\ value.members[i].value.kind = kind}

\* Mutant: the first of them.
LookupFirst(value, name, kind, default) ==
    LET found == PlacesOf(value, name, kind)
    IN  IF found = {} THEN default ELSE value.members[Min(found)].value

\* The last of them.
Lookup(value, name, kind, default) ==
    LET found == PlacesOf(value, name, kind)
    IN  IF found = {} THEN default ELSE value.members[Max(found)].value

NoGeometry == [ok |-> FALSE, heap |-> 0]

Decoded(w) == [ok |-> TRUE, b |-> w.b, heap |-> w.heap]

\* A buffer is freed on the way out of a failure.
Finished(w) == IF w.ok THEN Decoded(w) ELSE [NoGeometry EXCEPT !.heap = w.heap - 1]

jsonDecodePoint(coords) ==
    IF ~IsPosition(coords) THEN NoGeometry
    ELSE Decoded(WriteCoord(NewWriter(TypeCode("POINT")), coords))

DecodeObject(decode, value) ==
    LET name == Lookup(value, "type", "string", JsonString("")).string
        code == CHOOSE n \in DOMAIN JsonTypes : JsonTypes[n] = name
        coordinates == Lookup(value, "coordinates", "array", JsonNull)
        geometries == Lookup(value, "geometries", "array", JsonNull)
    IN  CASE name = "Point" -> jsonDecodePoint(coordinates)
          [] name = "GeometryCollection" -> Finished(WriteGeometries(decode, NewWriter(code), geometries))
          [] name \in Range(JsonTypes) \ {"Point", "GeometryCollection"} ->
                 Finished(WriteCoords(NewWriter(code), coordinates, Level(GeomTypes[code])))
          [] OTHER -> NoGeometry

\* Values of no depth have no members.
jsonDecodeAny[depth \in Nat] ==
    [value \in Json[depth] |->
        IF value.kind # "object" \/ depth = 0 THEN NoGeometry
        ELSE DecodeObject(jsonDecodeAny[depth - 1], value)]

-----------------------------------------------------------------------------
(***************************************************************************)
(* Writing: a value and the position behind what was read.                 *)
(***************************************************************************)
Encoded(value, at) == [value |-> value, at |-> at]

\* Mutant: z is never written.
PositionFlat(g, at, h) ==
    JsonArray(<<JsonNumber(g[at]), JsonNumber(g[at + 1])>>)

\* m is the fourth number, whatever the third.
Position(g, at, h) ==
    LET n(i) == JsonNumber(g[at + i - 1])
    IN  JsonArray(<<n(1), n(2)>>
                  \o (IF h.z THEN <<n(3)>> ELSE IF h.m THEN <<JsonNumber(0)>> ELSE <<>>)
                  \o (IF h.m THEN <<n(Dims(h))>> ELSE <<>>))

AddItem(e, item) == Encoded(JsonArray(Append(e.value.items, item.value)), item.at)

\* item is the writer of what is at a position.
EncodeArray(item, g, at) ==
    LET array[k \in 0 .. CountAt(g, at)] ==
            IF k = 0 THEN Encoded(JsonArray(<<>>), at + 1)
            ELSE LET e == array[k - 1] IN AddItem(e, item[e.at])
    IN  array[CountAt(g, at)]

EncodePosition(g, at, h) == Encoded(Position(g, at, h), at + Dims(h))

EncodeArrays(g, at, level, h) ==
    LET item[l \in Nat] == [p \in Nat |->
            IF l = 0 THEN EncodePosition(g, p, h) ELSE EncodeArray(item[l - 1], g, p)]
    IN  item[level + 1][at]

JsonGeometryObject(type, name, body) ==
    Encoded(JsonObject(<<JsonMember("type", JsonString(JsonTypes[TypeCode(type)])),
                         JsonMember(name, body.value)>>), body.at)

\* members is the writer of the geometries in a collection.
EncodeObject(members, g, at) ==
    LET h == readhdr(g, at)
    IN  CASE h.type = "POINT" ->
                 JsonGeometryObject(h.type, "coordinates", EncodePosition(g, at + 2, h))
          [] h.type = "GEOMETRYCOLLECTION" ->
                 JsonGeometryObject(h.type, "geometries", EncodeArray(members, g, at + 2))
          [] OTHER ->
                 JsonGeometryObject(h.type, "coordinates", EncodeArrays(g, at + 2, Level(h.type), h))

\* By how deep geometries are nested in others: never deeper than g has cells.
geomEncodeJSONInner(g, at) ==
    LET inner[depth \in Nat] == [p \in Nat |->
            IF depth = 0 THEN Encoded(JsonNull, p) ELSE EncodeObject(inner[depth - 1], g, p)]
    IN  inner[Len(g)][at]

geomEncodeJSON(g) == geomEncodeJSONInner(g, 1).value
=============================================================================
