----------------------------- MODULE CodecProofs ----------------------------
(***************************************************************************)
(* Proofs about Codec, for any texts whatever: of any tokens, any length,  *)
(* any depth of collections in collections and any JSON values.  What a    *)
(* key can hold is described by trees (Trees), each of them in all its     *)
(* forms: cells, WKT, GeoJSON.  The readers give trees or refuse; writers  *)
(* and iterators, when they begin where a tree stands, do what is said of  *)
(* it and stop where it ends.  The loops and recursive procedures of the   *)
(* code are taken turn by turn and level by level.                         *)
(***************************************************************************)
EXTENDS Codec, SequenceLemmas, TLAPS

-----------------------------------------------------------------------------
(***************************************************************************)
(* Geometries as trees.  A piece is what a coordinate, a series or a       *)
(* geometry is in each of its forms: its cells, its WKT, its GeoJSON, and  *)
(* whether there is a coordinate in it.  A geometry also has its leaves,   *)
(* which are the geometries in it that are no collections, and what it is  *)
(* after its WKT has been read again: without coordinates it has no Z, as  *)
(* nothing shows it.                                                       *)
(***************************************************************************)
Digit == 0 .. 9

Shown(s) == [i \in 1 .. Len(s) |-> dstr(s[i])]
JsonNumbers(s) == [i \in 1 .. Len(s) |-> JsonNumber(s[i])]

CoordinatePiece(s) == [cells |-> s, text |-> Shown(s), json |-> JsonArray(JsonNumbers(s)), some |-> TRUE]

Coordinates(n) == {CoordinatePiece(s) : s \in [1 .. n -> Digit]}

CellsOf(els) == [i \in 1 .. Len(els) |-> els[i].cells]
JsonsOf(els) == [i \in 1 .. Len(els) |-> els[i].json]
Separated(i, tokens) == (IF i = 1 THEN <<>> ELSE <<",">>) \o tokens
TextsOf(els) == [i \in 1 .. Len(els) |-> Separated(i, els[i].text)]
Opened(tokens) == <<"(">> \o tokens
ListText(els) == Append(Opened(FlattenSeq(TextsOf(els))), ")")

SeriesPiece(els) ==
    [cells |-> <<Len(els)>> \o FlattenSeq(CellsOf(els)), text |-> ListText(els),
     json |-> JsonArray(JsonsOf(els)),
     some |-> \E i \in 1 .. Len(els) : els[i].some]

SeriesOf(S) == {SeriesPiece(els) : els \in Seq(S)}

\* The elements at a level, of coordinates of n numbers.
Elements(level, n) ==
    CASE level = 0 -> Coordinates(n)
      [] level = 1 -> SeriesOf(Coordinates(n))
      [] level = 2 -> SeriesOf(SeriesOf(Coordinates(n)))
      [] level = 3 -> SeriesOf(SeriesOf(SeriesOf(Coordinates(n))))

TypeNames == {"POINT", "LINESTRING", "POLYGON", "MULTIPOINT", "MULTILINESTRING", "MULTIPOLYGON",
              "GEOMETRYCOLLECTION"}

Header(type, z, m) == [z |-> z, m |-> m, type |-> type]
HeadCells(h) == <<LittleEndian, TypeCell(TypeCode(h.type), h.z, h.m)>>

\* What the WKT of a geometry without coordinates says of its dimensions.
ShownHead(h) == Header(h.type, FALSE, h.m /\ ~h.z)

Bodies(h) == IF h.type = "POINT" THEN Coordinates(Dims(h)) ELSE Elements(Level(h.type) + 1, Dims(h))

BodyText(h, body) == IF h.type = "POINT" THEN Append(Opened(body.text), ")") ELSE body.text

JsonOf(h, name, json) ==
    JsonObject(<<JsonMember("type", JsonString(JsonTypes[TypeCode(h.type)])), JsonMember(name, json)>>)

LeafPiece(h, body) ==
    [head |-> h, cells |-> HeadCells(h) \o body.cells, text |-> TypeWords(h) \o BodyText(h, body),
     json |-> JsonOf(h, "coordinates", body.json), some |-> body.some,
     kept |-> HeadCells(IF body.some THEN h ELSE ShownHead(h)) \o body.cells]

Leaf(h, body) ==
    LET x == LeafPiece(h, body)
    IN  [head |-> h, cells |-> x.cells, text |-> x.text, json |-> x.json, some |-> x.some,
         kept |-> x.kept, leaves |-> <<x>>]

KeptOf(members) == [i \in 1 .. Len(members) |-> members[i].kept]
LeavesOf(members) == [i \in 1 .. Len(members) |-> members[i].leaves]

Collection(h, members) ==
    LET body == SeriesPiece(members)
    IN  [head |-> h, cells |-> HeadCells(h) \o body.cells, text |-> TypeWords(h) \o body.text,
         json |-> JsonOf(h, "geometries", body.json), some |-> body.some,
         kept |-> HeadCells(ShownHead(h)) \o (<<Len(members)>> \o FlattenSeq(KeptOf(members))),
         leaves |-> FlattenSeq(LeavesOf(members))]

\* The heads of geometries.
Heads == [z : BOOLEAN, m : BOOLEAN, type : TypeNames]
LeafHeads == {h \in Heads : h.type # "GEOMETRYCOLLECTION"}
CollectionHeads == {h \in Heads : h.type = "GEOMETRYCOLLECTION"}

\* Geometries that are nested less than depth deep.
LeavesOfHead(h) == {Leaf(h, body) : body \in Bodies(h)}
LeafTrees == UNION {LeavesOfHead(h) : h \in LeafHeads}
CollectionsOf(below) == {Collection(h, members) : h \in CollectionHeads, members \in Seq(below)}
TreesOver(below) == LeafTrees \union CollectionsOf(below)

Trees[depth \in Nat] == IF depth = 0 THEN {} ELSE TreesOver(Trees[depth - 1])

-----------------------------------------------------------------------------
(***************************************************************************)
(* The recursive functions.                                                *)
(***************************************************************************)
JsonOver(below) ==
    {JsonNull} \union [kind : {"number"}, number : 0 .. 9] \union [kind : {"string"}, string : Strings]
        \union [kind : {"array"}, items : Seq(below)]
        \union [kind : {"object"}, members : Seq([name : Strings, value : below])]

\* One item more of an array at a level, or of a collection.
WriteNext(level, decode, v, item) ==
    IF ~v.ok THEN v
    ELSE CASE level = -1 -> TakeGeometry(v, decode[item])
           [] level = 0 -> WriteCoord(v, item)
           [] level = 1 -> WriteMulti1(v, item)
           [] level = 2 -> WriteMulti2(v, item)

\* What each of them is at k, given what it is at k - 1.
Turn(call, k, below) ==
    CASE call.of = "Iterated" -> IF k = 0 THEN call.start ELSE call.step[below]
      [] call.of = "AfterSeries" ->
            [p \in Nat |-> IF k = 0 THEN p + 1 + call.dims * CountAt(call.g, p)
                           ELSE Iterated(below, p + 1, CountAt(call.g, p))]
      [] call.of = "GeometryEnd" ->
            [p \in Nat |->
                LET h == readhdr(call.g, p)
                IN  CASE h.type = "GEOMETRYCOLLECTION" ->
                             IF k = 0 THEN p ELSE Exhausted(below, geomGeometryCollectionIterator(call.g, p))
                      [] h.type = "POINT" -> p + 2 + Dims(h)
                      [] OTHER -> AfterSeries(call.g, p + 2, Level(h.type), Dims(h))]
      [] call.of = "MembersAt" ->
            IF k = 0 THEN geomGeometryCollectionIterator(call.g, call.at) ELSE geomIteratorNext(call.g, below)
      [] call.of = "Flattened" ->
            [p \in Nat |->
                CASE readhdr(call.g, p).type # "GEOMETRYCOLLECTION" -> <<p>>
                  [] readhdr(call.g, p).type = "GEOMETRYCOLLECTION" /\ k = 0 -> <<>>
                  [] OTHER -> Gathered(below, MembersAt(call.g, p))]
      [] call.of = "EncodeList" ->
            IF k = 0 THEN Written(<<"(">>, call.at + 1) ELSE AddElement(below, k, call.element[below.at])
      [] call.of = "EncodeSeries" ->
            [p \in Nat |-> IF k = 0 THEN EncodeCoordinate(call.g, p, call.dims) ELSE EncodeList(below, call.g, p)]
      [] call.of = "EncodeWKT" ->
            [p \in Nat |-> IF k = 0 THEN Written(<<>>, p) ELSE EncodeGeometry(below, call.g, p)]
      [] call.of = "Series" ->
            [c \in Context \X (-1 .. 2) \X Nat \X Nat |->
                IF k = 0 THEN Failed(c[1]) ELSE SeriesElements(below, c[1], c[2], c[3], c[4])]

      [] call.of = "Trees" -> IF k = 0 THEN {} ELSE TreesOver(below)
      [] call.of = "Json" -> JsonOver(IF k = 0 THEN {} ELSE below)
      [] call.of = "WriteItems" -> IF k = 0 THEN call.start ELSE WriteNext(call.level, call.decode, below, call.items[k])
      [] call.of = "Decode" ->
            [v \in Json[k] |-> IF v.kind # "object" \/ k = 0 THEN NoGeometry ELSE DecodeObject(below, v)]
      [] call.of = "EncodeArray" ->
            IF k = 0 THEN Encoded(JsonArray(<<>>), call.at + 1) ELSE AddItem(below, call.item[below.at])
      [] call.of = "EncodeArrays" ->
            [p \in Nat |-> IF k = 0 THEN EncodePosition(call.g, p, call.h) ELSE EncodeArray(below, call.g, p)]
      [] call.of = "EncodeJSON" ->
            [p \in Nat |-> IF k = 0 THEN Encoded(JsonNull, p) ELSE EncodeObject(below, call.g, p)]

\* f is the procedure up to level n.
Computes(call, f, n) ==
    /\ \A b : f[0] = Turn(call, 0, b)
    /\ \A l \in 1 .. n : f[l] = Turn(call, l, f[l - 1])

\* A procedure that makes no call at the leaves is a function of the level.
LEMMA Recursion ==
    ASSUME NEW call, \A a, b : Turn(call, 0, a) = Turn(call, 0, b)
    PROVE  \E f : f = [l \in Nat |-> Turn(call, l, f[l - 1])]
  <1> DEFINE P(f, n) == Computes(call, f, n)
  <1>1. \A n \in Nat : \E f : P(f, n)
    <2> DEFINE S == {n \in Nat : \E f : P(f, n)}
    <2>1. 0 \in S
      <3> DEFINE f == [l \in {0} |-> Turn(call, 0, 0)]
      <3>1. f[0] = Turn(call, 0, 0)
        OBVIOUS
      <3> HIDE DEF f
      <3>2. P(f, 0)
        <4>1. \A b : f[0] = Turn(call, 0, b)
          BY <3>1, Zenon
        <4> QED BY <4>1 DEF Computes
      <3> QED BY <3>2, Zenon
    <2>2. ASSUME NEW n \in Nat, n \in S PROVE n + 1 \in S
      <3>1. PICK f : P(f, n)
        BY <2>2
      <3> DEFINE g == [l \in 0 .. n + 1 |-> IF l <= n THEN f[l] ELSE Turn(call, l, f[l - 1])]
      <3>2. \A l \in 0 .. n : g[l] = f[l]
        OBVIOUS
      <3>3. g[n + 1] = Turn(call, n + 1, f[n])
        <4>1. n + 1 \in 0 .. n + 1 /\ ~(n + 1 <= n) /\ (n + 1) - 1 = n
          OBVIOUS
        <4> QED BY <4>1, Zenon
      <3> HIDE DEF g
      <3>4. \A b : g[0] = Turn(call, 0, b)
        <4>1. 0 \in 0 .. n
          OBVIOUS
        <4> QED BY <4>1, <3>1, <3>2, Zenon DEF Computes
      <3>5. ASSUME NEW l \in 1 .. n + 1 PROVE g[l] = Turn(call, l, g[l - 1])
        <4>1. CASE l = n + 1
          <5>1. l - 1 = n /\ n \in 0 .. n
            BY <4>1
          <5> QED BY <4>1, <5>1, <3>2, <3>3, Zenon
        <4>2. CASE l # n + 1
          <5>1. l \in 0 .. n /\ l - 1 \in 0 .. n /\ l \in 1 .. n
            BY <4>2
          <5> QED BY <5>1, <3>1, <3>2, Zenon DEF Computes
        <4> QED BY <4>1, <4>2
      <3>6. P(g, n + 1)
        BY <3>4, <3>5 DEF Computes
      <3>7. n + 1 \in Nat
        OBVIOUS
      <3> QED BY <3>6, <3>7, Zenon
    <2> HIDE DEF S
    <2>3. Nat \subseteq S
      BY <2>1, <2>2, NatSubset
    <2> QED BY <2>3 DEF S
  <1>2. ASSUME NEW m \in Nat, NEW n \in Nat, m <= n, NEW f, P(f, m), NEW g, P(g, n)
        PROVE  f[m] = g[m]
    <2> DEFINE S == {k \in 0 .. m : f[k] = g[k]}
    <2>1. 0 \in S
      <3>1. f[0] = g[0]
        BY <1>2, Zenon DEF Computes
      <3> QED BY <3>1
    <2>2. ASSUME NEW k \in 0 .. m - 1, k \in S PROVE k + 1 \in S
      <3>1. k + 1 \in 1 .. m /\ k + 1 \in 1 .. n /\ (k + 1) - 1 = k /\ k + 1 \in 0 .. m
        BY <1>2
      <3>2. f[k + 1] = Turn(call, k + 1, f[k]) /\ g[k + 1] = Turn(call, k + 1, g[k])
        BY <1>2, <3>1, Zenon DEF Computes
      <3>3. f[k] = g[k]
        BY <2>2
      <3>4. f[k + 1] = g[k + 1]
        BY <3>2, <3>3, Zenon
      <3> QED BY <3>1, <3>4
    <2>3. 0 .. m \subseteq S
      <3> HIDE DEF S
      <3> QED BY <2>1, <2>2, UpTo
    <2> QED BY <2>3
  <1> DEFINE upTo(n) == CHOOSE f : P(f, n)
             h == [n \in Nat |-> upTo(n)[n]]
  <1>3. \A n \in Nat : P(upTo(n), n)
    BY <1>1, Zenon
  <1> HIDE DEF upTo
  <1>4. \A n \in Nat : h[n] = upTo(n)[n]
    OBVIOUS
  <1>5. ASSUME NEW n \in Nat PROVE h[n] = Turn(call, n, h[n - 1])
    <2>1. CASE n = 0
      BY <2>1, <1>3, <1>4, Zenon DEF Computes
    <2>2. CASE n # 0
      <3>1. n - 1 \in Nat /\ n - 1 <= n /\ n \in 1 .. n
        BY <2>2
      <3>2. upTo(n)[n] = Turn(call, n, upTo(n)[n - 1])
        BY <3>1, <1>3, Zenon DEF Computes
      <3>3. upTo(n - 1)[n - 1] = upTo(n)[n - 1]
        BY <3>1, <1>2, <1>3
      <3> QED BY <3>1, <3>2, <3>3, <1>4, Zenon
    <2> QED BY <2>1, <2>2
  <1>6. h = [n \in Nat |-> h[n]]
    OBVIOUS
  <1> HIDE DEF h
  <1>7. h = [n \in Nat |-> Turn(call, n, h[n - 1])]
    <2>1. [n \in Nat |-> h[n]] = [n \in Nat |-> Turn(call, n, h[n - 1])]
      BY <1>5
    <2> QED BY <1>6, <2>1, Zenon
  <1> QED BY <1>7, Zenon

\* So is a loop of n turns.
LEMMA Loop ==
    ASSUME NEW call, \A a, b : Turn(call, 0, a) = Turn(call, 0, b), NEW n \in Nat
    PROVE  \E f : f = [k \in 0 .. n |-> Turn(call, k, f[k - 1])]
  <1>1. PICK h : h = [l \in Nat |-> Turn(call, l, h[l - 1])]
    BY Recursion
  <1> DEFINE f == [k \in 0 .. n |-> h[k]]
  <1>2. \A k \in 0 .. n : f[k] = Turn(call, k, f[k - 1])
    <2> SUFFICES ASSUME NEW k \in 0 .. n PROVE f[k] = Turn(call, k, f[k - 1])
      OBVIOUS
    <2>1. k \in Nat /\ f[k] = h[k] /\ h[k] = Turn(call, k, h[k - 1])
      BY <1>1
    <2>2. CASE k = 0
      BY <2>1, <2>2, Zenon
    <2>3. CASE k # 0
      <3>1. f[k - 1] = h[k - 1]
        BY <2>3
      <3> HIDE DEF f
      <3> QED BY <2>1, <3>1, Zenon
    <2> HIDE DEF f
    <2> QED BY <2>2, <2>3
  <1>3. f = [k \in 0 .. n |-> f[k]]
    OBVIOUS
  <1> HIDE DEF f
  <1>4. [k \in 0 .. n |-> f[k]] = [k \in 0 .. n |-> Turn(call, k, f[k - 1])]
    BY <1>2
  <1> QED BY <1>3, <1>4, Zenon

\* f[k] is where a step leads that is taken k times, up to n.
Walks(f, step, start, n) ==
    /\ f[0] = start
    /\ \A k \in 1 .. n : f[k] = step[f[k - 1]]

\* The turns of a step taken n times.
StepRun(f, step, start, n) == Walks(f, step, start, n) /\ Iterated(step, start, n) = f[n]

\* A step taken n times goes through the values of n turns.
LEMMA StepRuns ==
    ASSUME NEW step, NEW start, NEW n \in Nat
    PROVE  \E f : StepRun(f, step, start, n)
  <1> DEFINE c == [of |-> "Iterated", start |-> start, step |-> step]
             Body(k, below) == IF k = 0 THEN start ELSE step[below]
             after == CHOOSE f : f = [k \in 0 .. n |-> Body(k, f[k - 1])]
  <1>1. \A k, b : Turn(c, k, b) = Body(k, b)
    BY DEF Turn
  <1>2. \A a, b : Turn(c, 0, a) = Turn(c, 0, b)
    BY <1>1
  <1>3. PICK f : f = [k \in 0 .. n |-> Turn(c, k, f[k - 1])]
    <2> HIDE DEF c
    <2> QED BY <1>2, Loop
  <1>4. f = [k \in 0 .. n |-> Body(k, f[k - 1])]
    <2> HIDE DEF c, Body
    <2>1. [k \in 0 .. n |-> Turn(c, k, f[k - 1])] = [k \in 0 .. n |-> Body(k, f[k - 1])]
      BY <1>1
    <2> QED BY <1>3, <2>1, Zenon
  <1>5. after = [k \in 0 .. n |-> Body(k, after[k - 1])]
    BY <1>4, Zenon
  <1>6. Iterated(step, start, n) = after[n]
    BY Zenon DEF Iterated
  <1> HIDE DEF after
  <1>7. after[0] = start /\ \A k \in 1 .. n : after[k] = step[after[k - 1]]
    <2>1. \A k \in 0 .. n : after[k] = Body(k, after[k - 1])
      <3> HIDE DEF Body
      <3> QED BY <1>5, Zenon
    <2> QED BY <2>1
  <1>8. StepRun(after, step, start, n)
    BY <1>6, <1>7, Zenon DEF StepRun, Walks
  <1> QED BY <1>8, Zenon

\* The levels of what skips a series.
SkipRun(f, g, dims) ==
    /\ \A at, level : AfterSeries(g, at, level, dims) = f[level][at]
    /\ \A p \in Nat : f[0][p] = p + 1 + dims * CountAt(g, p)
    /\ \A l \in Nat : \A p \in Nat : f[l + 1][p] = Iterated(f[l], p + 1, CountAt(g, p))

\* The end of a series by its level, unfolded once.
LEMMA SkipRuns ==
    ASSUME NEW g, NEW dims
    PROVE  \E f : SkipRun(f, g, dims)
  <1> DEFINE c == [of |-> "AfterSeries", g |-> g, dims |-> dims]
             Body(l, below) == [p \in Nat |-> IF l = 0 THEN p + 1 + dims * CountAt(g, p)
                                              ELSE Iterated(below, p + 1, CountAt(g, p))]
             after == CHOOSE f : f = [l \in Nat |-> Body(l, f[l - 1])]
  <1>1. \A l, b : Turn(c, l, b) = Body(l, b)
    BY DEF Turn
  <1>2. \A a, b : Turn(c, 0, a) = Turn(c, 0, b)
    BY <1>1
  <1>3. PICK f : f = [l \in Nat |-> Turn(c, l, f[l - 1])]
    <2> HIDE DEF c
    <2> QED BY <1>2, Recursion
  <1>4. f = [l \in Nat |-> Body(l, f[l - 1])]
    <2> HIDE DEF c, Body
    <2>1. [l \in Nat |-> Turn(c, l, f[l - 1])] = [l \in Nat |-> Body(l, f[l - 1])]
      BY <1>1
    <2> QED BY <1>3, <2>1, Zenon
  <1>5. after = [l \in Nat |-> Body(l, after[l - 1])]
    BY <1>4, Zenon
  <1>6. \A at, level : AfterSeries(g, at, level, dims) = after[level][at]
    BY Zenon DEF AfterSeries
  <1> HIDE DEF after
  <1>7. \A l \in Nat : after[l] = Body(l, after[l - 1])
    <2> HIDE DEF Body
    <2> QED BY <1>5, Zenon
  <1>8. \A p \in Nat : after[0][p] = p + 1 + dims * CountAt(g, p)
    BY <1>7
  <1>9. ASSUME NEW l \in Nat, NEW p \in Nat
        PROVE  after[l + 1][p] = Iterated(after[l], p + 1, CountAt(g, p))
    <2>1. l + 1 \in Nat /\ l + 1 # 0 /\ (l + 1) - 1 = l
      OBVIOUS
    <2>2. after[l + 1] = Body(l + 1, after[l])
      <3> HIDE DEF Body
      <3> QED BY <2>1, <1>7, Zenon
    <2> QED BY <2>1, <2>2
  <1>10. SkipRun(after, g, dims)
    BY <1>6, <1>8, <1>9, Zenon DEF SkipRun
  <1> QED BY <1>10, Zenon

\* The turns of the iterator of a collection.
MembersRun(f, g, at) ==
    /\ f[0] = geomGeometryCollectionIterator(g, at)
    /\ \A k \in 1 .. CountAt(g, at + 2) : f[k] = geomIteratorNext(g, f[k - 1])
    /\ MembersAt(g, at) = [k \in 1 .. CountAt(g, at + 2) |-> f[k].geom]

\* The iterator of a collection goes from member to member.
LEMMA MembersRuns ==
    ASSUME NEW g, NEW at, CountAt(g, at + 2) \in Nat
    PROVE  \E f : MembersRun(f, g, at)
  <1> DEFINE n == CountAt(g, at + 2)
  <1>0. n \in Nat
    OBVIOUS
  <1> DEFINE c == [of |-> "MembersAt", g |-> g, at |-> at]
             Body(k, below) == IF k = 0 THEN geomGeometryCollectionIterator(g, at) ELSE geomIteratorNext(g, below)
             f == CHOOSE f : f = [k \in 0 .. n |-> Body(k, f[k - 1])]
  <1>1. \A k, b : Turn(c, k, b) = Body(k, b)
    BY DEF Turn
  <1>2. \A a, b : Turn(c, 0, a) = Turn(c, 0, b)
    BY <1>1
  <1>3. PICK h : h = [k \in 0 .. n |-> Turn(c, k, h[k - 1])]
    <2> HIDE DEF c, n
    <2> QED BY <1>2, <1>0, Loop
  <1>4. h = [k \in 0 .. n |-> Body(k, h[k - 1])]
    <2> HIDE DEF c, Body
    <2>1. [k \in 0 .. n |-> Turn(c, k, h[k - 1])] = [k \in 0 .. n |-> Body(k, h[k - 1])]
      BY <1>1
    <2> QED BY <1>3, <2>1, Zenon
  <1>5. f = [k \in 0 .. n |-> Body(k, f[k - 1])]
    BY <1>4, Zenon
  <1>6. MembersAt(g, at) = [k \in 1 .. n |-> f[k].geom]
    BY Zenon DEF MembersAt
  <1> HIDE DEF f
  <1>7. \A k \in 0 .. n : f[k] = Body(k, f[k - 1])
    <2> HIDE DEF Body
    <2> QED BY <1>5, Zenon
  <1>8. f[0] = geomGeometryCollectionIterator(g, at) /\ \A k \in 1 .. n : f[k] = geomIteratorNext(g, f[k - 1])
    BY <1>7
  <1>9. MembersRun(f, g, at)
    BY <1>6, <1>8, Zenon DEF MembersRun
  <1> QED BY <1>9, Zenon

\* The levels of what skips a geometry.
EndRun(f, g) ==
    /\ \A at : GeometryEnd(g, at) = f[Len(g)][at]
    /\ \A d \in Nat : \A p \in Nat :
          /\ readhdr(g, p).type = "POINT" => f[d][p] = p + 2 + Dims(readhdr(g, p))
          /\ readhdr(g, p).type \notin {"POINT", "GEOMETRYCOLLECTION"} =>
                f[d][p] = AfterSeries(g, p + 2, Level(readhdr(g, p).type), Dims(readhdr(g, p)))
          /\ readhdr(g, p).type = "GEOMETRYCOLLECTION" =>
                f[d + 1][p] = Exhausted(f[d], geomGeometryCollectionIterator(g, p))

\* The end of a geometry by its depth, unfolded once.
LEMMA EndRuns ==
    ASSUME NEW g
    PROVE  \E f : EndRun(f, g)
  <1> DEFINE c == [of |-> "GeometryEnd", g |-> g]
             Point(k, below, p) == 
                 LET h == readhdr(g, p)
                 IN  CASE h.type = "GEOMETRYCOLLECTION" ->
                              IF k = 0 THEN p ELSE Exhausted(below, geomGeometryCollectionIterator(g, p))
                       [] h.type = "POINT" -> p + 2 + Dims(h)
                       [] OTHER -> AfterSeries(g, p + 2, Level(h.type), Dims(h))
             Body(k, below) == [p \in Nat |-> Point(k, below, p)]
             f == CHOOSE f : f = [k \in Nat |-> Body(k, f[k - 1])]
  <1>1. \A k, b : Turn(c, k, b) = Body(k, b)
    BY DEF Turn
  <1>2. \A a, b : Turn(c, 0, a) = Turn(c, 0, b)
    <2>1. \A a, b, p : Point(0, a, p) = Point(0, b, p)
      OBVIOUS
    <2>2. \A a, b : Body(0, a) = Body(0, b)
      <3> HIDE DEF Point
      <3> QED BY <2>1
    <2> HIDE DEF c, Body
    <2> QED BY <1>1, <2>2, Zenon
  <1>3. PICK h : h = [k \in Nat |-> Turn(c, k, h[k - 1])]
    <2> HIDE DEF c
    <2> QED BY <1>2, Recursion
  <1>4. h = [k \in Nat |-> Body(k, h[k - 1])]
    <2> HIDE DEF c, Body
    <2>1. [k \in Nat |-> Turn(c, k, h[k - 1])] = [k \in Nat |-> Body(k, h[k - 1])]
      BY <1>1
    <2> QED BY <1>3, <2>1, Zenon
  <1>5. f = [k \in Nat |-> Body(k, f[k - 1])]
    BY <1>4, Zenon
  <1>6. \A at : GeometryEnd(g, at) = f[Len(g)][at]
    BY Zenon DEF GeometryEnd
  <1> HIDE DEF f
  <1>7. \A k \in Nat : f[k] = Body(k, f[k - 1])
    <2> HIDE DEF Body
    <2> QED BY <1>5, Zenon
  <1>8. ASSUME NEW d \in Nat, NEW p \in Nat
        PROVE  /\ readhdr(g, p).type = "POINT" => f[d][p] = p + 2 + Dims(readhdr(g, p))
               /\ readhdr(g, p).type \notin {"POINT", "GEOMETRYCOLLECTION"} =>
                     f[d][p] = AfterSeries(g, p + 2, Level(readhdr(g, p).type), Dims(readhdr(g, p)))
    <2>1. f[d] = Body(d, f[d - 1])
      <3> HIDE DEF Body
      <3> QED BY <1>7, Zenon
    <2> QED BY <2>1, <1>8
  <1>9. ASSUME NEW d \in Nat, NEW p \in Nat, readhdr(g, p).type = "GEOMETRYCOLLECTION"
        PROVE  f[d + 1][p] = Exhausted(f[d], geomGeometryCollectionIterator(g, p))
    <2>1. d + 1 \in Nat /\ d + 1 # 0 /\ (d + 1) - 1 = d
      OBVIOUS
    <2>2. f[d + 1] = Body(d + 1, f[d])
      <3> HIDE DEF Body
      <3> QED BY <2>1, <1>7, Zenon
    <2> QED BY <2>1, <2>2, <1>9
  <1>10. EndRun(f, g)
    BY <1>6, <1>8, <1>9, Zenon DEF EndRun
  <1> QED BY <1>10, Zenon

\* The levels of the flattened array.
ArrayRun(f, g) ==
    /\ \A at : geomGeometryCollectionFlattenedArray(g, at) = f[Len(g)][at]
    /\ \A d \in Nat : \A p \in Nat :
          /\ readhdr(g, p).type # "GEOMETRYCOLLECTION" => f[d][p] = <<p>>
          /\ readhdr(g, p).type = "GEOMETRYCOLLECTION" => f[d + 1][p] = Gathered(f[d], MembersAt(g, p))

\* The flattened array by its depth, unfolded once.
LEMMA ArrayRuns ==
    ASSUME NEW g
    PROVE  \E f : ArrayRun(f, g)
  <1> DEFINE c == [of |-> "Flattened", g |-> g]
             Point(k, below, p) == 
                 CASE readhdr(g, p).type # "GEOMETRYCOLLECTION" -> <<p>>
                   [] readhdr(g, p).type = "GEOMETRYCOLLECTION" /\ k = 0 -> <<>>
                   [] OTHER -> Gathered(below, MembersAt(g, p))
             Body(k, below) == [p \in Nat |-> Point(k, below, p)]
             f == CHOOSE f : f = [k \in Nat |-> Body(k, f[k - 1])]
  <1>1. \A k, b : Turn(c, k, b) = Body(k, b)
    BY DEF Turn
  <1>2. \A a, b : Turn(c, 0, a) = Turn(c, 0, b)
    <2>1. \A a, b, p : Point(0, a, p) = Point(0, b, p)
      OBVIOUS
    <2>2. \A a, b : Body(0, a) = Body(0, b)
      <3> HIDE DEF Point
      <3> QED BY <2>1
    <2> HIDE DEF c, Body
    <2> QED BY <1>1, <2>2, Zenon
  <1>3. PICK h : h = [k \in Nat |-> Turn(c, k, h[k - 1])]
    <2> HIDE DEF c
    <2> QED BY <1>2, Recursion
  <1>4. h = [k \in Nat |-> Body(k, h[k - 1])]
    <2> HIDE DEF c, Body
    <2>1. [k \in Nat |-> Turn(c, k, h[k - 1])] = [k \in Nat |-> Body(k, h[k - 1])]
      BY <1>1
    <2> QED BY <1>3, <2>1, Zenon
  <1>5. f = [k \in Nat |-> Body(k, f[k - 1])]
    BY <1>4, Zenon
  <1>6. \A at : geomGeometryCollectionFlattenedArray(g, at) = f[Len(g)][at]
    BY Zenon DEF geomGeometryCollectionFlattenedArray
  <1> HIDE DEF f
  <1>7. \A k \in Nat : f[k] = Body(k, f[k - 1])
    <2> HIDE DEF Body
    <2> QED BY <1>5, Zenon
  <1>8. ASSUME NEW d \in Nat, NEW p \in Nat, readhdr(g, p).type # "GEOMETRYCOLLECTION"
        PROVE  f[d][p] = <<p>>
    <2>1. f[d] = Body(d, f[d - 1])
      <3> HIDE DEF Body
      <3> QED BY <1>7, Zenon
    <2> QED BY <2>1, <1>8
  <1>9. ASSUME NEW d \in Nat, NEW p \in Nat, readhdr(g, p).type = "GEOMETRYCOLLECTION"
        PROVE  f[d + 1][p] = Gathered(f[d], MembersAt(g, p))
    <2>1. d + 1 \in Nat /\ d + 1 # 0 /\ (d + 1) - 1 = d
      OBVIOUS
    <2>2. f[d + 1] = Body(d + 1, f[d])
      <3> HIDE DEF Body
      <3> QED BY <2>1, <1>7, Zenon
    <2> QED BY <2>1, <2>2, <1>9
  <1>10. ArrayRun(f, g)
    BY <1>6, <1>8, <1>9, Zenon DEF ArrayRun
  <1> QED BY <1>10, Zenon

\* A list, element by element.
ListRun(f, element, g, at) ==
    /\ f[0] = Written(<<"(">>, at + 1)
    /\ \A k \in 1 .. CountAt(g, at) : f[k] = AddElement(f[k - 1], k, element[f[k - 1].at])
    /\ EncodeList(element, g, at) = Closed(f[CountAt(g, at)])

\* A list is written element by element.
LEMMA ListRuns ==
    ASSUME NEW element, NEW g, NEW at, CountAt(g, at) \in Nat
    PROVE  \E f : ListRun(f, element, g, at)
  <1> DEFINE n == CountAt(g, at)
  <1>0. n \in Nat
    OBVIOUS
  <1> DEFINE c == [of |-> "EncodeList", element |-> element, at |-> at]
             Body(k, below) == IF k = 0 THEN Written(<<"(">>, at + 1) ELSE AddElement(below, k, element[below.at])
             f == CHOOSE f : f = [k \in 0 .. n |-> Body(k, f[k - 1])]
  <1>1. \A k, b : Turn(c, k, b) = Body(k, b)
    BY DEF Turn
  <1>2. \A a, b : Turn(c, 0, a) = Turn(c, 0, b)
    BY <1>1
  <1>3. PICK h : h = [k \in 0 .. n |-> Turn(c, k, h[k - 1])]
    <2> HIDE DEF c, n
    <2> QED BY <1>2, <1>0, Loop
  <1>4. h = [k \in 0 .. n |-> Body(k, h[k - 1])]
    <2> HIDE DEF c, Body
    <2>1. [k \in 0 .. n |-> Turn(c, k, h[k - 1])] = [k \in 0 .. n |-> Body(k, h[k - 1])]
      BY <1>1
    <2> QED BY <1>3, <2>1, Zenon
  <1>5. f = [k \in 0 .. n |-> Body(k, f[k - 1])]
    BY <1>4, Zenon
  <1>6. EncodeList(element, g, at) = Closed(f[n])
    BY Zenon DEF EncodeList
  <1> HIDE DEF f
  <1>7. \A k \in 0 .. n : f[k] = Body(k, f[k - 1])
    <2> HIDE DEF Body
    <2> QED BY <1>5, Zenon
  <1>8. /\ f[0] = Written(<<"(">>, at + 1)
        /\ \A k \in 1 .. n : f[k] = AddElement(f[k - 1], k, element[f[k - 1].at])
    BY <1>7
  <1>9. ListRun(f, element, g, at)
    BY <1>6, <1>8, Zenon DEF ListRun
  <1> QED BY <1>9, Zenon

\* The levels of the writer of series.
SeriesRun(f, g, dims) ==
    /\ \A at, level : EncodeSeries(g, at, level, dims) = f[level + 1][at]
    /\ \A p \in Nat : f[0][p] = EncodeCoordinate(g, p, dims)
    /\ \A d \in Nat : \A p \in Nat : f[d + 1][p] = EncodeList(f[d], g, p)

\* The writer of a series by its level, unfolded once.
LEMMA SeriesRuns ==
    ASSUME NEW g, NEW dims
    PROVE  \E f : SeriesRun(f, g, dims)
  <1> DEFINE c == [of |-> "EncodeSeries", g |-> g, dims |-> dims]
             Body(k, below) == 
                 [p \in Nat |-> IF k = 0 THEN EncodeCoordinate(g, p, dims) ELSE EncodeList(below, g, p)]
             f == CHOOSE f : f = [k \in Nat |-> Body(k, f[k - 1])]
  <1>1. \A k, b : Turn(c, k, b) = Body(k, b)
    BY DEF Turn
  <1>2. \A a, b : Turn(c, 0, a) = Turn(c, 0, b)
    BY <1>1
  <1>3. PICK h : h = [k \in Nat |-> Turn(c, k, h[k - 1])]
    <2> HIDE DEF c
    <2> QED BY <1>2, Recursion
  <1>4. h = [k \in Nat |-> Body(k, h[k - 1])]
    <2> HIDE DEF c, Body
    <2>1. [k \in Nat |-> Turn(c, k, h[k - 1])] = [k \in Nat |-> Body(k, h[k - 1])]
      BY <1>1
    <2> QED BY <1>3, <2>1, Zenon
  <1>5. f = [k \in Nat |-> Body(k, f[k - 1])]
    BY <1>4, Zenon
  <1>6. \A at, level : EncodeSeries(g, at, level, dims) = f[level + 1][at]
    BY Zenon DEF EncodeSeries
  <1> HIDE DEF f
  <1>7. \A k \in Nat : f[k] = Body(k, f[k - 1])
    <2> HIDE DEF Body
    <2> QED BY <1>5, Zenon
  <1>8. \A p \in Nat : f[0][p] = EncodeCoordinate(g, p, dims)
    BY <1>7
  <1>9. ASSUME NEW d \in Nat, NEW p \in Nat
        PROVE  f[d + 1][p] = EncodeList(f[d], g, p)
    <2>1. d + 1 \in Nat /\ d + 1 # 0 /\ (d + 1) - 1 = d
      OBVIOUS
    <2>2. f[d + 1] = Body(d + 1, f[d])
      <3> HIDE DEF Body
      <3> QED BY <2>1, <1>7, Zenon
    <2> QED BY <2>1, <2>2
  <1>10. SeriesRun(f, g, dims)
    BY <1>6, <1>8, <1>9, Zenon DEF SeriesRun
  <1> QED BY <1>10, Zenon

\* The writer of a geometry by its depth, unfolded once.
LEMMA EncodeLevels ==
    ASSUME NEW g
    PROVE  \E f : /\ \A at : geomEncodeWKTInner(g, at) = f[Len(g)][at]
                  /\ \A d \in Nat : \A p \in Nat : f[d + 1][p] = EncodeGeometry(f[d], g, p)
  <1> DEFINE c == [of |-> "EncodeWKT", g |-> g]
             Body(k, below) == 
                 [p \in Nat |-> IF k = 0 THEN Written(<<>>, p) ELSE EncodeGeometry(below, g, p)]
             f == CHOOSE f : f = [k \in Nat |-> Body(k, f[k - 1])]
  <1>1. \A k, b : Turn(c, k, b) = Body(k, b)
    BY DEF Turn
  <1>2. \A a, b : Turn(c, 0, a) = Turn(c, 0, b)
    BY <1>1
  <1>3. PICK h : h = [k \in Nat |-> Turn(c, k, h[k - 1])]
    <2> HIDE DEF c
    <2> QED BY <1>2, Recursion
  <1>4. h = [k \in Nat |-> Body(k, h[k - 1])]
    <2> HIDE DEF c, Body
    <2>1. [k \in Nat |-> Turn(c, k, h[k - 1])] = [k \in Nat |-> Body(k, h[k - 1])]
      BY <1>1
    <2> QED BY <1>3, <2>1, Zenon
  <1>5. f = [k \in Nat |-> Body(k, f[k - 1])]
    BY <1>4, Zenon
  <1>6. \A at : geomEncodeWKTInner(g, at) = f[Len(g)][at]
    BY Zenon DEF geomEncodeWKTInner
  <1> HIDE DEF f
  <1>7. \A k \in Nat : f[k] = Body(k, f[k - 1])
    <2> HIDE DEF Body
    <2> QED BY <1>5, Zenon
  <1>9. ASSUME NEW d \in Nat, NEW p \in Nat
        PROVE  f[d + 1][p] = EncodeGeometry(f[d], g, p)
    <2>1. d + 1 \in Nat /\ d + 1 # 0 /\ (d + 1) - 1 = d
      OBVIOUS
    <2>2. f[d + 1] = Body(d + 1, f[d])
      <3> HIDE DEF Body
      <3> QED BY <2>1, <1>7, Zenon
    <2> QED BY <2>1, <2>2
  <1> QED BY <1>6, <1>9, Zenon

\* A call of the reader of a series, unfolded once.
LEMMA SeriesCalls ==
    ASSUME NEW d \in Nat, NEW c \in Context, NEW level \in -1 .. 2, NEW szpos \in Nat, NEW sz \in Nat
    PROVE  /\ Series[0][<<c, level, szpos, sz>>] = Failed(c)
           /\ Series[d + 1][<<c, level, szpos, sz>>] = SeriesElements(Series[d], c, level, szpos, sz)
  <1> DEFINE callee == [of |-> "Series"]
             Body(k, below) == 
                 [call \in Context \X (-1 .. 2) \X Nat \X Nat |->
                     IF k = 0 THEN Failed(call[1]) ELSE SeriesElements(below, call[1], call[2], call[3], call[4])]
             f == CHOOSE f : f = [k \in Nat |-> Body(k, f[k - 1])]
  <1>1. \A k, b : Turn(callee, k, b) = Body(k, b)
    BY DEF Turn
  <1>2. \A a, b : Turn(callee, 0, a) = Turn(callee, 0, b)
    BY <1>1
  <1>3. PICK h : h = [k \in Nat |-> Turn(callee, k, h[k - 1])]
    <2> HIDE DEF callee
    <2> QED BY <1>2, Recursion
  <1>4. h = [k \in Nat |-> Body(k, h[k - 1])]
    <2> HIDE DEF callee, Body
    <2>1. [k \in Nat |-> Turn(callee, k, h[k - 1])] = [k \in Nat |-> Body(k, h[k - 1])]
      BY <1>1
    <2> QED BY <1>3, <2>1, Zenon
  <1>5. f = [k \in Nat |-> Body(k, f[k - 1])]
    BY <1>4, Zenon
  <1>6. Series = f
    BY Zenon DEF Series
  <1> HIDE DEF f
  <1>7. \A k \in Nat : f[k] = Body(k, f[k - 1])
    <2> HIDE DEF Body
    <2> QED BY <1>5, Zenon
  <1>8. <<c, level, szpos, sz>> \in Context \X (-1 .. 2) \X Nat \X Nat
    OBVIOUS
  <1>9. f[0][<<c, level, szpos, sz>>] = Failed(c)
    <2>1. f[0] = Body(0, f[0 - 1])
      <3> HIDE DEF Body
      <3> QED BY <1>7, Zenon
    <2> QED BY <2>1, <1>8
  <1>10. f[d + 1][<<c, level, szpos, sz>>] = SeriesElements(f[d], c, level, szpos, sz)
    <2>1. d + 1 \in Nat /\ d + 1 # 0 /\ (d + 1) - 1 = d
      OBVIOUS
    <2>2. f[d + 1] = Body(d + 1, f[d])
      <3> HIDE DEF Body
      <3> QED BY <2>1, <1>7, Zenon
    <2> QED BY <2>1, <2>2, <1>8
  <1> QED BY <1>6, <1>9, <1>10, Zenon

-----------------------------------------------------------------------------
(***************************************************************************)
(* Types, heads and numbers.                                               *)
(***************************************************************************)
\* The names of the types and their codes.
LEMMA TypeCodes ==
    /\ DOMAIN GeomTypes = 1 .. 7
    /\ Range(GeomTypes) = TypeNames
    /\ \A type \in TypeNames : TypeCode(type) \in 1 .. 7 /\ GeomTypes[TypeCode(type)] = type
    /\ \A code \in 1 .. 7 : GeomTypes[code] \in TypeNames /\ TypeCode(GeomTypes[code]) = code
  <1>1. DOMAIN GeomTypes = 1 .. 7
    BY DEF GeomTypes
  <1>2. /\ GeomTypes[1] = "POINT" /\ GeomTypes[2] = "LINESTRING" /\ GeomTypes[3] = "POLYGON"
        /\ GeomTypes[4] = "MULTIPOINT" /\ GeomTypes[5] = "MULTILINESTRING"
        /\ GeomTypes[6] = "MULTIPOLYGON" /\ GeomTypes[7] = "GEOMETRYCOLLECTION"
    BY DEF GeomTypes
  <1>3. Range(GeomTypes) = TypeNames
    <2>1. Range(GeomTypes) = {GeomTypes[i] : i \in 1 .. 7}
      BY <1>1 DEF Range
    <2>2. 1 .. 7 = {1, 2, 3, 4, 5, 6, 7}
      OBVIOUS
    <2> HIDE DEF GeomTypes
    <2> QED BY <1>2, <2>1, <2>2 DEF TypeNames
  <1>4. ASSUME NEW type \in TypeNames
        PROVE  TypeCode(type) \in 1 .. 7 /\ GeomTypes[TypeCode(type)] = type
    <2>1. \E code \in 1 .. 7 : GeomTypes[code] = type
      BY <1>1, <1>3 DEF Range
    <2>2. \E code \in DOMAIN GeomTypes : GeomTypes[code] = type
      BY <2>1, <1>1
    <2>3. TypeCode(type) \in DOMAIN GeomTypes /\ GeomTypes[TypeCode(type)] = type
      BY <2>2, Zenon DEF TypeCode
    <2> QED BY <2>3, <1>1
  <1>5. \A i, j \in 1 .. 7 : GeomTypes[i] = GeomTypes[j] => i = j
    BY <1>2
  <1>6. ASSUME NEW code \in 1 .. 7
        PROVE  GeomTypes[code] \in TypeNames /\ TypeCode(GeomTypes[code]) = code
    <2>1. GeomTypes[code] \in TypeNames
      BY <1>2 DEF TypeNames
    <2>2. TypeCode(GeomTypes[code]) \in 1 .. 7 /\ GeomTypes[TypeCode(GeomTypes[code])] = GeomTypes[code]
      BY <2>1, <1>4
    <2> QED BY <2>1, <2>2, <1>5
  <1> QED BY <1>1, <1>3, <1>4, <1>6

\* The type cell says what it was made of.
LEMMA TypeCells ==
    ASSUME NEW code \in 1 .. 7, NEW z \in BOOLEAN, NEW m \in BOOLEAN, NEW cell, cell = TypeCell(code, z, m)
    PROVE  /\ cell \in Nat
           /\ (cell \div 1000) % 2 = 1 <=> z
           /\ cell >= 2000 <=> m
           /\ cell % 1000 = code
  BY DEF TypeCell

\* What the writer writes are tokens.
LEMMA TokensKnown == TypeNames \union {"M", "(", ")", ","} \subseteq Tokens
  BY TypeCodes, TokensAssumption DEF Vocabulary

\* The parts of a head.
LEMMA HeadParts ==
    ASSUME NEW h \in Heads
    PROVE  /\ h.type \in TypeNames /\ h.z \in BOOLEAN /\ h.m \in BOOLEAN
           /\ h = Header(h.type, h.z, h.m)
  BY DEF Heads, Header

\* A head of three parts.
LEMMA HeadOf ==
    ASSUME NEW type \in TypeNames, NEW z \in BOOLEAN, NEW m \in BOOLEAN
    PROVE  /\ Header(type, z, m) \in Heads
           /\ Header(type, z, m).type = type /\ Header(type, z, m).z = z /\ Header(type, z, m).m = m
  <1>1. Header(type, z, m) \in Heads
    BY DEF Heads, Header
  <1>2. Header(type, z, m).type = type /\ Header(type, z, m).z = z /\ Header(type, z, m).m = m
    BY Zenon DEF Header
  <1> QED BY <1>1, <1>2

\* A type cell is read as what it is.
LEMMA TypeRead ==
    ASSUME NEW type \in TypeNames, NEW z \in BOOLEAN, NEW m \in BOOLEAN, NEW g, NEW p \in Nat,
           g[p + 1] = TypeCell(TypeCode(type), z, m)
    PROVE  readhdr(g, p) = Header(type, z, m)
  <1>1. TypeCode(type) \in 1 .. 7 /\ GeomTypes[TypeCode(type)] = type
    BY TypeCodes
  <1>2. /\ (g[p + 1] \div 1000) % 2 = 1 <=> z
        /\ g[p + 1] >= 2000 <=> m
        /\ g[p + 1] % 1000 = TypeCode(type)
    BY <1>1, TypeCells
  <1>3. /\ ((g[p + 1] \div 1000) % 2 = 1) = z
        /\ (g[p + 1] >= 2000) = m
        /\ GeomTypes[g[p + 1] % 1000] = type
    BY <1>1, <1>2
  <1>4. readhdr(g, p) = [z |-> (g[p + 1] \div 1000) % 2 = 1, m |-> g[p + 1] >= 2000,
                         type |-> GeomTypes[g[p + 1] % 1000]]
    BY Zenon DEF readhdr
  <1> QED BY <1>3, <1>4 DEF Header

\* A head that stands in the cells is read as what it is.
LEMMA HeadRead ==
    ASSUME NEW h \in Heads, NEW g, NEW p \in Nat, g[p + 1] = TypeCell(TypeCode(h.type), h.z, h.m)
    PROVE  readhdr(g, p) = h
  <1>1. h.type \in TypeNames /\ h.z \in BOOLEAN /\ h.m \in BOOLEAN /\ h = Header(h.type, h.z, h.m)
    BY HeadParts
  <1>2. readhdr(g, p) = Header(h.type, h.z, h.m)
    BY <1>1, TypeRead
  <1> QED BY <1>1, <1>2, Zenon

\* The dimensions of a head.
LEMMA HeadDims ==
    ASSUME NEW h \in Heads
    PROVE  /\ Dims(h) \in 2 .. 4 /\ Dims(h) \in Nat
           /\ HeadCells(h) \in Seq(Int) /\ Len(HeadCells(h)) = 2
           /\ HeadCells(h)[1] = LittleEndian /\ HeadCells(h)[2] = TypeCell(TypeCode(h.type), h.z, h.m)
           /\ TypeWords(h) \in Seq(Tokens)
  <1>1. h.type \in TypeNames /\ h.z \in BOOLEAN /\ h.m \in BOOLEAN
    BY HeadParts
  <1>2. TypeCode(h.type) \in 1 .. 7
    BY <1>1, TypeCodes
  <1>3. TypeCell(TypeCode(h.type), h.z, h.m) \in Nat
    BY <1>1, <1>2, TypeCells
  <1>4. /\ HeadCells(h) \in Seq(Int) /\ Len(HeadCells(h)) = 2
        /\ HeadCells(h)[1] = LittleEndian /\ HeadCells(h)[2] = TypeCell(TypeCode(h.type), h.z, h.m)
    BY <1>1, <1>3 DEF HeadCells, LittleEndian
  <1>5. TypeWords(h) \in Seq(Tokens)
    <2>1. h.type \in Tokens /\ "M" \in Tokens
      BY <1>1, TokensKnown
    <2> QED BY <2>1 DEF TypeWords
  <1>7. Dims(h) \in 2 .. 4
    BY <1>1 DEF Dims
  <1> QED BY <1>4, <1>5, <1>7

\* The head that is left of one without coordinates shows the same words, and all of it is left.
LEMMA HeadShown ==
    ASSUME NEW h \in Heads
    PROVE  /\ ShownHead(h) \in Heads
           /\ ShownHead(h).type = h.type /\ ShownHead(h).z = FALSE /\ ShownHead(h).m = (h.m /\ ~h.z)
           /\ ShownHead(ShownHead(h)) = ShownHead(h) /\ TypeWords(ShownHead(h)) = TypeWords(h)
  <1>1. h.type \in TypeNames /\ h.z \in BOOLEAN /\ h.m \in BOOLEAN
    BY HeadParts
  <1> DEFINE shown == h.m /\ ~h.z
             sh == ShownHead(h)
  <1>2. shown \in BOOLEAN
    BY <1>1
  <1>3. sh = Header(h.type, FALSE, shown)
    BY Zenon DEF ShownHead
  <1>4. sh.type = h.type /\ sh.z = FALSE /\ sh.m = shown
    <2> HIDE DEF sh, shown
    <2> QED BY <1>3, Zenon DEF Header
  <1>5. sh \in Heads
    <2> HIDE DEF shown
    <2> QED BY <1>1, <1>2, <1>3 DEF Heads, Header
  <1> DEFINE again == sh.m /\ ~sh.z
  <1>6. again = shown
    <2> HIDE DEF sh, shown
    <2> QED BY <1>2, <1>4
  <1>7. ShownHead(sh) = Header(sh.type, FALSE, again)
    BY Zenon DEF ShownHead
  <1> HIDE DEF sh
  <1>8. ShownHead(sh) = sh
    <2> HIDE DEF shown, again
    <2> QED BY <1>3, <1>4, <1>6, <1>7, Zenon
  <1>9. TypeWords(sh) = TypeWords(h)
    <2>1. again <=> shown
      BY <1>6
    <2> QED BY <2>1, <1>4, Zenon DEF TypeWords
  <1> QED BY <1>4, <1>5, <1>8, <1>9 DEF sh

\* A number is read as what has been written.
LEMMA Numbers ==
    ASSUME NEW n \in Digit
    PROVE  /\ dstr(n) \in Tokens /\ IsNumber(dstr(n)) /\ strtod(dstr(n)) = n
           /\ dstr(n) \notin TypeNames \union {"M", "(", ")", ",", "EMPTY", "Z", "ZM", "end"}
  <1>1. \A i, j \in Digit : dstr(i) = dstr(j) => i = j
    BY DEF Digit, dstr, Digits
  <1>2. dstr(n) \in Tokens
    BY TokensAssumption DEF Vocabulary, Digit
  <1>3. dstr(n) \notin TypeNames \union {"M", "(", ")", ",", "EMPTY", "Z", "ZM", "end"}
    <2>1. dstr(n) \in {"0", "1", "2", "3", "4", "5", "6", "7", "8", "9"}
      BY DEF Digit, dstr, Digits
    <2> QED BY <2>1 DEF TypeNames
  <1>4. IsNumber(dstr(n))
    BY DEF IsNumber, Digit
  <1>5. strtod(dstr(n)) \in 0 .. 9 /\ dstr(strtod(dstr(n))) = dstr(n)
    BY Zenon DEF strtod, Digit
  <1>6. strtod(dstr(n)) = n
    BY <1>1, <1>5 DEF Digit
  <1> QED BY <1>2, <1>3, <1>4, <1>6

-----------------------------------------------------------------------------
(***************************************************************************)
(* Where pieces stand.                                                     *)
(***************************************************************************)
\* The cells are those of g from p on.
Stands(cells, g, p) ==
    /\ p + Len(cells) <= Len(g) + 1
    /\ \A i \in 1 .. Len(cells) : g[p + i - 1] = cells[i]

\* Two pieces stand one after the other.
LEMMA StandsBoth ==
    ASSUME NEW T, NEW a \in Seq(T), NEW b \in Seq(T), NEW g \in Seq(T), NEW p \in Nat,
           Stands(a \o b, g, p)
    PROVE  Stands(a, g, p) /\ Stands(b, g, p + Len(a))
  <1> DEFINE c == a \o b
  <1>1. /\ Len(a) \in Nat /\ Len(b) \in Nat /\ Len(g) \in Nat /\ Len(c) = Len(a) + Len(b)
        /\ \A i \in 1 .. Len(a) : c[i] = a[i]
        /\ \A i \in 1 .. Len(b) : c[Len(a) + i] = b[i]
    OBVIOUS
  <1> HIDE DEF c
  <1>2. /\ p + Len(c) <= Len(g) + 1
        /\ \A i \in 1 .. Len(c) : g[p + i - 1] = c[i]
    BY DEF Stands, c
  <1>3. Stands(a, g, p)
    <2>1. \A i \in 1 .. Len(a) : g[p + i - 1] = a[i]
      BY <1>1, <1>2
    <2> QED BY <1>1, <1>2, <2>1 DEF Stands
  <1>4. Stands(b, g, p + Len(a))
    <2>1. ASSUME NEW i \in 1 .. Len(b) PROVE g[p + Len(a) + i - 1] = b[i]
      <3>1. Len(a) + i \in 1 .. Len(c) /\ p + (Len(a) + i) - 1 = p + Len(a) + i - 1
        BY <1>1
      <3> QED BY <3>1, <1>1, <1>2
    <2> QED BY <1>1, <1>2, <2>1 DEF Stands
  <1> QED BY <1>3, <1>4

\* The pieces that are put together stand one after the other.
LEMMA StandsFlat ==
    ASSUME NEW T, NEW s \in Seq(Seq(T)), NEW g \in Seq(T), NEW p \in Nat, Stands(FlattenSeq(s), g, p),
           NEW n \in 1 .. Len(s)
    PROVE  Stands(s[n], g, p + End(s, n - 1))
  <1> DEFINE c == FlattenSeq(s)
             e == End(s, n - 1)
  <1>1. /\ End(s, n) = e + Len(s[n]) /\ End(s, n) <= Len(c)
        /\ \A j \in 1 .. Len(s[n]) : c[e + j] = s[n][j]
    BY FlattenLayout
  <1>2. e \in Nat
    BY FlattenLayout, n - 1 \in 0 .. Len(s)
  <1>3. c \in Seq(T) /\ Len(c) \in Nat /\ Len(s[n]) \in Nat /\ s[n] \in Seq(T) /\ Len(g) \in Nat
    <2>1. c \in Seq(T)
      BY FlattenSteps
    <2>2. s[n] \in Seq(T)
      OBVIOUS
    <2> HIDE DEF c
    <2> QED BY <2>1, <2>2
  <1> DEFINE l == Len(s[n])
             lc == Len(c)
             lg == Len(g)
  <1>7. e + l <= lc
    BY <1>1
  <1>8. e \in Nat /\ l \in Nat /\ lc \in Nat /\ lg \in Nat
    BY <1>2, <1>3
  <1> HIDE DEF c, e
  <1>4. p + Len(c) <= Len(g) + 1 /\ \A i \in 1 .. Len(c) : g[p + i - 1] = c[i]
    BY DEF Stands, c
  <1>5. ASSUME NEW j \in 1 .. Len(s[n]) PROVE g[p + e + j - 1] = s[n][j]
    <2>1. e + j \in 1 .. Len(c) /\ p + (e + j) - 1 = p + e + j - 1
      <3> HIDE DEF l, lc
      <3>1. j \in 1 .. l
        BY DEF l
      <3>2. e + j \in 1 .. lc /\ p + (e + j) - 1 = p + e + j - 1
        BY <3>1, <1>7, <1>8
      <3> QED BY <3>2 DEF lc
    <2> QED BY <2>1, <1>1, <1>4
  <1>6. p + e + Len(s[n]) <= Len(g) + 1
    <2>1. p + lc <= lg + 1
      BY <1>4
    <2> HIDE DEF l, lc, lg
    <2>2. p + e + l <= lg + 1
      BY <2>1, <1>7, <1>8
    <2> QED BY <2>2 DEF l, lg
  <1> QED BY <1>5, <1>6 DEF Stands, e

\* What stands in the cells is a part of them.
LEMMA StandsPart ==
    ASSUME NEW T, NEW a \in Seq(T), NEW g \in Seq(T), NEW p \in Nat \ {0}, Stands(a, g, p)
    PROVE  SubSeq(g, p, p + Len(a) - 1) = a
  <1> DEFINE b == SubSeq(g, p, p + Len(a) - 1)
  <1>1. Len(a) \in Nat /\ Len(g) \in Nat /\ p + Len(a) <= Len(g) + 1
    BY DEF Stands
  <1>2. b \in Seq(T) /\ Len(b) = Len(a)
    <2>1. \A i \in p .. p + Len(a) - 1 : g[i] \in T
      BY <1>1
    <2> QED BY <1>1, <2>1, SubSeqProperties
  <1>3. \A i \in 1 .. Len(a) : b[i] = a[i]
    BY <1>1 DEF Stands
  <1> HIDE DEF b
  <1>4. b = a
    BY <1>2, <1>3, SeqEqual
  <1> QED BY <1>4 DEF b

\* A whole stands at its beginning.
LEMMA StandsWhole == ASSUME NEW T, NEW g \in Seq(T) PROVE Stands(g, g, 1)
  BY DEF Stands

-----------------------------------------------------------------------------
(***************************************************************************)
(* The forms of pieces.                                                    *)
(***************************************************************************)
Shaped(x) == x.cells \in Seq(Int) /\ x.text \in Seq(Tokens)

\* A coordinate is as many cells and tokens as it has numbers.
LEMMA CoordinateShape ==
    ASSUME NEW n \in Nat, NEW s \in [1 .. n -> Digit], NEW x, x = CoordinatePiece(s)
    PROVE  /\ Shaped(x) /\ x.some = TRUE
           /\ x.cells = s /\ Len(s) = n /\ s \in Seq(Int)
           /\ x.text = Shown(s) /\ Len(x.text) = n /\ \A i \in 1 .. n : x.text[i] = dstr(s[i])
           /\ x.json = JsonArray(JsonNumbers(s))
  <1>1. s \in Seq(Digit) /\ Len(s) = n
    OBVIOUS
  <1>2. s \in Seq(Int)
    BY <1>1 DEF Digit
  <1>3. \A i \in 1 .. n : dstr(s[i]) \in Tokens
    BY <1>1, Numbers
  <1>4. [i \in 1 .. n |-> dstr(s[i])] \in Seq(Tokens) /\ Len([i \in 1 .. n |-> dstr(s[i])]) = n
    BY <1>3
  <1>5. x.cells = s /\ x.text = Shown(s) /\ x.some = TRUE /\ x.json = JsonArray(JsonNumbers(s))
    BY Zenon DEF CoordinatePiece
  <1>6. x.text = [i \in 1 .. n |-> dstr(s[i])]
    BY <1>1, <1>5, Zenon DEF Shown
  <1>7. Shaped(x)
    BY <1>2, <1>4, <1>5, <1>6, Zenon DEF Shaped
  <1>8. Len(x.text) = n
    BY <1>4, <1>6, Zenon
  <1>9. \A i \in 1 .. n : x.text[i] = dstr(s[i])
    BY <1>6
  <1> QED BY <1>1, <1>2, <1>5, <1>7, <1>8, <1>9, Zenon

\* The parts of a series.
LEMMA SeriesParts ==
    ASSUME NEW S, \A x \in S : Shaped(x), NEW els \in Seq(S)
    PROVE  /\ Len(els) \in Nat
           /\ \A i \in 1 .. Len(els) : els[i] \in S /\ Shaped(els[i])
           /\ CellsOf(els) \in Seq(Seq(Int)) /\ Len(CellsOf(els)) = Len(els)
           /\ TextsOf(els) \in Seq(Seq(Tokens)) /\ Len(TextsOf(els)) = Len(els)
           /\ \A i \in 1 .. Len(els) : /\ CellsOf(els)[i] = els[i].cells
                                       /\ TextsOf(els)[i] = Separated(i, els[i].text)
           /\ FlattenSeq(CellsOf(els)) \in Seq(Int)
           /\ FlattenSeq(TextsOf(els)) \in Seq(Tokens)
  <1> DEFINE n == Len(els)
  <1>1. n \in Nat /\ \A i \in 1 .. n : els[i] \in S /\ Shaped(els[i])
    OBVIOUS
  <1>2. \A i \in 1 .. n : els[i].cells \in Seq(Int) /\ els[i].text \in Seq(Tokens)
    BY <1>1 DEF Shaped
  <1> HIDE DEF n
  <1>3. CellsOf(els) = [i \in 1 .. n |-> els[i].cells] /\ TextsOf(els) = [i \in 1 .. n |-> Separated(i, els[i].text)]
    BY Zenon DEF CellsOf, TextsOf, n
  <1>4. CellsOf(els) \in Seq(Seq(Int)) /\ Len(CellsOf(els)) = n /\ \A i \in 1 .. n : CellsOf(els)[i] = els[i].cells
    BY <1>1, <1>2, <1>3
  <1>5. \A i \in 1 .. n : Separated(i, els[i].text) \in Seq(Tokens)
    <2>0. "," \in Tokens
      BY TokensKnown
    <2>1. <<>> \in Seq(Tokens) /\ <<",">> \in Seq(Tokens)
      <3>1. <<>> \in Seq(Tokens)
        OBVIOUS
      <3>2. \A t \in Tokens : <<t>> \in Seq(Tokens)
        OBVIOUS
      <3>3. <<",">> \in Seq(Tokens)
        BY <2>0, <3>2, Zenon
      <3> QED BY <3>1, <3>3
    <2> SUFFICES ASSUME NEW i \in 1 .. n PROVE Separated(i, els[i].text) \in Seq(Tokens)
      OBVIOUS
    <2>2. <<>> \o els[i].text \in Seq(Tokens) /\ <<",">> \o els[i].text \in Seq(Tokens)
      BY <2>1, <1>2, ConcatProperties
    <2> QED BY <2>2 DEF Separated
  <1>6. TextsOf(els) \in Seq(Seq(Tokens)) /\ Len(TextsOf(els)) = n
    BY <1>1, <1>3, <1>5
  <1>7. \A i \in 1 .. n : TextsOf(els)[i] = Separated(i, els[i].text)
    BY <1>3
  <1>8. FlattenSeq(CellsOf(els)) \in Seq(Int) /\ FlattenSeq(TextsOf(els)) \in Seq(Tokens)
    BY <1>4, <1>6, FlattenSteps
  <1> QED BY <1>1, <1>4, <1>6, <1>7, <1>8 DEF n

\* A series is the number of its elements and their cells, and its text has brackets around
\* those of the elements.
LEMMA SeriesShape ==
    ASSUME NEW S, \A x \in S : Shaped(x), NEW els \in Seq(S), NEW x, x = SeriesPiece(els)
    PROVE  /\ Shaped(x)
           /\ x.cells = <<Len(els)>> \o FlattenSeq(CellsOf(els))
           /\ Len(x.cells) = 1 + Len(FlattenSeq(CellsOf(els)))
           /\ x.text = ListText(els) /\ ListText(els) \in Seq(Tokens)
           /\ x.json = JsonArray(JsonsOf(els))
           /\ x.some = (\E i \in 1 .. Len(els) : els[i].some)
           /\ x.some \in BOOLEAN
  <1>1. Len(els) \in Nat /\ FlattenSeq(CellsOf(els)) \in Seq(Int) /\ FlattenSeq(TextsOf(els)) \in Seq(Tokens)
    BY SeriesParts
  <1>2. /\ x.cells = <<Len(els)>> \o FlattenSeq(CellsOf(els)) /\ x.text = ListText(els)
        /\ x.json = JsonArray(JsonsOf(els))
        /\ x.some = (\E i \in 1 .. Len(els) : els[i].some)
    BY Zenon DEF SeriesPiece
  <1>3. x.cells \in Seq(Int) /\ Len(x.cells) = 1 + Len(FlattenSeq(CellsOf(els)))
    BY <1>1, <1>2
  <1>4. ListText(els) \in Seq(Tokens)
    <2>0. "(" \in Tokens /\ ")" \in Tokens
      BY TokensKnown
    <2>1. <<"(">> \in Seq(Tokens) /\ ")" \in Tokens
      BY <2>0
    <2>2. Opened(FlattenSeq(TextsOf(els))) \in Seq(Tokens)
      BY <2>1, <1>1, ConcatProperties DEF Opened
    <2> QED BY <2>1, <2>2, AppendProperties DEF ListText
  <1>5. Shaped(x)
    BY <1>2, <1>3, <1>4, Zenon DEF Shaped
  <1> QED BY <1>2, <1>3, <1>4, <1>5, Zenon

\* The elements of a level are series of those of the level below.
LEMMA ElementsBelow ==
    ASSUME NEW n
    PROVE  Elements(0, n) = Coordinates(n) /\ \A l \in 0 .. 2 : Elements(l + 1, n) = SeriesOf(Elements(l, n))
  <1>1. /\ Elements(0, n) = Coordinates(n)
        /\ Elements(1, n) = SeriesOf(Coordinates(n))
        /\ Elements(2, n) = SeriesOf(SeriesOf(Coordinates(n)))
        /\ Elements(3, n) = SeriesOf(SeriesOf(SeriesOf(Coordinates(n))))
    BY DEF Elements
  <1>2. \A l \in 0 .. 2 : l = 0 \/ l = 1 \/ l = 2
    OBVIOUS
  <1>3. 0 + 1 = 1 /\ 1 + 1 = 2 /\ 2 + 1 = 3
    OBVIOUS
  <1> QED BY <1>1, <1>2, <1>3, Zenon

\* The elements of a level have the forms of pieces.
LEMMA ElementShape ==
    ASSUME NEW n \in Nat, NEW level \in 0 .. 3
    PROVE  \A x \in Elements(level, n) : Shaped(x) /\ x.some \in BOOLEAN
  <1> DEFINE P(l) == \A x \in Elements(l, n) : Shaped(x) /\ x.some \in BOOLEAN
  <1>1. P(0)
    <2> SUFFICES ASSUME NEW x \in Coordinates(n) PROVE Shaped(x) /\ x.some \in BOOLEAN
      BY ElementsBelow, Zenon
    <2>1. PICK s \in [1 .. n -> Digit] : x = CoordinatePiece(s)
      BY Zenon DEF Coordinates
    <2> QED BY <2>1, CoordinateShape
  <1>2. ASSUME NEW l \in 0 .. 2, P(l) PROVE P(l + 1)
    <2> SUFFICES ASSUME NEW x \in SeriesOf(Elements(l, n)) PROVE Shaped(x) /\ x.some \in BOOLEAN
      BY ElementsBelow, Zenon
    <2>1. PICK els \in Seq(Elements(l, n)) : x = SeriesPiece(els)
      BY Zenon DEF SeriesOf
    <2>2. \A y \in Elements(l, n) : Shaped(y)
      BY <1>2
    <2> QED BY <2>1, <2>2, SeriesShape
  <1> HIDE DEF P
  <1>3. P(1) /\ P(2) /\ P(3)
    <2>1. P(0 + 1)
      BY <1>1, <1>2
    <2>2. P(1)
      BY <2>1
    <2>3. P(1 + 1)
      BY <2>2, <1>2
    <2>4. P(2)
      BY <2>3
    <2>5. P(2 + 1)
      BY <2>4, <1>2
    <2> QED BY <2>2, <2>4, <2>5
  <1>4. P(level)
    <2>1. level = 0 \/ level = 1 \/ level = 2 \/ level = 3
      OBVIOUS
    <2> QED BY <2>1, <1>1, <1>3
  <1> QED BY <1>4 DEF P

\* Geometries by their depth, unfolded once.
LEMMA TreesUnfolded ==
    ASSUME NEW n \in Nat
    PROVE  Trees[0] = {} /\ Trees[n + 1] = TreesOver(Trees[n])
  <1> DEFINE c == [of |-> "Trees"]
             Body(k, below) == IF k = 0 THEN {} ELSE TreesOver(below)
             f == CHOOSE f : f = [k \in Nat |-> Body(k, f[k - 1])]
  <1>1. \A k, b : Turn(c, k, b) = Body(k, b)
    BY DEF Turn
  <1>2. \A a, b : Turn(c, 0, a) = Turn(c, 0, b)
    BY <1>1
  <1>3. PICK h : h = [k \in Nat |-> Turn(c, k, h[k - 1])]
    <2> HIDE DEF c
    <2> QED BY <1>2, Recursion
  <1>4. h = [k \in Nat |-> Body(k, h[k - 1])]
    <2> HIDE DEF c, Body
    <2>1. [k \in Nat |-> Turn(c, k, h[k - 1])] = [k \in Nat |-> Body(k, h[k - 1])]
      BY <1>1
    <2> QED BY <1>3, <2>1, Zenon
  <1>5. f = [k \in Nat |-> Body(k, f[k - 1])]
    BY <1>4, Zenon
  <1>6. Trees = f
    BY Zenon DEF Trees
  <1> HIDE DEF f
  <1>7. \A k \in Nat : f[k] = Body(k, f[k - 1])
    <2> HIDE DEF Body
    <2> QED BY <1>5, Zenon
  <1>8. f[0] = {}
    BY <1>7
  <1>9. f[n + 1] = TreesOver(f[n])
    <2>1. n + 1 \in Nat /\ n + 1 # 0 /\ (n + 1) - 1 = n
      OBVIOUS
    <2>2. f[n + 1] = Body(n + 1, f[n])
      <3> HIDE DEF Body
      <3> QED BY <2>1, <1>7, Zenon
    <2> QED BY <2>1, <2>2
  <1> QED BY <1>6, <1>8, <1>9, Zenon

\* A geometry is one of the two kinds.
LEMMA TreesAre ==
    ASSUME NEW below, NEW x
    PROVE  /\ x \in TreesOver(below) <=> x \in LeafTrees \/ x \in CollectionsOf(below)
           /\ x \in LeafTrees <=> \E h \in LeafHeads : \E body \in Bodies(h) : x = Leaf(h, body)
           /\ x \in CollectionsOf(below) <=>
                 \E h \in CollectionHeads : \E members \in Seq(below) : x = Collection(h, members)
  <1>1. x \in TreesOver(below) <=> x \in LeafTrees \/ x \in CollectionsOf(below)
    BY DEF TreesOver
  <1>2. x \in LeafTrees <=> \E h \in LeafHeads : \E body \in Bodies(h) : x = Leaf(h, body)
    <2>1. x \in LeafTrees <=> \E h \in LeafHeads : x \in LeavesOfHead(h)
      BY Zenon DEF LeafTrees
    <2>2. \A h : x \in LeavesOfHead(h) <=> \E body \in Bodies(h) : x = Leaf(h, body)
      BY Zenon DEF LeavesOfHead
    <2> QED BY <2>1, <2>2, Zenon
  <1>3. x \in CollectionsOf(below) <=>
           \E h \in CollectionHeads : \E members \in Seq(below) : x = Collection(h, members)
    BY DEF CollectionsOf
  <1> QED BY <1>1, <1>2, <1>3

\* What is nested less deep is less deep than the next depth, too.
LEMMA TreesMonotonic ==
    ASSUME NEW m \in Nat, NEW n \in Nat, m <= n
    PROVE  Trees[m] \subseteq Trees[n]
  <1> DEFINE S == {k \in Nat : Trees[k] \subseteq Trees[k + 1]}
  <1>1. 0 \in S
    BY TreesUnfolded
  <1>2. ASSUME NEW k \in Nat, k \in S PROVE k + 1 \in S
    <2>1. Trees[k + 1] = TreesOver(Trees[k]) /\ Trees[(k + 1) + 1] = TreesOver(Trees[k + 1])
      BY TreesUnfolded
    <2>2. Seq(Trees[k]) \subseteq Seq(Trees[k + 1])
      BY <1>2, SeqMonotonic
    <2>3. TreesOver(Trees[k]) \subseteq TreesOver(Trees[k + 1])
      <3> SUFFICES ASSUME NEW x \in CollectionsOf(Trees[k]) PROVE x \in CollectionsOf(Trees[k + 1])
        BY DEF TreesOver
      <3>1. PICK h \in CollectionHeads, members \in Seq(Trees[k]) : x = Collection(h, members)
        BY TreesAre
      <3>2. members \in Seq(Trees[k + 1])
        BY <2>2
      <3> QED BY <3>1, <3>2, TreesAre
    <2>4. Trees[k + 1] \subseteq Trees[(k + 1) + 1]
      BY <2>1, <2>3, Zenon
    <2> QED BY <2>4
  <1>3. Nat \subseteq S
    <2> HIDE DEF S
    <2> QED BY <1>1, <1>2, NatSubset
  <1> DEFINE U == {k \in Nat : m <= k => Trees[m] \subseteq Trees[k]}
  <1>4. 0 \in U
    OBVIOUS
  <1>5. ASSUME NEW k \in Nat, k \in U PROVE k + 1 \in U
    <2>1. Trees[k] \subseteq Trees[k + 1]
      BY <1>3
    <2>2. CASE m <= k
      BY <2>1, <2>2, <1>5
    <2>3. CASE m = k + 1
      BY <2>3
    <2>4. CASE m > k + 1
      BY <2>4
    <2> QED BY <2>2, <2>3, <2>4
  <1>6. Nat \subseteq U
    <2> HIDE DEF U
    <2> QED BY <1>4, <1>5, NatSubset
  <1> QED BY <1>6

\* The pieces of leaves.
PiecesOfHead(h) == {LeafPiece(h, body) : body \in Bodies(h)}
LeafPieces == UNION {PiecesOfHead(h) : h \in LeafHeads}

\* A piece of a leaf is one of a head and a body that belongs to it.
LEMMA LeafPiecesAre ==
    ASSUME NEW x
    PROVE  x \in LeafPieces <=> \E h \in LeafHeads : \E body \in Bodies(h) : x = LeafPiece(h, body)
  <1>1. x \in LeafPieces <=> \E h \in LeafHeads : x \in PiecesOfHead(h)
    BY Zenon DEF LeafPieces
  <1>2. \A h : x \in PiecesOfHead(h) <=> \E body \in Bodies(h) : x = LeafPiece(h, body)
    BY Zenon DEF PiecesOfHead
  <1> QED BY <1>1, <1>2, Zenon

\* The levels of the types.
LEMMA Levels ==
    /\ \A type \in TypeNames : Level(type) \in -1 .. 2 \/ type = "POINT"
    /\ \A type \in TypeNames \ {"POINT", "GEOMETRYCOLLECTION"} : Level(type) \in 0 .. 2
    /\ Level("GEOMETRYCOLLECTION") = -1
  BY DEF Level, TypeNames

\* A list in brackets is a sequence of tokens.
LEMMA InBrackets ==
    ASSUME NEW s \in Seq(Tokens), NEW u, u = Append(Opened(s), ")")
    PROVE  /\ u \in Seq(Tokens) /\ Len(u) = Len(s) + 2 /\ u[1] = "(" /\ u[Len(s) + 2] = ")"
           /\ \A i \in 1 .. Len(s) : u[i + 1] = s[i]
  <1>0. "(" \in Tokens /\ ")" \in Tokens
    BY TokensKnown
  <1> DEFINE T == Tokens
             a == "("
             b == ")"
             t == <<a>> \o s
  <1>1. a \in T /\ b \in T /\ s \in Seq(T)
    BY <1>0
  <1>5. u = Append(t, b)
    BY DEF Opened
  <1> HIDE DEF T, a, b
  <1>2. t \in Seq(T) /\ Len(t) = Len(s) + 1 /\ t[1] = a /\ \A i \in 1 .. Len(s) : t[i + 1] = s[i]
    BY <1>1
  <1> HIDE DEF t
  <1>3. u \in Seq(T) /\ Len(u) = Len(s) + 2 /\ u[Len(s) + 2] = b /\ \A i \in 1 .. Len(s) + 1 : u[i] = t[i]
    <2>1. t \in Seq(T) /\ b \in T
      BY <1>1, <1>2
    <2>2. Append(t, b) \in Seq(T) /\ Len(Append(t, b)) = Len(t) + 1
          /\ \A i \in 1 .. Len(t) : Append(t, b)[i] = t[i]
      BY ONLY <2>1
    <2>3. Append(t, b)[Len(t) + 1] = b
      BY ONLY <2>1
    <2>4. Len(s) \in Nat /\ Len(t) = Len(s) + 1
      BY <1>1, <1>2
    <2> QED BY ONLY <2>2, <2>3, <2>4, <1>5
  <1>4. u[1] = a /\ \A i \in 1 .. Len(s) : u[i + 1] = s[i]
    BY <1>1, <1>2, <1>3
  <1> QED BY <1>3, <1>4 DEF T, a, b

\* The body of a leaf.
LEMMA BodyShape ==
    ASSUME NEW h \in LeafHeads, NEW body \in Bodies(h)
    PROVE  /\ Shaped(body) /\ body.some \in BOOLEAN
           /\ BodyText(h, body) \in Seq(Tokens)
           /\ h.type = "POINT" => /\ body \in Coordinates(Dims(h)) /\ body.some = TRUE
                                /\ BodyText(h, body) = Append(Opened(body.text), ")")
           /\ h.type # "POINT" => /\ body \in Elements(Level(h.type) + 1, Dims(h))
                                /\ BodyText(h, body) = body.text
                                /\ Level(h.type) + 1 \in 1 .. 3
           /\ Len(body.cells) >= 1
  <1>0. h \in Heads /\ h.type # "GEOMETRYCOLLECTION" /\ h.type \in TypeNames
    BY HeadParts DEF LeafHeads
  <1>1. Dims(h) \in 2 .. 4
    BY <1>0, HeadDims
  <1>2. CASE h.type = "POINT"
    <2>1. body \in Coordinates(Dims(h)) /\ BodyText(h, body) = Append(Opened(body.text), ")")
      BY <1>1, <1>2 DEF Bodies, BodyText
    <2>2. PICK s \in [1 .. Dims(h) -> Digit] : body = CoordinatePiece(s)
      BY <2>1, Zenon DEF Coordinates
    <2>3. Dims(h) \in Nat
      BY <1>1
    <2>4. Shaped(body) /\ body.some = TRUE /\ body.cells = s /\ Len(s) = Dims(h)
      BY <2>2, <2>3, CoordinateShape
    <2>5. Append(Opened(body.text), ")") \in Seq(Tokens)
      BY <2>4, InBrackets DEF Shaped
    <2>6. Len(body.cells) >= 1
      BY <2>4, <1>1
    <2>7. body.some \in BOOLEAN
      BY <2>4
    <2> HIDE DEF Shaped
    <2> QED BY <1>2, <2>1, <2>4, <2>5, <2>6, <2>7, Zenon
  <1>3. CASE h.type # "POINT"
    <2>1. body \in Elements(Level(h.type) + 1, Dims(h)) /\ BodyText(h, body) = body.text
      BY <1>1, <1>3 DEF Bodies, BodyText
    <2>2. Level(h.type) \in 0 .. 2
      BY <1>0, <1>3, Levels
    <2>3. Level(h.type) + 1 \in 1 .. 3 /\ Level(h.type) + 1 \in 0 .. 3 /\ Dims(h) \in Nat
      BY <1>1, <2>2
    <2>4. Shaped(body) /\ body.some \in BOOLEAN
      BY <2>1, <2>3, ElementShape, Zenon
    <2>5. body.text \in Seq(Tokens)
      BY <2>4 DEF Shaped
    <2>6. body \in SeriesOf(Elements(Level(h.type), Dims(h)))
      BY <2>1, <2>2, ElementsBelow, Zenon
    <2>7. PICK els \in Seq(Elements(Level(h.type), Dims(h))) : body = SeriesPiece(els)
      BY <2>6, Zenon DEF SeriesOf
    <2>8. \A x \in Elements(Level(h.type), Dims(h)) : Shaped(x)
      BY <2>2, <2>3, ElementShape
    <2>9. Len(body.cells) = 1 + Len(FlattenSeq(CellsOf(els))) /\ FlattenSeq(CellsOf(els)) \in Seq(Int)
      BY <2>7, <2>8, SeriesShape, SeriesParts
    <2>10. Len(body.cells) >= 1
      BY <2>9
    <2> QED BY <1>3, <2>1, <2>3, <2>4, <2>5, <2>10, Zenon
  <1> QED BY <1>2, <1>3

\* Two cells and others.
LEMMA ConcatInt ==
    ASSUME NEW a \in Seq(Int), NEW b \in Seq(Int), Len(a) = 2
    PROVE  a \o b \in Seq(Int) /\ Len(a \o b) = 2 + Len(b)
  <1>1. a \o b \in Seq(Int) /\ Len(a \o b) = Len(a) + Len(b)
    BY ConcatProperties
  <1> QED BY <1>1

\* The parts of a leaf.
IsLeaf(x, h, body) ==
    /\ x.head = h
    /\ x.cells = HeadCells(h) \o body.cells
    /\ x.text = TypeWords(h) \o BodyText(h, body)
    /\ x.json = JsonOf(h, "coordinates", body.json)
    /\ x.some = body.some
    /\ x.some => x.kept = x.cells
    /\ ~x.some => x.kept = HeadCells(ShownHead(h)) \o body.cells

\* A leaf is its head and its body.
LEMMA LeafShape ==
    ASSUME NEW h \in LeafHeads, NEW body \in Bodies(h), NEW x, x = LeafPiece(h, body)
    PROVE  /\ IsLeaf(x, h, body) /\ Shaped(x) /\ x.some \in BOOLEAN /\ x \in LeafPieces
           /\ x.kept \in Seq(Int) /\ Len(x.kept) = Len(x.cells) /\ Len(x.cells) = 2 + Len(body.cells)
  <1>0. h \in Heads
    BY DEF LeafHeads
  <1>1. /\ x.head = h /\ x.cells = HeadCells(h) \o body.cells
        /\ x.text = TypeWords(h) \o BodyText(h, body) /\ x.json = JsonOf(h, "coordinates", body.json)
        /\ x.some = body.some
        /\ x.kept = HeadCells(IF body.some THEN h ELSE ShownHead(h)) \o body.cells
    BY Zenon DEF LeafPiece
  <1>2. Shaped(body) /\ body.some \in BOOLEAN /\ BodyText(h, body) \in Seq(Tokens)
    BY BodyShape
  <1>3. HeadCells(h) \in Seq(Int) /\ Len(HeadCells(h)) = 2 /\ TypeWords(h) \in Seq(Tokens)
    BY <1>0, HeadDims
  <1>4. HeadCells(ShownHead(h)) \in Seq(Int) /\ Len(HeadCells(ShownHead(h))) = 2
    BY <1>0, HeadShown, HeadDims
  <1>5. body.cells \in Seq(Int)
    BY <1>2 DEF Shaped
  <1>6. HeadCells(h) \o body.cells \in Seq(Int) /\ Len(HeadCells(h) \o body.cells) = 2 + Len(body.cells)
    BY <1>3, <1>5, ConcatInt, Zenon
  <1>7. HeadCells(ShownHead(h)) \o body.cells \in Seq(Int)
        /\ Len(HeadCells(ShownHead(h)) \o body.cells) = 2 + Len(body.cells)
    BY <1>4, <1>5, ConcatInt, Zenon
  <1>8. TypeWords(h) \o BodyText(h, body) \in Seq(Tokens)
    BY <1>2, <1>3, ConcatProperties
  <1>9. Shaped(x)
    BY <1>1, <1>6, <1>8, Zenon DEF Shaped
  <1>10. x \in LeafPieces
    BY LeafPiecesAre
  <1>11. x.some => x.kept = x.cells
    BY <1>1, Zenon
  <1>12. ~x.some => x.kept = HeadCells(ShownHead(h)) \o body.cells
    BY <1>1, Zenon
  <1>13. x.kept \in Seq(Int) /\ Len(x.kept) = Len(x.cells)
    <2>1. CASE x.some
      BY <2>1, <1>11, <1>1, <1>6, Zenon
    <2>2. CASE ~x.some
      BY <2>2, <1>12, <1>1, <1>6, <1>7, Zenon
    <2> QED BY <2>1, <2>2
  <1>14. Len(x.cells) = 2 + Len(body.cells) /\ x.some \in BOOLEAN
    BY <1>1, <1>2, <1>6, Zenon
  <1>15. IsLeaf(x, h, body)
    BY <1>1, <1>11, <1>12, Zenon DEF IsLeaf
  <1> QED BY <1>9, <1>10, <1>13, <1>14, <1>15, Zenon

\* A geometry has cells, text, and leaves.
Form(x) ==
    /\ Shaped(x) /\ x.some \in BOOLEAN
    /\ x.kept \in Seq(Int) /\ Len(x.kept) = Len(x.cells) /\ Len(x.cells) >= 3
    /\ x.leaves \in Seq(LeafPieces)

\* A leaf as a geometry is its piece, and its only leaf.
LEMMA LeafForm ==
    ASSUME NEW h \in LeafHeads, NEW body \in Bodies(h), NEW x, x = Leaf(h, body), NEW piece, piece = LeafPiece(h, body)
    PROVE  /\ x.head = h /\ IsLeaf(piece, h, body) /\ x.cells = piece.cells /\ x.text = piece.text /\ x.json = piece.json
           /\ x.some = piece.some /\ x.kept = piece.kept /\ x.leaves = <<piece>>
           /\ Form(x)
  <1>1. /\ x.head = h /\ x.cells = piece.cells /\ x.text = piece.text /\ x.json = piece.json
        /\ x.some = piece.some /\ x.kept = piece.kept /\ x.leaves = <<piece>>
    BY Zenon DEF Leaf
  <1>20. IsLeaf(piece, h, body)
    BY LeafShape
  <1>2. /\ Shaped(piece) /\ piece.some \in BOOLEAN /\ piece \in LeafPieces
        /\ piece.kept \in Seq(Int) /\ Len(piece.kept) = Len(piece.cells)
        /\ Len(piece.cells) = 2 + Len(body.cells)
    BY LeafShape
  <1>3. <<piece>> \in Seq(LeafPieces)
    BY <1>2
  <1>4. Len(body.cells) >= 1 /\ body.cells \in Seq(Int)
    BY BodyShape DEF Shaped
  <1>5. Len(piece.cells) >= 3
    BY <1>2, <1>4
  <1>6. Shaped(x)
    BY <1>1, <1>2, Zenon DEF Shaped
  <1>7. Form(x)
    BY <1>1, <1>2, <1>3, <1>5, <1>6, Zenon DEF Form
  <1> QED BY <1>1, <1>20, <1>7, Zenon

\* Pieces of the same lengths are put together at the same positions.
LEMMA SameLayout ==
    ASSUME NEW T, NEW s \in Seq(Seq(T)), NEW U, NEW t \in Seq(Seq(U)), Len(s) = Len(t),
           \A n \in 1 .. Len(s) : Len(s[n]) = Len(t[n])
    PROVE  /\ Len(FlattenSeq(s)) = Len(FlattenSeq(t))
           /\ \A n \in 0 .. Len(s) : End(s, n) = End(t, n)
  <1> DEFINE e(n) == End(s, n)
             f(n) == End(t, n)
             k == Len(s)
             S == {n \in 0 .. k : e(n) = f(n)}
  <1>0. k \in Nat /\ k = Len(t)
    OBVIOUS
  <1>1. e(0) = 0 /\ f(0) = 0 /\ e(k) = Len(FlattenSeq(s)) /\ f(k) = Len(FlattenSeq(t))
    BY <1>0, FlattenLayout
  <1>2. \A n \in 1 .. k : e(n) = e(n - 1) + Len(s[n])
    BY FlattenLayout
  <1>3. \A n \in 1 .. k : f(n) = f(n - 1) + Len(t[n])
    BY <1>0, FlattenLayout
  <1>4. \A n \in 1 .. k : Len(s[n]) = Len(t[n])
    OBVIOUS
  <1> HIDE DEF e, f, k
  <1>5. 0 \in S
    BY <1>0, <1>1
  <1>6. ASSUME NEW n \in 0 .. k - 1, n \in S PROVE n + 1 \in S
    <2>1. n + 1 \in 1 .. k /\ (n + 1) - 1 = n /\ n + 1 \in 0 .. k
      BY <1>0
    <2>2. e(n + 1) = e(n) + Len(s[n + 1]) /\ f(n + 1) = f(n) + Len(t[n + 1])
      BY <2>1, <1>2, <1>3
    <2>3. e(n) = f(n)
      BY <1>6
    <2>4. e(n + 1) = f(n + 1)
      BY <2>1, <2>2, <2>3, <1>4, Zenon
    <2> QED BY <2>1, <2>4
  <1>7. 0 .. k \subseteq S
    <2> HIDE DEF S
    <2> QED BY <1>0, <1>5, <1>6, UpTo
  <1>8. \A n \in 0 .. k : e(n) = f(n)
    BY <1>7
  <1>9. k \in 0 .. k
    BY <1>0
  <1>10. Len(FlattenSeq(s)) = Len(FlattenSeq(t))
    BY <1>1, <1>8, <1>9, Zenon
  <1> QED BY <1>8, <1>10 DEF e, f, k

\* The parts of a collection.
LEMMA MemberParts ==
    ASSUME NEW S, \A y \in S : Form(y), NEW members \in Seq(S)
    PROVE  /\ Len(members) \in Nat /\ \A y \in S : Shaped(y)
           /\ \A i \in 1 .. Len(members) : members[i] \in S /\ Form(members[i])
           /\ KeptOf(members) \in Seq(Seq(Int)) /\ Len(KeptOf(members)) = Len(members)
           /\ LeavesOf(members) \in Seq(Seq(LeafPieces)) /\ Len(LeavesOf(members)) = Len(members)
           /\ \A i \in 1 .. Len(members) : /\ KeptOf(members)[i] = members[i].kept
                                           /\ LeavesOf(members)[i] = members[i].leaves
           /\ FlattenSeq(KeptOf(members)) \in Seq(Int)
           /\ FlattenSeq(LeavesOf(members)) \in Seq(LeafPieces)
           /\ Len(FlattenSeq(KeptOf(members))) = Len(FlattenSeq(CellsOf(members)))
  <1> DEFINE n == Len(members)
  <1>0. \A y \in S : Shaped(y)
    BY DEF Form
  <1>1. n \in Nat /\ \A i \in 1 .. n : members[i] \in S /\ Form(members[i])
    OBVIOUS
  <1>2. \A i \in 1 .. n : /\ members[i].kept \in Seq(Int) /\ members[i].leaves \in Seq(LeafPieces)
                          /\ Len(members[i].kept) = Len(members[i].cells)
    BY <1>1 DEF Form
  <1>3. CellsOf(members) \in Seq(Seq(Int)) /\ Len(CellsOf(members)) = n
        /\ \A i \in 1 .. n : CellsOf(members)[i] = members[i].cells
    BY <1>0, SeriesParts
  <1> HIDE DEF n
  <1>4. KeptOf(members) = [i \in 1 .. n |-> members[i].kept] /\ LeavesOf(members) = [i \in 1 .. n |-> members[i].leaves]
    BY Zenon DEF KeptOf, LeavesOf, n
  <1>5. KeptOf(members) \in Seq(Seq(Int)) /\ Len(KeptOf(members)) = n
        /\ \A i \in 1 .. n : KeptOf(members)[i] = members[i].kept
    BY <1>1, <1>2, <1>4
  <1>6. LeavesOf(members) \in Seq(Seq(LeafPieces)) /\ Len(LeavesOf(members)) = n
        /\ \A i \in 1 .. n : LeavesOf(members)[i] = members[i].leaves
    BY <1>1, <1>2, <1>4
  <1>7. FlattenSeq(KeptOf(members)) \in Seq(Int) /\ FlattenSeq(LeavesOf(members)) \in Seq(LeafPieces)
    BY <1>5, <1>6, FlattenSteps
  <1>8. Len(FlattenSeq(KeptOf(members))) = Len(FlattenSeq(CellsOf(members)))
    <2>1. \A i \in 1 .. n : Len(KeptOf(members)[i]) = Len(CellsOf(members)[i])
      BY <1>2, <1>3, <1>5, Zenon
    <2> QED BY <2>1, <1>3, <1>5, SameLayout
  <1> QED BY <1>0, <1>1, <1>5, <1>6, <1>7, <1>8 DEF n

\* The cells of a count and what is counted.
LEMMA Counted ==
    ASSUME NEW n \in Int, NEW a \in Seq(Int)
    PROVE  /\ <<n>> \o a \in Seq(Int) /\ Len(<<n>> \o a) = 1 + Len(a)
           /\ (<<n>> \o a)[1] = n /\ \A i \in 1 .. Len(a) : (<<n>> \o a)[i + 1] = a[i]
  OBVIOUS

\* The parts of a collection as a geometry.
IsCollection(x, h, members) ==
    /\ x.head = h
    /\ x.cells = HeadCells(h) \o (<<Len(members)>> \o FlattenSeq(CellsOf(members)))
    /\ Len(x.cells) = 3 + Len(FlattenSeq(CellsOf(members)))
    /\ x.text = TypeWords(h) \o ListText(members)
    /\ x.json = JsonOf(h, "geometries", JsonArray(JsonsOf(members)))
    /\ x.some = (\E i \in 1 .. Len(members) : members[i].some)
    /\ x.kept = HeadCells(ShownHead(h)) \o (<<Len(members)>> \o FlattenSeq(KeptOf(members)))
    /\ x.leaves = FlattenSeq(LeavesOf(members))

\* A collection is its head, their number, and the members.
LEMMA CollectionShape ==
    ASSUME NEW S, \A y \in S : Form(y), NEW members \in Seq(S), NEW h \in CollectionHeads,
           NEW x, x = Collection(h, members)
    PROVE  Form(x) /\ IsCollection(x, h, members)
  <1> DEFINE body == SeriesPiece(members)
  <1>0. h \in Heads
    BY DEF CollectionHeads
  <1>1. /\ x.head = h /\ x.cells = HeadCells(h) \o body.cells /\ x.text = TypeWords(h) \o body.text
        /\ x.json = JsonOf(h, "geometries", body.json) /\ x.some = body.some
        /\ x.kept = HeadCells(ShownHead(h)) \o (<<Len(members)>> \o FlattenSeq(KeptOf(members)))
        /\ x.leaves = FlattenSeq(LeavesOf(members))
    BY Zenon DEF Collection
  <1>2. /\ Len(members) \in Nat /\ \A y \in S : Shaped(y)
        /\ FlattenSeq(KeptOf(members)) \in Seq(Int) /\ FlattenSeq(LeavesOf(members)) \in Seq(LeafPieces)
        /\ Len(FlattenSeq(KeptOf(members))) = Len(FlattenSeq(CellsOf(members)))
    BY MemberParts
  <1>3. /\ Shaped(body) /\ body.cells = <<Len(members)>> \o FlattenSeq(CellsOf(members))
        /\ Len(body.cells) = 1 + Len(FlattenSeq(CellsOf(members)))
        /\ body.text = ListText(members) /\ ListText(members) \in Seq(Tokens)
        /\ body.json = JsonArray(JsonsOf(members))
        /\ body.some = (\E i \in 1 .. Len(members) : members[i].some) /\ body.some \in BOOLEAN
    BY <1>2, SeriesShape
  <1> HIDE DEF body
  <1>4. HeadCells(h) \in Seq(Int) /\ Len(HeadCells(h)) = 2 /\ TypeWords(h) \in Seq(Tokens)
    BY <1>0, HeadDims
  <1>6. HeadCells(ShownHead(h)) \in Seq(Int) /\ Len(HeadCells(ShownHead(h))) = 2
    BY <1>0, HeadShown, HeadDims
  <1> DEFINE a == body.cells
             b == <<Len(members)>> \o FlattenSeq(KeptOf(members))
             lf == Len(FlattenSeq(CellsOf(members)))
  <1>7. a \in Seq(Int) /\ Len(a) = 1 + lf
    BY <1>3 DEF Shaped
  <1>8. b \in Seq(Int) /\ Len(b) = 1 + lf
    BY <1>2, Counted
  <1>9. lf \in Nat
    <2>1. \A s \in Seq(Int) : Len(s) \in Nat
      OBVIOUS
    <2> QED BY <2>1, <1>2, Zenon
  <1> HIDE DEF b, lf
  <1>10. HeadCells(h) \o a \in Seq(Int) /\ Len(HeadCells(h) \o a) = 2 + Len(a)
    BY <1>4, <1>7, ConcatInt, Zenon
  <1>11. HeadCells(ShownHead(h)) \o b \in Seq(Int) /\ Len(HeadCells(ShownHead(h)) \o b) = 2 + Len(b)
    BY <1>6, <1>8, ConcatInt, Zenon
  <1>12. TypeWords(h) \o body.text \in Seq(Tokens)
    BY <1>3, <1>4, ConcatProperties
  <1>13. 2 + (1 + lf) = 3 + lf /\ 3 + lf >= 3
    BY <1>9
  <1>14. Len(x.cells) = 3 + lf /\ Len(x.kept) = 3 + lf
    BY <1>1, <1>7, <1>8, <1>10, <1>11, <1>13, Zenon DEF b
  <1>15. x.cells \in Seq(Int) /\ x.kept \in Seq(Int) /\ x.text \in Seq(Tokens)
    BY <1>1, <1>10, <1>11, <1>12, Zenon DEF b
  <1>16. Shaped(x) /\ x.some \in BOOLEAN /\ x.leaves \in Seq(LeafPieces) /\ Len(x.cells) >= 3
    BY <1>1, <1>2, <1>3, <1>13, <1>14, <1>15, Zenon DEF Shaped
  <1>17. Form(x)
    BY <1>14, <1>15, <1>16, Zenon DEF Form
  <1>18. /\ x.cells = HeadCells(h) \o (<<Len(members)>> \o FlattenSeq(CellsOf(members)))
         /\ x.text = TypeWords(h) \o ListText(members)
         /\ x.json = JsonOf(h, "geometries", JsonArray(JsonsOf(members)))
         /\ x.some = (\E i \in 1 .. Len(members) : members[i].some)
    BY <1>1, <1>3, Zenon
  <1> QED BY <1>1, <1>14, <1>17, <1>18, Zenon DEF lf, IsCollection

\* A geometry, unfolded once.
LEMMA TreeCases ==
    ASSUME NEW d \in Nat, NEW x
    PROVE  /\ x \notin Trees[0]
           /\ x \in Trees[d + 1] <=>
                 \/ \E h \in LeafHeads : \E body \in Bodies(h) : x = Leaf(h, body)
                 \/ \E h \in CollectionHeads : \E members \in Seq(Trees[d]) : x = Collection(h, members)
  <1>1. x \notin Trees[0]
    BY TreesUnfolded, 0 \in Nat
  <1>2. Trees[d + 1] = TreesOver(Trees[d])
    BY TreesUnfolded
  <1>3. x \in TreesOver(Trees[d]) <=> x \in LeafTrees \/ x \in CollectionsOf(Trees[d])
    BY TreesAre, Zenon
  <1>4. x \in LeafTrees <=> \E h \in LeafHeads : \E body \in Bodies(h) : x = Leaf(h, body)
    BY TreesAre, Zenon
  <1>5. x \in CollectionsOf(Trees[d]) <=>
           \E h \in CollectionHeads : \E members \in Seq(Trees[d]) : x = Collection(h, members)
    <2> DEFINE T == Trees[d]
    <2> HIDE DEF T
    <2>1. x \in CollectionsOf(T) <=>
             \E h \in CollectionHeads : \E members \in Seq(T) : x = Collection(h, members)
      BY TreesAre
    <2> QED BY <2>1 DEF T
  <1> QED BY <1>1, <1>2, <1>3, <1>4, <1>5, Zenon

\* All geometries have the form.
LEMMA TreeForm ==
    ASSUME NEW d \in Nat
    PROVE  \A x \in Trees[d] : Form(x)
  <1> DEFINE S == {k \in Nat : \A x \in Trees[k] : Form(x)}
  <1>1. 0 \in S
    BY TreeCases
  <1>2. ASSUME NEW k \in Nat, k \in S PROVE k + 1 \in S
    <2> SUFFICES ASSUME NEW x \in Trees[k + 1] PROVE Form(x)
      OBVIOUS
    <2>1. CASE \E h \in LeafHeads : \E body \in Bodies(h) : x = Leaf(h, body)
      <3>1. PICK h \in LeafHeads : \E body \in Bodies(h) : x = Leaf(h, body)
        BY <2>1, Zenon
      <3>2. PICK body \in Bodies(h) : x = Leaf(h, body)
        BY <3>1, Zenon
      <3> QED BY <3>2, LeafForm
    <2>2. CASE \E h \in CollectionHeads : \E members \in Seq(Trees[k]) : x = Collection(h, members)
      <3>1. PICK h \in CollectionHeads, members \in Seq(Trees[k]) : x = Collection(h, members)
        BY <2>2, Zenon
      <3>2. \A y \in Trees[k] : Form(y)
        BY <1>2
      <3> QED BY <3>1, <3>2, CollectionShape
    <2> QED BY <2>1, <2>2, TreeCases, Zenon
  <1>3. Nat \subseteq S
    <2> HIDE DEF S
    <2> QED BY <1>1, <1>2, NatSubset
  <1> QED BY <1>3

\* A member is shorter than its collection.
LEMMA MemberShorter ==
    ASSUME NEW S, \A y \in S : Form(y), NEW members \in Seq(S), NEW n \in 1 .. Len(members)
    PROVE  Len(members[n].cells) <= Len(FlattenSeq(CellsOf(members)))
  <1>1. /\ Len(members) \in Nat /\ \A y \in S : Shaped(y)
    BY MemberParts
  <1>2. /\ CellsOf(members) \in Seq(Seq(Int)) /\ Len(CellsOf(members)) = Len(members)
        /\ CellsOf(members)[n] = members[n].cells /\ members[n].cells \in Seq(Int)
    BY <1>1, SeriesParts DEF Shaped
  <1> DEFINE c == CellsOf(members)
             l == Len(members[n].cells)
             lf == Len(FlattenSeq(c))
             e(k) == End(c, k)
  <1>3. e(n) = e(n - 1) + l /\ e(n) <= lf /\ e(n - 1) \in Nat
    <2> HIDE DEF e, l, lf, c
    <2>1. n - 1 \in 0 .. Len(c) /\ n \in 1 .. Len(c)
      BY <1>1, <1>2 DEF c
    <2> QED BY <1>2, <2>1, FlattenLayout DEF e, l, lf, c
  <1>4. l \in Nat /\ lf \in Nat
    <2>1. FlattenSeq(c) \in Seq(Int)
      BY <1>2, FlattenSteps
    <2> HIDE DEF c
    <2> QED BY <1>2, <2>1
  <1> HIDE DEF l, lf, e
  <1>5. l <= lf
    BY <1>3, <1>4
  <1> QED BY <1>5 DEF l, lf

\* A geometry is not nested deeper than it has cells.
LEMMA TreeDepth ==
    ASSUME NEW d \in Nat
    PROVE  \A x \in Trees[d] : x \in Trees[Len(x.cells)]
  <1> DEFINE S == {k \in Nat : \A x \in Trees[k] : x \in Trees[Len(x.cells)]}
  <1>1. 0 \in S
    BY TreeCases
  <1>2. ASSUME NEW k \in Nat, k \in S PROVE k + 1 \in S
    <2> SUFFICES ASSUME NEW x \in Trees[k + 1] PROVE x \in Trees[Len(x.cells)]
      OBVIOUS
    <2>0. Form(x)
      BY TreeForm
    <2>1. Len(x.cells) \in Nat /\ Len(x.cells) >= 3
      BY <2>0 DEF Form, Shaped
    <2> DEFINE l == Len(x.cells) - 1
    <2>2. l \in Nat /\ l + 1 = Len(x.cells)
      BY <2>1
    <2> HIDE DEF l
    <2>3. CASE \E h \in LeafHeads : \E body \in Bodies(h) : x = Leaf(h, body)
      <3>1. x \in Trees[l + 1]
        BY <2>2, <2>3, TreeCases, Zenon
      <3> QED BY <2>2, <3>1
    <2>4. CASE \E h \in CollectionHeads : \E members \in Seq(Trees[k]) : x = Collection(h, members)
      <3>1. PICK h \in CollectionHeads, members \in Seq(Trees[k]) : x = Collection(h, members)
        BY <2>4, Zenon
      <3>2. \A y \in Trees[k] : Form(y)
        BY TreeForm
      <3>3. Len(x.cells) = 3 + Len(FlattenSeq(CellsOf(members)))
        <4>1. IsCollection(x, h, members)
          BY <3>1, <3>2, CollectionShape
        <4> QED BY <4>1 DEF IsCollection
      <3>4. ASSUME NEW n \in 1 .. Len(members) PROVE members[n] \in Trees[l]
        <4>1. Len(members[n].cells) <= Len(FlattenSeq(CellsOf(members)))
          BY <3>2, MemberShorter
        <4>2. members[n] \in Trees[k]
          OBVIOUS
        <4>3. members[n] \in Trees[Len(members[n].cells)]
          BY <4>2, <1>2
        <4>4. Len(members[n].cells) \in Nat
          BY <4>2, <3>2 DEF Form, Shaped
        <4>5. Len(FlattenSeq(CellsOf(members))) \in Nat
          BY <2>1, <3>2, MemberParts, SeriesParts
        <4>6. Len(members[n].cells) <= l
          BY <2>2, <3>3, <4>1, <4>4, <4>5
        <4>7. Trees[Len(members[n].cells)] \subseteq Trees[l]
          BY <2>2, <4>4, <4>6, TreesMonotonic, Zenon
        <4> QED BY <4>3, <4>7
      <3>5. members \in Seq(Trees[l])
        <4> DEFINE T == Trees[l]
        <4>1. \A n \in 1 .. Len(members) : members[n] \in T
          BY <3>4
        <4> HIDE DEF T
        <4>2. members \in Seq(T)
          BY <4>1
        <4> QED BY <4>2 DEF T
      <3>6. x \in Trees[l + 1]
        BY <2>2, <3>1, <3>5, TreeCases, Zenon
      <3> QED BY <2>2, <3>6
    <2> QED BY <2>3, <2>4, TreeCases, Zenon
  <1>3. Nat \subseteq S
    <2> HIDE DEF S
    <2> QED BY <1>1, <1>2, NatSubset
  <1> QED BY <1>3

\* A series without coordinates is one of coordinates of any number.
LEMMA NoNumbers ==
    ASSUME NEW n \in Nat, NEW k \in Nat, NEW level \in 0 .. 3
    PROVE  \A x \in Elements(level, n) : ~x.some => x \in Elements(level, k)
  <1> DEFINE P(l) == \A x \in Elements(l, n) : ~x.some => x \in Elements(l, k)
  <1>1. P(0)
    <2> SUFFICES ASSUME NEW x \in Coordinates(n) PROVE x.some = TRUE
      BY ElementsBelow, Zenon
    <2>1. PICK s \in [1 .. n -> Digit] : x = CoordinatePiece(s)
      BY Zenon DEF Coordinates
    <2> QED BY <2>1, CoordinateShape
  <1>2. ASSUME NEW l \in 0 .. 2, P(l) PROVE P(l + 1)
    <2> SUFFICES ASSUME NEW x \in SeriesOf(Elements(l, n)), ~x.some PROVE x \in SeriesOf(Elements(l, k))
      BY ElementsBelow, Zenon
    <2>1. PICK els \in Seq(Elements(l, n)) : x = SeriesPiece(els)
      BY Zenon DEF SeriesOf
    <2>2. \A y \in Elements(l, n) : Shaped(y)
      BY ElementShape
    <2>3. x.some = (\E i \in 1 .. Len(els) : els[i].some)
      BY <2>1, <2>2, SeriesShape
    <2>4. \A i \in 1 .. Len(els) : els[i] \in Elements(l, n)
      OBVIOUS
    <2>5. \A i \in 1 .. Len(els) : ~els[i].some
      BY <2>3, Zenon
    <2>6. \A i \in 1 .. Len(els) : els[i] \in Elements(l, k)
      BY <2>4, <2>5, <1>2, Zenon
    <2>7. els \in Seq(Elements(l, k))
      <3> DEFINE T == Elements(l, k)
      <3>1. \A i \in 1 .. Len(els) : els[i] \in T
        BY <2>6
      <3> HIDE DEF T
      <3>2. els \in Seq(T)
        BY <3>1
      <3> QED BY <3>2 DEF T
    <2> QED BY <2>1, <2>7, Zenon DEF SeriesOf
  <1> HIDE DEF P
  <1>3. P(1) /\ P(2) /\ P(3)
    <2>1. P(0 + 1)
      BY <1>1, <1>2
    <2>2. P(1)
      BY <2>1
    <2>3. P(1 + 1)
      BY <2>2, <1>2
    <2>4. P(2)
      BY <2>3
    <2>5. P(2 + 1)
      BY <2>4, <1>2
    <2> QED BY <2>2, <2>4, <2>5
  <1>4. P(level)
    <2>1. level = 0 \/ level = 1 \/ level = 2 \/ level = 3
      OBVIOUS
    <2> QED BY <2>1, <1>1, <1>3
  <1> QED BY <1>4 DEF P

\* A leaf that has been read again, and a geometry that has.
LeafSurvives(p, q) == q.cells = p.kept /\ q.text = p.text /\ q.some = p.some

Survives(x, y) ==
    /\ y.cells = x.kept /\ y.kept = x.kept /\ y.text = x.text /\ y.some = x.some
    /\ Len(y.leaves) = Len(x.leaves)
    /\ \A n \in 1 .. Len(x.leaves) : LeafSurvives(x.leaves[n], y.leaves[n])

\* A leaf without coordinates has the same body under the head that is left.
LEMMA LeafKept ==
    ASSUME NEW h \in LeafHeads, NEW body \in Bodies(h), NEW x, x = Leaf(h, body)
    PROVE  \E hh \in LeafHeads : \E again \in Bodies(hh) : Survives(x, Leaf(hh, again))
  <1> DEFINE p == LeafPiece(h, body)
  <1>0. p = LeafPiece(h, body)
    OBVIOUS
  <1> HIDE DEF p
  <1>1. /\ x.cells = p.cells /\ x.text = p.text /\ x.some = p.some /\ x.kept = p.kept
        /\ x.leaves = <<p>> /\ p.some \in BOOLEAN
    BY <1>0, LeafForm, LeafShape
  <1>20. IsLeaf(p, h, body)
    BY <1>0, LeafShape
  <1>2. /\ p.text = TypeWords(h) \o BodyText(h, body)
        /\ p.some = body.some
        /\ p.some => p.kept = p.cells
        /\ ~p.some => p.kept = HeadCells(ShownHead(h)) \o body.cells
    BY <1>20 DEF IsLeaf
  <1>3. CASE p.some
    <2>0. p.kept = p.cells
      BY <1>2, <1>3
    <2>1. LeafSurvives(p, p)
      BY <2>0 DEF LeafSurvives
    <2>2. Len(x.leaves) = 1 /\ x.leaves[1] = p
      BY <1>1
    <2>3. \A n \in 1 .. Len(x.leaves) : LeafSurvives(x.leaves[n], x.leaves[n])
      BY <2>1, <2>2
    <2>4. Survives(x, x)
      BY <1>1, <2>0, <2>3, Zenon DEF Survives
    <2> QED BY <2>4
  <1>4. CASE ~p.some
    <2> DEFINE sh == ShownHead(h)
    <2>0. h \in Heads /\ h.type # "GEOMETRYCOLLECTION"
      BY DEF LeafHeads
    <2>1. sh \in Heads /\ sh.type = h.type /\ ShownHead(sh) = sh /\ TypeWords(sh) = TypeWords(h)
      BY <2>0, HeadShown
    <2>2. h.type # "POINT" /\ Level(h.type) + 1 \in 1 .. 3 /\ body \in Elements(Level(h.type) + 1, Dims(h))
          /\ body.some \in BOOLEAN
      BY <1>2, <1>4, BodyShape
    <2>3. sh \in LeafHeads /\ sh = ShownHead(h)
      BY <2>0, <2>1 DEF LeafHeads
    <2> HIDE DEF sh
    <2>4. Dims(h) \in Nat /\ Dims(sh) \in Nat
      BY <2>0, <2>1, HeadDims
    <2>5. body \in Elements(Level(h.type) + 1, Dims(sh))
      <3>1. Level(h.type) + 1 \in 0 .. 3
        BY <2>2
      <3>2. ~body.some
        BY <1>2, <1>4
      <3> QED BY <2>2, <2>4, <3>1, <3>2, NoNumbers, Zenon
    <2>6. body \in Bodies(sh)
      BY <2>1, <2>2, <2>5, Zenon DEF Bodies
    <2> DEFINE q == LeafPiece(sh, body)
               y == Leaf(sh, body)
    <2>7. y = Leaf(sh, body) /\ q = LeafPiece(sh, body)
      OBVIOUS
    <2> HIDE DEF y, q, p
    <2>8. y.cells = q.cells /\ y.text = q.text /\ y.some = q.some /\ y.kept = q.kept /\ y.leaves = <<q>>
      BY <2>3, <2>6, <2>7, LeafForm
    <2>9. /\ q.cells = HeadCells(sh) \o body.cells /\ q.text = TypeWords(sh) \o BodyText(sh, body)
          /\ q.some = body.some
          /\ ~q.some => q.kept = HeadCells(ShownHead(sh)) \o body.cells
      <3>1. IsLeaf(q, sh, body)
        BY <2>3, <2>6, <2>7, LeafShape
      <3> QED BY <3>1 DEF IsLeaf
    <2>10. BodyText(sh, body) = BodyText(h, body)
      BY <2>1, Zenon DEF BodyText
    <2>11. q.cells = p.kept /\ q.text = p.text /\ q.some = p.some /\ q.kept = p.kept
      <3>1. q.cells = p.kept
        BY <1>2, <1>4, <2>1, <2>3, <2>9, Zenon
      <3>2. q.text = p.text
        BY <1>2, <2>1, <2>9, <2>10, Zenon
      <3>3. q.some = p.some
        BY <1>2, <2>9, Zenon
      <3>4. q.kept = p.kept
        BY <1>2, <1>4, <2>1, <2>3, <2>9, <3>3, Zenon
      <3> QED BY <3>1, <3>2, <3>3, <3>4
    <2>12. LeafSurvives(p, q)
      BY <2>11 DEF LeafSurvives
    <2>13. Len(x.leaves) = 1 /\ x.leaves[1] = p /\ Len(y.leaves) = 1 /\ y.leaves[1] = q
      BY <1>1, <2>8
    <2>14. \A n \in 1 .. Len(x.leaves) : LeafSurvives(x.leaves[n], y.leaves[n])
      BY <2>12, <2>13
    <2>15. Survives(x, y)
      BY <1>1, <2>8, <2>11, <2>13, <2>14, Zenon DEF Survives
    <2>16. Survives(x, Leaf(sh, body))
      BY <2>7, <2>15, Zenon
    <2> QED BY <2>3, <2>6, <2>16, Zenon
  <1> QED BY <1>2, <1>3, <1>4

\* A collection of members that have survived.
LEMMA CollectionKept ==
    ASSUME NEW S, \A y \in S : Form(y), NEW members \in Seq(S), NEW others \in Seq(S),
           Len(others) = Len(members),
           \A i \in 1 .. Len(members) : Survives(members[i], others[i]),
           NEW h \in CollectionHeads, NEW x, x = Collection(h, members),
           NEW y, y = Collection(ShownHead(h), others)
    PROVE  Survives(x, y)
  <1> DEFINE sh == ShownHead(h)
             n == Len(members)
  <1>1. /\ ShownHead(sh) = sh /\ TypeWords(sh) = TypeWords(h)
        /\ sh \in CollectionHeads
    BY HeadShown DEF CollectionHeads
  <1>2. IsCollection(x, h, members)
    BY CollectionShape
  <1>3. IsCollection(y, sh, others)
    BY <1>1, CollectionShape
  <1>4. /\ n \in Nat /\ \A z \in S : Shaped(z)
        /\ KeptOf(members) = [i \in 1 .. n |-> members[i].kept]
        /\ KeptOf(others) = [i \in 1 .. n |-> others[i].kept]
        /\ CellsOf(others) = [i \in 1 .. n |-> others[i].cells]
        /\ TextsOf(members) = [i \in 1 .. n |-> Separated(i, members[i].text)]
        /\ TextsOf(others) = [i \in 1 .. n |-> Separated(i, others[i].text)]
    BY MemberParts DEF KeptOf, CellsOf, TextsOf
  <1>5. /\ LeavesOf(members) \in Seq(Seq(LeafPieces)) /\ Len(LeavesOf(members)) = n
        /\ LeavesOf(others) \in Seq(Seq(LeafPieces)) /\ Len(LeavesOf(others)) = n
        /\ \A i \in 1 .. n : LeavesOf(members)[i] = members[i].leaves /\ LeavesOf(others)[i] = others[i].leaves
    BY MemberParts
  <1>6. \A i \in 1 .. n : /\ others[i].cells = members[i].kept /\ others[i].kept = members[i].kept
                          /\ others[i].text = members[i].text /\ others[i].some = members[i].some
                          /\ Len(others[i].leaves) = Len(members[i].leaves)
                          /\ \A j \in 1 .. Len(members[i].leaves) :
                                LeafSurvives(members[i].leaves[j], others[i].leaves[j])
    BY DEF Survives
  <1> HIDE DEF n, sh
  <1>7. CellsOf(others) = KeptOf(members) /\ KeptOf(others) = KeptOf(members)
    BY <1>4, <1>6
  <1>8. TextsOf(others) = TextsOf(members)
    <2>1. \A i \in 1 .. n : Separated(i, others[i].text) = Separated(i, members[i].text)
      BY <1>6, Zenon
    <2> QED BY <1>4, <2>1
  <1>9. ListText(others) = ListText(members)
    BY <1>8, Zenon DEF ListText
  <1>10. y.cells = x.kept /\ y.kept = x.kept /\ y.text = x.text
    <2>1. Len(others) = Len(members)
      OBVIOUS
    <2>2. /\ y.cells = HeadCells(sh) \o (<<Len(others)>> \o FlattenSeq(CellsOf(others)))
          /\ y.kept = HeadCells(ShownHead(sh)) \o (<<Len(others)>> \o FlattenSeq(KeptOf(others)))
          /\ y.text = TypeWords(sh) \o ListText(others)
      BY <1>3, Zenon DEF IsCollection
    <2>3. /\ x.kept = HeadCells(sh) \o (<<Len(members)>> \o FlattenSeq(KeptOf(members)))
          /\ x.text = TypeWords(h) \o ListText(members)
      BY <1>2, Zenon DEF IsCollection, sh
    <2> QED BY <1>1, <1>7, <1>9, <2>1, <2>2, <2>3, Zenon
  <1>11. y.some = x.some
    <2>1. Len(others) = Len(members)
      OBVIOUS
    <2>2. y.some = (\E i \in 1 .. Len(others) : others[i].some) /\ x.some = (\E i \in 1 .. n : members[i].some)
      BY <1>2, <1>3, Zenon DEF IsCollection, n
    <2>3. (\E i \in 1 .. Len(others) : others[i].some) = (\E i \in 1 .. n : members[i].some)
      BY <1>6, <2>1, Zenon DEF n
    <2> QED BY <2>2, <2>3, Zenon
  <1> DEFINE s == LeavesOf(members)
             t == LeavesOf(others)
  <1>12. x.leaves = FlattenSeq(s) /\ y.leaves = FlattenSeq(t)
    BY <1>2, <1>3, Zenon DEF IsCollection
  <1>13. s \in Seq(Seq(LeafPieces)) /\ t \in Seq(Seq(LeafPieces)) /\ Len(s) = n /\ Len(t) = n
    BY <1>5
  <1>16. \A i \in 1 .. n : Len(s[i]) = Len(t[i])
    BY <1>5, <1>6
  <1>17. \A i \in 1 .. n : \A j \in 1 .. Len(s[i]) : LeafSurvives(s[i][j], t[i][j])
    BY <1>5, <1>6
  <1> HIDE DEF s, t
  <1>14. Len(FlattenSeq(t)) = Len(FlattenSeq(s)) /\ \A k \in 0 .. n : End(s, k) = End(t, k)
    BY <1>13, <1>16, SameLayout
  <1>15. ASSUME NEW k \in 1 .. Len(FlattenSeq(s)) PROVE LeafSurvives(FlattenSeq(s)[k], FlattenSeq(t)[k])
    <2>0. Len(s) = n /\ Len(t) = n
      BY <1>13
    <2>1. PICK i \in 1 .. n : \E j \in 1 .. Len(s[i]) : k = End(s, i - 1) + j
      BY <1>13, FlattenPosition
    <2>2. PICK j \in 1 .. Len(s[i]) : k = End(s, i - 1) + j
      BY <2>1
    <2>7. i \in 1 .. Len(s) /\ i \in 1 .. Len(t) /\ j \in 1 .. Len(t[i])
      BY <2>0, <1>16
    <2>3. FlattenSeq(s)[End(s, i - 1) + j] = s[i][j]
      BY <1>13, <2>7, FlattenLayout
    <2>4. FlattenSeq(t)[End(t, i - 1) + j] = t[i][j]
      BY <1>13, <2>7, FlattenLayout
    <2>5. i - 1 \in 0 .. n
      BY <1>4
    <2>6. FlattenSeq(t)[k] = t[i][j] /\ FlattenSeq(s)[k] = s[i][j]
      BY <1>14, <2>2, <2>3, <2>4, <2>5, Zenon
    <2> QED BY <1>17, <2>6, Zenon
  <1> QED BY <1>10, <1>11, <1>12, <1>14, <1>15, Zenon DEF Survives

\* Every geometry survives as a geometry.
LEMMA TreeKept ==
    ASSUME NEW d \in Nat
    PROVE  \A x \in Trees[d] : \E y \in Trees[d] : Survives(x, y)
  <1> DEFINE P(k) == \A x \in Trees[k] : \E y \in Trees[k] : Survives(x, y)
             S == {k \in Nat : P(k)}
  <1>1. 0 \in S
    BY TreeCases
  <1>2. ASSUME NEW k \in Nat, k \in S PROVE k + 1 \in S
    <2> SUFFICES ASSUME NEW x \in Trees[k + 1] PROVE \E y \in Trees[k + 1] : Survives(x, y)
      OBVIOUS
    <2>1. CASE \E h \in LeafHeads : \E body \in Bodies(h) : x = Leaf(h, body)
      <3>1. PICK h \in LeafHeads : \E body \in Bodies(h) : x = Leaf(h, body)
        BY <2>1, Zenon
      <3>2. PICK body \in Bodies(h) : x = Leaf(h, body)
        BY <3>1, Zenon
      <3>3. PICK hh \in LeafHeads : \E again \in Bodies(hh) : Survives(x, Leaf(hh, again))
        BY <3>2, LeafKept
      <3>4. PICK again \in Bodies(hh) : Survives(x, Leaf(hh, again))
        BY <3>3
      <3>5. Leaf(hh, again) \in Trees[k + 1]
        BY TreeCases, Zenon
      <3> QED BY <3>4, <3>5
    <2>2. CASE \E h \in CollectionHeads : \E members \in Seq(Trees[k]) : x = Collection(h, members)
      <3>1. PICK h \in CollectionHeads, members \in Seq(Trees[k]) : x = Collection(h, members)
        BY <2>2, Zenon
      <3> DEFINE T == Trees[k]
                 others == [i \in 1 .. Len(members) |-> CHOOSE y \in T : Survives(members[i], y)]
      <3>2. \A y \in T : Form(y)
        BY TreeForm
      <3>3. members \in Seq(T) /\ \A z \in T : \E y \in T : Survives(z, y)
        BY <1>2
      <3> HIDE DEF T
      <3>4. \A i \in 1 .. Len(members) : others[i] \in T /\ Survives(members[i], others[i])
        BY <3>3
      <3>5. others \in Seq(T) /\ Len(others) = Len(members)
        BY <3>3, <3>4
      <3> HIDE DEF others
      <3> DEFINE y == Collection(ShownHead(h), others)
      <3>6. Survives(x, y)
        BY <3>1, <3>2, <3>3, <3>4, <3>5, CollectionKept
      <3>7. ShownHead(h) \in CollectionHeads
        BY HeadShown DEF CollectionHeads
      <3>8. y \in Trees[k + 1]
        BY <3>5, <3>7, TreeCases, Zenon DEF T
      <3> QED BY <3>6, <3>8
    <2> QED BY <2>1, <2>2, TreeCases, Zenon
  <1>3. Nat \subseteq S
    <2> HIDE DEF S
    <2> QED BY <1>1, <1>2, NatSubset
  <1> QED BY <1>3

-----------------------------------------------------------------------------
(***************************************************************************)
(* The writer of WKT writes the text of what stands in the cells.          *)
(***************************************************************************)
\* A writer of the elements of S.
Writes(element, S, g) ==
    \A y \in S : \A q \in Nat \ {0} :
        Stands(y.cells, g, q) => element[q] = Written(y.text, q + Len(y.cells))

\* The parts of what the writer returns.
LEMMA WrittenParts == \A t, at : Written(t, at).text = t /\ Written(t, at).at = at
  BY Zenon DEF Written

\* Four texts, one after the other.
Joint(a, b) == a \o b

\* Four texts are joined in any order.
LEMMA FourTexts ==
    ASSUME NEW T, NEW a \in Seq(T), NEW b \in Seq(T), NEW c \in Seq(T), NEW d \in Seq(T)
    PROVE  Joint(Joint(Joint(a, b), c), d) = Joint(a, Joint(b, Joint(c, d)))
  <1>1. (a \o b) \in Seq(T) /\ c \o d \in Seq(T)
    OBVIOUS
  <1>2. (a \o b) \o c \o d = (a \o b) \o (c \o d)
    BY SMTT(30), <1>1, ConcatAssociative
  <1>3. (a \o b) \o (c \o d) = a \o (b \o (c \o d))
    BY SMTT(30), <1>1, ConcatAssociative
  <1> QED BY <1>2, <1>3 DEF Joint

\* The first k parts of a list.
Begun(s, k) == Opened(FlattenSeq(SubSeq(s, 1, k)))

\* An element is added behind the elements before it.
LEMMA ElementAdded ==
    ASSUME NEW s \in Seq(Seq(Tokens)), NEW words \in Seq(Tokens), NEW j \in Nat, j + 1 \in 1 .. Len(s),
           s[j + 1] = Separated(j + 1, words)
    PROVE  \A at, to : AddElement(Written(Begun(s, j), at), j + 1, Written(words, to)) = Written(Begun(s, j + 1), to)
  <1> SUFFICES ASSUME NEW at, NEW to
               PROVE  AddElement(Written(Begun(s, j), at), j + 1, Written(words, to)) = Written(Begun(s, j + 1), to)
    OBVIOUS
  <1> DEFINE k == j + 1
             w == Written(Begun(s, j), at)
             element == Written(words, to)
             open == <<"(">>
             sep == IF k = 1 THEN <<>> ELSE <<",">>
             before == FlattenSeq(SubSeq(s, 1, j))
             after == FlattenSeq(SubSeq(s, 1, k))
  <1>1. open \in Seq(Tokens) /\ sep \in Seq(Tokens)
    <2>1. \A t \in Tokens : <<t>> \in Seq(Tokens)
      OBVIOUS
    <2>2. "(" \in Tokens /\ "," \in Tokens
      BY TokensKnown
    <2>3. <<"(">> \in Seq(Tokens) /\ <<",">> \in Seq(Tokens)
      BY <2>1, <2>2, Zenon
    <2>4. <<>> \in Seq(Tokens)
      OBVIOUS
    <2> QED BY <2>3, <2>4
  <1>2. before \in Seq(Tokens) /\ after = before \o s[k]
    <2>1. k \in 1 .. Len(s) /\ k - 1 = j
      OBVIOUS
    <2>2. j \in 0 .. Len(s) /\ k \in 0 .. Len(s)
      BY <2>1
    <2> HIDE DEF k
    <2> QED BY <2>1, <2>2, FlattenSteps
  <1>3. s[k] = sep \o words
    BY Zenon DEF Separated
  <1>4. AddElement(w, k, element) = Written((open \o before) \o sep \o words, to)
    <2>1. w.text = open \o before
      BY WrittenParts, Zenon DEF Opened, Begun
    <2>2. element.text = words /\ element.at = to
      BY WrittenParts, Zenon
    <2>3. AddElement(w, k, element) = Written(w.text \o sep \o element.text, element.at)
      BY Zenon DEF AddElement
    <2> QED BY <2>1, <2>2, <2>3, Zenon
  <1> HIDE DEF open, sep, before, after
  <1>5. (open \o before) \o sep \o words = open \o (before \o (sep \o words))
    <2>1. Joint(Joint(Joint(open, before), sep), words) = Joint(open, Joint(before, Joint(sep, words)))
      <3>1. words \in Seq(Tokens)
        OBVIOUS
      <3>2. before \in Seq(Tokens)
        BY <1>2
      <3> QED BY ONLY <1>1, <3>2, <3>1, FourTexts, SMT
    <2> QED BY ONLY <2>1 DEF Joint
  <1> QED BY <1>2, <1>3, <1>4, <1>5, Zenon DEF Opened, Begun, open, after

\* A list of elements that stand in the cells is written as they are.
LEMMA ListWritten ==
    ASSUME NEW S, \A y \in S : Shaped(y), NEW els \in Seq(S), NEW g \in Seq(Int), NEW at \in Nat \ {0},
           Stands(<<Len(els)>> \o FlattenSeq(CellsOf(els)), g, at), NEW element, Writes(element, S, g)
    PROVE  EncodeList(element, g, at) = Written(ListText(els), at + (1 + Len(FlattenSeq(CellsOf(els)))))
  <1> DEFINE n == Len(els)
             c == CellsOf(els)
             t == TextsOf(els)
             open == <<"(">>
  <1>1. /\ n \in Nat /\ c \in Seq(Seq(Int)) /\ Len(c) = n /\ t \in Seq(Seq(Tokens)) /\ Len(t) = n
        /\ \A i \in 1 .. n : els[i] \in S /\ Shaped(els[i])
        /\ \A i \in 1 .. n : c[i] = els[i].cells /\ t[i] = Separated(i, els[i].text)
        /\ FlattenSeq(c) \in Seq(Int)
    BY SeriesParts
  <1>2. <<n>> \in Seq(Int) /\ Len(<<n>>) = 1
    BY <1>1
  <1>3. Stands(<<n>>, g, at) /\ Stands(FlattenSeq(c), g, at + 1)
    <2> HIDE DEF n, c
    <2>1. Stands(<<n>> \o FlattenSeq(c), g, at)
      BY DEF n, c
    <2>2. at \in Nat
      OBVIOUS
    <2>3. Stands(<<n>>, g, at) /\ Stands(FlattenSeq(c), g, at + Len(<<n>>))
      BY <1>1, <1>2, <2>1, <2>2, StandsBoth
    <2> QED BY <1>2, <2>3
  <1>4. CountAt(g, at) = n
    BY <1>1, <1>3 DEF Stands, CountAt
  <1>20. CountAt(g, at) \in Nat
    BY <1>1, <1>4
  <1>21. PICK f : ListRun(f, element, g, at)
    BY <1>20, ListRuns, Zenon
  <1>5. /\ f[0] = Written(<<"(">>, at + 1)
        /\ \A k \in 1 .. CountAt(g, at) : f[k] = AddElement(f[k - 1], k, element[f[k - 1].at])
        /\ EncodeList(element, g, at) = Closed(f[CountAt(g, at)])
    BY <1>21, Zenon DEF ListRun
  <1> DEFINE P(k) == f[k] = Written(Begun(t, k), at + 1 + End(c, k))
             U == {k \in 0 .. n : P(k)}
  <1> HIDE DEF n, c, t
  <1>6. 0 \in U
    <2>1. FlattenSeq(SubSeq(t, 1, 0)) = <<>> /\ End(c, 0) = 0
      BY <1>1, FlattenSteps, FlattenLayout
    <2>2. Opened(<<>>) = <<"(">> /\ at + 1 + 0 = at + 1
      <3>1. <<"(">> \in Seq(Tokens)
        <4>1. \A z \in Tokens : <<z>> \in Seq(Tokens)
          OBVIOUS
        <4>2. "(" \in Tokens
          BY TokensKnown
        <4> QED BY <4>1, <4>2, Zenon
      <3>2. <<"(">> \o <<>> = <<"(">>
        BY ONLY <3>1
      <3>3. at + 1 + 0 = at + 1
        OBVIOUS
      <3> QED BY <3>2, <3>3, Zenon DEF Opened
    <2>3. P(0)
      BY <1>5, <2>1, <2>2, Zenon DEF Begun
    <2> QED BY <1>1, <2>3
  <1>7. ASSUME NEW k \in 0 .. n - 1, k \in U PROVE k + 1 \in U
    <2>1. k + 1 \in 1 .. n /\ (k + 1) - 1 = k /\ k + 1 \in 0 .. n /\ k \in 0 .. n
      BY <1>1
    <2> DEFINE q == at + 1 + End(c, k)
               y == els[k + 1]
    <2>2. y \in S /\ Shaped(y) /\ c[k + 1] = y.cells /\ t[k + 1] = Separated(k + 1, y.text)
      BY <1>1, <2>1
    <2>3. End(c, k) \in Nat /\ End(c, k + 1) = End(c, k) + Len(c[k + 1])
      BY <1>1, <2>1, FlattenLayout
    <2>4. q \in Nat \ {0}
      BY <2>3
    <2>5. Stands(y.cells, g, q)
      <3>1. at + 1 \in Nat
        OBVIOUS
      <3>2. Stands(c[k + 1], g, at + 1 + End(c, (k + 1) - 1))
        BY <1>1, <1>3, <2>1, <3>1, StandsFlat
      <3> QED BY <2>1, <2>2, <3>2, Zenon
    <2>6. element[q] = Written(y.text, q + Len(y.cells))
      BY <2>2, <2>4, <2>5, Zenon DEF Writes
    <2>7. f[k] = Written(Begun(t, k), q)
      BY <1>7
    <2>8. f[k].at = q
      BY <2>7, WrittenParts
    <2>9. f[k + 1] = AddElement(f[k], k + 1, element[q])
      BY <1>4, <1>5, <2>1, <2>8, Zenon
    <2>10. q + Len(y.cells) = at + 1 + End(c, k + 1)
      <3>1. Len(y.cells) \in Nat
        BY <2>2 DEF Shaped
      <3>2. Len(c[k + 1]) = Len(y.cells)
        BY <2>2
      <3> DEFINE a == End(c, k)
                 b == End(c, k + 1)
                 l == Len(y.cells)
      <3>3. a \in Nat /\ b = a + l /\ q = at + 1 + a /\ l \in Nat
        BY <2>3, <3>1, <3>2
      <3> HIDE DEF a, b, l, q, y
      <3>4. q + l = at + 1 + b
        BY <3>3
      <3> QED BY <3>4 DEF b, l
    <2>11. y.text \in Seq(Tokens) /\ k + 1 \in 1 .. Len(t)
      BY <1>1, <2>1, <2>2 DEF Shaped
    <2> HIDE DEF q, y
    <2>12. AddElement(f[k], k + 1, element[q])
             = Written(Begun(t, k + 1), q + Len(y.cells))
      <3>1. \A a, to : AddElement(Written(Begun(t, k), a), k + 1, Written(y.text, to)) = Written(Begun(t, k + 1), to)
        <4>1. t \in Seq(Seq(Tokens)) /\ k \in Nat
          BY <1>1, <2>1
        <4>2. t[k + 1] = Separated(k + 1, y.text) /\ y.text \in Seq(Tokens) /\ k + 1 \in 1 .. Len(t)
          BY <2>2, <2>11
        <4> QED BY ONLY <4>1, <4>2, ElementAdded, Zenon
      <3> QED BY <2>6, <2>7, <3>1, Zenon
    <2>13. P(k + 1)
      BY <2>9, <2>10, <2>12, Zenon
    <2> QED BY <2>1, <2>13
  <1>8. 0 .. n \subseteq U
    <2> HIDE DEF U
    <2> QED BY <1>1, <1>6, <1>7, UpTo
  <1>9. f[n] = Written(Begun(t, n), at + 1 + End(c, n))
    <2>1. n \in 0 .. n
      BY <1>1
    <2> QED BY <1>8, <2>1
  <1>10. FlattenSeq(SubSeq(t, 1, n)) = FlattenSeq(t) /\ End(c, n) = Len(FlattenSeq(c))
    <2>1. FlattenSeq(SubSeq(t, 1, Len(t))) = FlattenSeq(t)
      BY <1>1, FlattenSteps
    <2>2. End(c, Len(c)) = Len(FlattenSeq(c))
      BY <1>1, FlattenLayout
    <2> QED BY <1>1, <2>1, <2>2, Zenon
  <1>11. EncodeList(element, g, at) = Closed(f[n])
    BY <1>4, <1>5, Zenon
  <1>12. Closed(f[n]) = Written(Append(Opened(FlattenSeq(t)), ")"), at + 1 + Len(FlattenSeq(c)))
    <2>2. f[n] = Written(Opened(FlattenSeq(t)), at + 1 + Len(FlattenSeq(c)))
      BY <1>9, <1>10, Zenon DEF Begun
    <2>1. f[n].text = Opened(FlattenSeq(t)) /\ f[n].at = at + 1 + Len(FlattenSeq(c))
      <3> DEFINE w == f[n]
                 a == Opened(FlattenSeq(t))
                 b == at + 1 + Len(FlattenSeq(c))
      <3>1. w = Written(a, b)
        BY <2>2
      <3> HIDE DEF w, a, b
      <3>2. w.text = a /\ w.at = b
        BY ONLY <3>1, WrittenParts
      <3> QED BY <3>2 DEF w, a, b
    <2> QED BY <2>1, Zenon DEF Closed
  <1>13. at + 1 + Len(FlattenSeq(c)) = at + (1 + Len(FlattenSeq(c)))
    BY <1>1
  <1> QED BY <1>11, <1>12, <1>13, Zenon DEF ListText, t, c

\* A coordinate that stands in the cells is written as it is.
LEMMA CoordinateWritten ==
    ASSUME NEW n \in Nat, NEW g \in Seq(Int)
    PROVE  \A y \in Coordinates(n) : \A q \in Nat \ {0} :
               Stands(y.cells, g, q) =>
                   /\ Coordinate(g, q, n) = y.text
                   /\ EncodeCoordinate(g, q, n) = Written(y.text, q + Len(y.cells))
  <1> SUFFICES ASSUME NEW y \in Coordinates(n), NEW q \in Nat \ {0}, Stands(y.cells, g, q)
               PROVE  /\ Coordinate(g, q, n) = y.text
                      /\ EncodeCoordinate(g, q, n) = Written(y.text, q + Len(y.cells))
    OBVIOUS
  <1>1. PICK s \in [1 .. n -> Digit] : y = CoordinatePiece(s)
    BY Zenon DEF Coordinates
  <1>2. y.cells = s /\ Len(s) = n /\ s \in Seq(Int) /\ y.text = Shown(s)
    BY <1>1, CoordinateShape
  <1>3. \A i \in 1 .. n : g[q + i - 1] = s[i]
    BY <1>2 DEF Stands
  <1>4. y.text = [i \in 1 .. n |-> dstr(s[i])]
    BY <1>2, Zenon DEF Shown
  <1>5. [i \in 1 .. n |-> dstr(s[i])] = [i \in 1 .. n |-> dstr(g[q + i - 1])]
    BY <1>3
  <1>6. Coordinate(g, q, n) = y.text
    BY <1>4, <1>5, Zenon DEF Coordinate
  <1>7. Len(y.cells) = n
    BY <1>2
  <1> QED BY <1>6, <1>7, Zenon DEF EncodeCoordinate

\* A series is written by the writer of lists over the writer of its elements.
LEMMA SeriesWritten ==
    ASSUME NEW n \in Nat, NEW g \in Seq(Int), NEW level \in 0 .. 2
    PROVE  \A y \in Elements(level + 1, n) : \A q \in Nat \ {0} :
               Stands(y.cells, g, q) => EncodeSeries(g, q, level, n) = Written(y.text, q + Len(y.cells))
  <1>0. PICK f : SeriesRun(f, g, n)
    BY SeriesRuns
  <1>1. /\ \A at, l : EncodeSeries(g, at, l, n) = f[l + 1][at]
        /\ \A p \in Nat : f[0][p] = EncodeCoordinate(g, p, n)
        /\ \A d \in Nat : \A p \in Nat : f[d + 1][p] = EncodeList(f[d], g, p)
    BY <1>0 DEF SeriesRun
  <1> DEFINE P(l) == Writes(f[l], Elements(l, n), g)
  <1>2. P(0)
    <2>1. \A q \in Nat \ {0} : q \in Nat
      OBVIOUS
    <2> QED BY <1>1, <2>1, CoordinateWritten, ElementsBelow, ZenonT(30) DEF Writes
  <1>3. ASSUME NEW l \in 0 .. 2, P(l) PROVE P(l + 1)
    <2> DEFINE S == Elements(l, n)
    <2>1. Elements(l + 1, n) = SeriesOf(S)
      BY ElementsBelow
    <2>2. \A x \in S : Shaped(x)
      <3>1. l \in 0 .. 3
        OBVIOUS
      <3> QED BY <3>1, ElementShape
    <2> SUFFICES ASSUME NEW y \in SeriesOf(S), NEW q \in Nat \ {0}, Stands(y.cells, g, q)
                 PROVE  f[l + 1][q] = Written(y.text, q + Len(y.cells))
      BY <2>1, Zenon DEF Writes
    <2> HIDE DEF S
    <2>3. PICK els \in Seq(S) : y = SeriesPiece(els)
      BY DEF SeriesOf
    <2>4. y.cells = <<Len(els)>> \o FlattenSeq(CellsOf(els)) /\ y.text = ListText(els)
          /\ Len(y.cells) = 1 + Len(FlattenSeq(CellsOf(els)))
      BY <2>2, <2>3, SeriesShape
    <2>5. Writes(f[l], S, g)
      BY <1>3 DEF S
    <2>6. Stands(<<Len(els)>> \o FlattenSeq(CellsOf(els)), g, q)
      BY <2>4
    <2>7. EncodeList(f[l], g, q) = Written(ListText(els), q + (1 + Len(FlattenSeq(CellsOf(els)))))
      BY <2>2, <2>5, <2>6, ListWritten
    <2>8. f[l + 1][q] = EncodeList(f[l], g, q)
      <3>1. l \in Nat /\ q \in Nat
        OBVIOUS
      <3> QED BY <1>1, <3>1, Zenon
    <2> QED BY <2>4, <2>7, <2>8, Zenon
  <1> HIDE DEF P
  <1>4. P(1) /\ P(2) /\ P(3)
    <2>1. P(0 + 1)
      BY <1>2, <1>3
    <2>2. P(1)
      BY <2>1
    <2>3. P(1 + 1)
      BY <2>2, <1>3
    <2>4. P(2)
      BY <2>3
    <2>5. P(2 + 1)
      BY <2>4, <1>3
    <2> QED BY <2>2, <2>4, <2>5
  <1>5. P(level + 1)
    <2>1. level = 0 \/ level = 1 \/ level = 2
      OBVIOUS
    <2> QED BY <2>1, <1>4
  <1> QED BY <1>1, <1>5, Zenon DEF P, Writes

\* The head of what stands in the cells is read there, and its rest stands behind it.
LEMMA HeadStands ==
    ASSUME NEW h \in Heads, NEW rest \in Seq(Int), NEW g \in Seq(Int), NEW q \in Nat,
           Stands(HeadCells(h) \o rest, g, q)
    PROVE  readhdr(g, q) = h /\ Stands(rest, g, q + 2)
  <1>1. /\ HeadCells(h) \in Seq(Int) /\ Len(HeadCells(h)) = 2
        /\ HeadCells(h)[2] = TypeCell(TypeCode(h.type), h.z, h.m)
    BY HeadDims
  <1>2. Stands(HeadCells(h), g, q) /\ Stands(rest, g, q + Len(HeadCells(h)))
    BY <1>1, StandsBoth
  <1> DEFINE a == HeadCells(h)
  <1> HIDE DEF a
  <1>3. g[q + 2 - 1] = a[2]
    <2>1. Len(a) = 2 /\ \A i \in 1 .. Len(a) : g[q + i - 1] = a[i]
      BY <1>1, <1>2 DEF Stands, a
    <2>2. 2 \in 1 .. Len(a)
      BY <2>1
    <2> QED BY <2>1, <2>2
  <1>4. q + 2 - 1 = q + 1
    OBVIOUS
  <1>5. g[q + 1] = TypeCell(TypeCode(h.type), h.z, h.m)
    BY <1>1, <1>3, <1>4 DEF a
  <1>6. readhdr(g, q) = h
    BY <1>5, HeadRead
  <1> QED BY <1>1, <1>2, <1>6

\* A leaf is written as it is, whatever writes the geometries in collections.
LEMMA LeafWritten ==
    ASSUME NEW h \in LeafHeads, NEW body \in Bodies(h), NEW g \in Seq(Int), NEW q \in Nat \ {0},
           Stands(HeadCells(h) \o body.cells, g, q), NEW members
    PROVE  EncodeGeometry(members, g, q) = Written(TypeWords(h) \o BodyText(h, body), q + (2 + Len(body.cells)))
  <1>0. h \in Heads /\ h.type # "GEOMETRYCOLLECTION" /\ h.type \in TypeNames
    BY HeadParts DEF LeafHeads
  <1>1. /\ Shaped(body)
        /\ h.type = "POINT" => /\ body \in Coordinates(Dims(h))
                               /\ BodyText(h, body) = Append(Opened(body.text), ")")
        /\ h.type # "POINT" => /\ body \in Elements(Level(h.type) + 1, Dims(h))
                               /\ BodyText(h, body) = body.text
                               /\ Level(h.type) + 1 \in 1 .. 3
    BY BodyShape
  <1>2. body.cells \in Seq(Int) /\ Len(body.cells) \in Nat
    BY <1>1 DEF Shaped
  <1>3. readhdr(g, q) = h /\ Stands(body.cells, g, q + 2)
    BY <1>0, <1>2, HeadStands
  <1>4. Dims(h) \in Nat
    BY <1>0, HeadDims
  <1>5. q + 2 \in Nat \ {0} /\ q + 2 + Len(body.cells) = q + (2 + Len(body.cells))
    <2> DEFINE l == Len(body.cells)
    <2>1. l \in Nat
      BY <1>2
    <2> HIDE DEF l
    <2>2. q + 2 \in Nat \ {0} /\ q + 2 + l = q + (2 + l)
      BY <2>1
    <2> QED BY <2>2 DEF l
  <1>6. CASE h.type = "POINT"
    <2>1. Coordinate(g, q + 2, Dims(h)) = body.text
      BY <1>1, <1>3, <1>4, <1>5, <1>6, CoordinateWritten
    <2>2. Len(body.cells) = Dims(h)
      <3>1. body \in Coordinates(Dims(h))
        BY <1>1, <1>6
      <3>2. PICK s \in [1 .. Dims(h) -> Digit] : body = CoordinatePiece(s)
        BY <3>1, Zenon DEF Coordinates
      <3> QED BY ZenonT(30), <3>2, <1>4, CoordinateShape
    <2> DEFINE w == Written(<<"(">> \o Coordinate(g, q + 2, Dims(h)), q + 2 + Dims(h))
    <2>3. EncodeGeometry(members, g, q) = Written(TypeWords(h) \o Closed(w).text, Closed(w).at)
      BY <1>3, <1>6, Zenon DEF EncodeGeometry
    <2>4. w.text = Opened(body.text) /\ w.at = q + 2 + Dims(h)
      BY <2>1, WrittenParts, Zenon DEF Opened
    <2> HIDE DEF w
    <2>5. Closed(w) = Written(Append(Opened(body.text), ")"), q + 2 + Dims(h))
      BY <2>4, Zenon DEF Closed
    <2>6. Closed(w).text = BodyText(h, body) /\ Closed(w).at = q + 2 + Dims(h)
      <3>1. Closed(w).text = Append(Opened(body.text), ")") /\ Closed(w).at = q + 2 + Dims(h)
        BY <2>5, WrittenParts, Zenon
      <3>2. BodyText(h, body) = Append(Opened(body.text), ")")
        BY <1>1, <1>6
      <3> QED BY <3>1, <3>2, Zenon
    <2>7. q + 2 + Dims(h) = q + (2 + Len(body.cells))
      BY <1>5, <2>2
    <2> QED BY <2>3, <2>6, <2>7, Zenon
  <1>7. CASE h.type # "POINT"
    <2> DEFINE l == Level(h.type)
               w == EncodeSeries(g, q + 2, l, Dims(h))
    <2>1. l \in 0 .. 2 /\ body \in Elements(l + 1, Dims(h))
      BY <1>0, <1>1, <1>7, Levels
    <2>2. w = Written(body.text, q + 2 + Len(body.cells))
      <3> HIDE DEF l
      <3> QED BY ZenonT(30), <1>3, <1>4, <1>5, <2>1, SeriesWritten
    <2>3. EncodeGeometry(members, g, q) = Written(TypeWords(h) \o w.text, w.at)
      BY <1>0, <1>3, <1>7, Zenon DEF EncodeGeometry
    <2> HIDE DEF w
    <2>4. w.text = body.text /\ w.at = q + 2 + Len(body.cells)
      BY <2>2, WrittenParts, Zenon
    <2> QED BY <1>1, <1>5, <1>7, <2>3, <2>4, Zenon
  <1> QED BY <1>6, <1>7

\* A collection is written as it is if the geometries in it are.
LEMMA CollectionWritten ==
    ASSUME NEW S, \A y \in S : Form(y), NEW members \in Seq(S), NEW h \in CollectionHeads,
           NEW x, x = Collection(h, members), NEW g \in Seq(Int), NEW q \in Nat \ {0},
           Stands(x.cells, g, q), NEW below, Writes(below, S, g)
    PROVE  EncodeGeometry(below, g, q) = Written(x.text, q + Len(x.cells))
  <1>0. h \in Heads /\ h.type = "GEOMETRYCOLLECTION"
    BY DEF CollectionHeads
  <1> DEFINE rest == <<Len(members)>> \o FlattenSeq(CellsOf(members))
             l == Len(FlattenSeq(CellsOf(members)))
  <1>1. IsCollection(x, h, members)
    BY CollectionShape
  <1>2. x.cells = HeadCells(h) \o rest /\ Len(x.cells) = 3 + l /\ x.text = TypeWords(h) \o ListText(members)
    BY <1>1 DEF IsCollection
  <1>3. \A y \in S : Shaped(y)
    BY MemberParts
  <1>4. Len(members) \in Nat /\ FlattenSeq(CellsOf(members)) \in Seq(Int)
    BY <1>3, SeriesParts
  <1>5. rest \in Seq(Int) /\ l \in Nat
    BY <1>4, Counted
  <1>6. readhdr(g, q) = h /\ Stands(rest, g, q + 2)
    <2> HIDE DEF rest
    <2> QED BY <1>0, <1>2, <1>5, HeadStands
  <1>7. q + 2 \in Nat \ {0} /\ q + 2 + (1 + l) = q + (3 + l)
    <2> HIDE DEF l
    <2> QED BY <1>5
  <1> DEFINE w == EncodeList(below, g, q + 2)
  <1>8. w = Written(ListText(members), q + 2 + (1 + l))
    BY <1>3, <1>6, <1>7, ListWritten
  <1>9. EncodeGeometry(below, g, q) = Written(TypeWords(h) \o w.text, w.at)
    BY <1>0, <1>6, Zenon DEF EncodeGeometry
  <1> HIDE DEF w, l
  <1>10. w.text = ListText(members) /\ w.at = q + 2 + (1 + l)
    BY <1>8, WrittenParts, Zenon
  <1> QED BY <1>2, <1>7, <1>9, <1>10, Zenon

\* A geometry that stands in the cells is written as it is, and the writer ends behind it.
LEMMA GeometryWritten ==
    ASSUME NEW d \in Nat, NEW g \in Seq(Int)
    PROVE  \A x \in Trees[d] : \A q \in Nat \ {0} :
               Stands(x.cells, g, q) => geomEncodeWKTInner(g, q) = Written(x.text, q + Len(x.cells))
  <1>1. PICK f : /\ \A at : geomEncodeWKTInner(g, at) = f[Len(g)][at]
                 /\ \A k \in Nat : \A p \in Nat : f[k + 1][p] = EncodeGeometry(f[k], g, p)
    BY EncodeLevels
  <1> DEFINE U == {k \in Nat : Writes(f[k], Trees[k], g)}
  <1>2. 0 \in U
    BY TreesUnfolded DEF Writes
  <1>3. ASSUME NEW k \in Nat, k \in U PROVE k + 1 \in U
    <2>1. \A y \in Trees[k] : Form(y)
      BY TreeForm
    <2>2. Writes(f[k], Trees[k], g)
      BY <1>3
    <2>3. ASSUME NEW x \in Trees[k + 1], NEW q \in Nat \ {0}, Stands(x.cells, g, q)
          PROVE  f[k + 1][q] = Written(x.text, q + Len(x.cells))
      <3>1. f[k + 1][q] = EncodeGeometry(f[k], g, q)
        <4>1. q \in Nat
          OBVIOUS
        <4> QED BY <1>1, <4>1, Zenon
      <3>2. CASE \E h \in LeafHeads : \E body \in Bodies(h) : x = Leaf(h, body)
        <4>1. PICK h \in LeafHeads : \E body \in Bodies(h) : x = Leaf(h, body)
          BY <3>2
        <4>2. PICK body \in Bodies(h) : x = Leaf(h, body)
          BY <4>1
        <4> DEFINE piece == LeafPiece(h, body)
        <4>3. piece = LeafPiece(h, body)
          OBVIOUS
        <4> HIDE DEF piece
        <4>4. IsLeaf(piece, h, body) /\ x.cells = piece.cells /\ x.text = piece.text
          BY <4>2, <4>3, LeafForm
        <4>5. Len(piece.cells) = 2 + Len(body.cells)
          BY <4>3, LeafShape
        <4>6. x.cells = HeadCells(h) \o body.cells /\ x.text = TypeWords(h) \o BodyText(h, body)
          BY <4>4, Zenon DEF IsLeaf
        <4>7. Stands(HeadCells(h) \o body.cells, g, q)
          BY <2>3, <4>6, Zenon
        <4>8. EncodeGeometry(f[k], g, q) = Written(TypeWords(h) \o BodyText(h, body), q + (2 + Len(body.cells)))
          BY <4>7, LeafWritten
        <4>9. Len(x.cells) = 2 + Len(body.cells)
          BY <4>4, <4>5, Zenon
        <4> QED BY <3>1, <4>6, <4>8, <4>9, Zenon
      <3>3. CASE \E h \in CollectionHeads : \E members \in Seq(Trees[k]) : x = Collection(h, members)
        <4>1. PICK h \in CollectionHeads : \E members \in Seq(Trees[k]) : x = Collection(h, members)
          BY <3>3
        <4>2. PICK members \in Seq(Trees[k]) : x = Collection(h, members)
          BY <4>1
        <4> DEFINE S == Trees[k]
                   below == f[k]
        <4>3. /\ \A y \in S : Form(y)
              /\ members \in Seq(S) /\ Writes(below, S, g) /\ Stands(x.cells, g, q)
          BY <2>1, <2>2, <2>3
        <4> HIDE DEF S, below
        <4>4. EncodeGeometry(below, g, q) = Written(x.text, q + Len(x.cells))
          BY <4>2, <4>3, CollectionWritten
        <4> QED BY <3>1, <4>4 DEF below
      <3> QED BY <3>2, <3>3, TreeCases
    <2>4. Writes(f[k + 1], Trees[k + 1], g)
      BY <2>3 DEF Writes
    <2> QED BY <2>4
  <1>4. Nat \subseteq U
    <2> HIDE DEF U
    <2> QED BY <1>2, <1>3, NatSubset
  <1> SUFFICES ASSUME NEW x \in Trees[d], NEW q \in Nat \ {0}, Stands(x.cells, g, q)
               PROVE  geomEncodeWKTInner(g, q) = Written(x.text, q + Len(x.cells))
    OBVIOUS
  <1>5. Len(g) \in Nat /\ Len(x.cells) \in Nat /\ Len(x.cells) <= Len(g)
    <2>1. x.cells \in Seq(Int)
      BY TreeForm DEF Form, Shaped
    <2> QED BY <2>1 DEF Stands
  <1>6. x \in Trees[Len(g)]
    <2>1. x \in Trees[Len(x.cells)]
      BY TreeDepth
    <2> QED BY <2>1, <1>5, TreesMonotonic
  <1>7. Writes(f[Len(g)], Trees[Len(g)], g)
    BY <1>4, <1>5
  <1> QED BY <1>1, <1>6, <1>7, Zenon DEF Writes

-----------------------------------------------------------------------------
(***************************************************************************)
(* The steps of the reader of WKT, field by field.                         *)
(***************************************************************************)
SameBuffer(c, d) ==
    /\ d.g = c.g /\ d.heap = c.heap
    /\ d.writtenCoord = c.writtenCoord /\ d.mustZ = c.mustZ /\ d.mustM = c.mustM

SameWords(c, d) == d.hasZ = c.hasZ /\ d.hasM = c.hasM /\ d.isEmpty = c.isEmpty

SameNumbers(c, d) ==
    /\ d.x = c.x /\ d.y = c.y /\ d.z = c.z /\ d.m = c.m
    /\ d.foundZ = c.foundZ /\ d.foundM = c.foundM

\* The fields of a context.
LEMMA ContextFields ==
    ASSUME NEW c \in Context
    PROVE  /\ c.p \in Seq(Tokens) /\ c.err \in {"none", "input"} /\ c.g \in Seq(Int) /\ c.heap \in Int
           /\ c.hasZ \in BOOLEAN /\ c.hasM \in BOOLEAN /\ c.isEmpty \in BOOLEAN
           /\ c.x \in Digit /\ c.y \in Digit /\ c.z \in Digit /\ c.m \in Digit
           /\ c.foundZ \in BOOLEAN /\ c.foundM \in BOOLEAN
           /\ c.writtenCoord \in BOOLEAN /\ c.mustZ \in BOOLEAN /\ c.mustM \in BOOLEAN
  BY DEF Context, Digit

\* No more is left of the text.
Shorter(c, d) == Len(d.p) <= Len(c.p)

\* Less than less is less.
LEMMA ShorterStill ==
    ASSUME NEW a \in Context, NEW b \in Context, NEW c \in Context, Shorter(a, b), Shorter(b, c)
    PROVE  Shorter(a, c)
  <1>1. Len(a.p) \in Nat /\ Len(b.p) \in Nat /\ Len(c.p) \in Nat
    BY ContextFields
  <1> QED BY <1>1 DEF Shorter

\* Tokens are skipped.
LEMMA Skipped ==
    ASSUME NEW c \in Context, NEW n \in Nat
    PROVE  /\ Skip(c, n) \in Context /\ Skip(c, n).p = SubSeq(c.p, n + 1, Len(c.p)) /\ Skip(c, n).err = c.err
           /\ SameBuffer(c, Skip(c, n)) /\ SameWords(c, Skip(c, n)) /\ SameNumbers(c, Skip(c, n))
           /\ Shorter(c, Skip(c, n))
  <1> DEFINE rest == SubSeq(c.p, n + 1, Len(c.p))
  <1>1. c.p \in Seq(Tokens)
    BY ContextFields
  <1>2. rest \in Seq(Tokens)
    BY <1>1
  <1>3. Skip(c, n) = [c EXCEPT !.p = rest]
    BY DEF Skip
  <1> HIDE DEF rest
  <1>4. [c EXCEPT !.p = rest] \in Context
    BY <1>2 DEF Context
  <1>5. /\ [c EXCEPT !.p = rest].p = rest /\ [c EXCEPT !.p = rest].err = c.err
        /\ SameBuffer(c, [c EXCEPT !.p = rest]) /\ SameWords(c, [c EXCEPT !.p = rest])
        /\ SameNumbers(c, [c EXCEPT !.p = rest])
    BY DEF Context, SameBuffer, SameWords, SameNumbers
  <1>6. Len(rest) <= Len(c.p)
    <2> DEFINE s == c.p
    <2> HIDE DEF s
    <2>1. s \in Seq(Tokens)
      BY <1>1 DEF s
    <2>2. Len(SubSeq(s, n + 1, Len(s))) <= Len(s)
      BY ONLY <2>1, n \in Nat
    <2> QED BY <2>2 DEF s, rest
  <1>7. Shorter(c, Skip(c, n))
    BY <1>3, <1>5, <1>6 DEF Shorter
  <1> QED BY <1>3, <1>4, <1>5, <1>7 DEF rest

\* A failure leaves everything as it is.
LEMMA FailedFields ==
    ASSUME NEW c \in Context
    PROVE  /\ Failed(c) \in Context /\ Failed(c).err = "input" /\ Failed(c).heap = c.heap
  BY DEF Context, Failed

\* Cells are written to the end of the buffer.
LEMMA GrowFields ==
    ASSUME NEW c \in Context, NEW cells \in Seq(Int)
    PROVE  /\ Grow(c, cells) \in Context /\ Grow(c, cells).g = c.g \o cells
           /\ Grow(c, cells).p = c.p /\ Grow(c, cells).err = c.err /\ Grow(c, cells).heap = c.heap
           /\ Grow(c, cells).writtenCoord = c.writtenCoord
           /\ Grow(c, cells).mustZ = c.mustZ /\ Grow(c, cells).mustM = c.mustM
           /\ SameWords(c, Grow(c, cells)) /\ SameNumbers(c, Grow(c, cells))
  <1> DEFINE g == c.g \o cells
  <1>1. c.g \in Seq(Int)
    BY ContextFields
  <1>2. g \in Seq(Int)
    BY <1>1, ConcatProperties
  <1>3. Grow(c, cells) = [c EXCEPT !.g = g]
    BY DEF Grow
  <1> HIDE DEF g
  <1>4. [c EXCEPT !.g = g] \in Context
    BY <1>2 DEF Context
  <1> DEFINE d == [c EXCEPT !.g = g]
  <1>5. /\ d.g = g /\ d.p = c.p /\ d.err = c.err /\ d.heap = c.heap /\ d.writtenCoord = c.writtenCoord
        /\ d.mustZ = c.mustZ /\ d.mustM = c.mustM /\ SameWords(c, d) /\ SameNumbers(c, d)
    BY DEF Context, SameWords, SameNumbers
  <1> QED BY <1>3, <1>4, <1>5 DEF g

\* The words after the name.
LEMMA WordFields ==
    ASSUME NEW c \in Context
    PROVE  /\ decodeWord(c) \in Context /\ decodeWord(c).err = c.err
           /\ decodeWord(c).hasZ = (Ahead(c, 1) \in {"Z", "ZM"})
           /\ decodeWord(c).hasM = (Ahead(c, 1) \in {"M", "ZM"})
           /\ decodeWord(c).isEmpty = c.isEmpty
           /\ decodeWord(c).p = Skip(c, IF Ahead(c, 1) \in {"Z", "M", "ZM"} THEN 1 ELSE 0).p
           /\ SameBuffer(c, decodeWord(c)) /\ SameNumbers(c, decodeWord(c)) /\ Shorter(c, decodeWord(c))
  <1> DEFINE n == IF Ahead(c, 1) \in {"Z", "M", "ZM"} THEN 1 ELSE 0
             b == Skip(c, n)
             hasZ == Ahead(c, 1) \in {"Z", "ZM"}
             hasM == Ahead(c, 1) \in {"M", "ZM"}
  <1>1. n \in Nat /\ hasZ \in BOOLEAN /\ hasM \in BOOLEAN
    OBVIOUS
  <1>2. decodeWord(c) = [b EXCEPT !.hasZ = hasZ, !.hasM = hasM]
    BY DEF decodeWord
  <1> HIDE DEF n, hasZ, hasM
  <1>3. /\ b \in Context /\ b.err = c.err /\ SameBuffer(c, b) /\ SameWords(c, b) /\ SameNumbers(c, b)
        /\ Shorter(c, b)
    BY <1>1, Skipped
  <1> HIDE DEF b
  <1> DEFINE d == [b EXCEPT !.hasZ = hasZ, !.hasM = hasM]
  <1>4. d \in Context
    BY <1>1, <1>3 DEF Context
  <1>5. /\ d.hasZ = hasZ /\ d.hasM = hasM /\ d.isEmpty = b.isEmpty /\ d.p = b.p /\ d.err = b.err
        /\ SameBuffer(b, d) /\ SameNumbers(b, d)
    BY <1>3 DEF Context, SameBuffer, SameNumbers
  <1>6. d.isEmpty = c.isEmpty /\ SameBuffer(c, d) /\ SameNumbers(c, d)
    BY <1>3, <1>5 DEF SameBuffer, SameNumbers, SameWords
  <1>7. d = decodeWord(c)
    BY <1>2
  <1>8. Shorter(c, d)
    BY <1>3, <1>5 DEF Shorter
  <1> HIDE DEF d
  <1> QED BY <1>3, <1>4, <1>5, <1>6, <1>7, <1>8 DEF b, n, hasZ, hasM

\* EMPTY or a bracket.
LEMMA EmptyFields ==
    ASSUME NEW c \in Context
    PROVE  /\ decodeEmpty(c) \in Context /\ decodeEmpty(c).heap = c.heap
           /\ decodeEmpty(c).err = "none" => /\ SameBuffer(c, decodeEmpty(c)) /\ SameNumbers(c, decodeEmpty(c))
                                             /\ decodeEmpty(c).hasZ = c.hasZ /\ decodeEmpty(c).hasM = c.hasM
                                             /\ c.err = "none" /\ Shorter(c, decodeEmpty(c))
  <1>1. CASE Ahead(c, 1) = "EMPTY"
    <2> DEFINE b == Skip(c, 1)
               d == [b EXCEPT !.isEmpty = TRUE]
    <2>1. /\ b \in Context /\ b.err = c.err /\ SameBuffer(c, b) /\ SameWords(c, b) /\ SameNumbers(c, b)
          /\ Shorter(c, b)
      BY Skipped
    <2>2. decodeEmpty(c) = d
      BY <1>1 DEF decodeEmpty
    <2> HIDE DEF b
    <2>3. d \in Context
      BY <2>1 DEF Context
    <2>4. d.err = b.err /\ SameBuffer(b, d) /\ SameNumbers(b, d) /\ d.hasZ = b.hasZ /\ d.hasM = b.hasM
      BY <2>1 DEF Context, SameBuffer, SameNumbers
    <2>5. d.p = b.p
      BY <2>1 DEF Context
    <2> HIDE DEF d
    <2> QED BY <2>1, <2>2, <2>3, <2>4, <2>5 DEF SameBuffer, SameNumbers, SameWords, Shorter
  <1>2. CASE Ahead(c, 1) = "("
    <2>1. decodeEmpty(c) = c
      BY <1>2 DEF decodeEmpty
    <2>2. Shorter(c, c)
      BY ContextFields DEF Shorter
    <2> QED BY <2>1, <2>2 DEF SameBuffer, SameNumbers
  <1>3. CASE Ahead(c, 1) \notin {"EMPTY", "("}
    <2>1. decodeEmpty(c) = Failed(c)
      BY <1>3 DEF decodeEmpty
    <2> QED BY <2>1, FailedFields
  <1> QED BY <1>1, <1>2, <1>3

\* The words of a geometry.
LEMMA HeadFields ==
    ASSUME NEW c \in Context
    PROVE  /\ decodeHead(c) \in Context /\ decodeHead(c).heap = c.heap
           /\ decodeHead(c).err = "none" => /\ SameBuffer(c, decodeHead(c)) /\ SameNumbers(c, decodeHead(c))
                                            /\ c.err = "none" /\ Shorter(c, decodeHead(c))
  <1> DEFINE b == decodeWord(c)
  <1>1. b \in Context /\ b.err = c.err /\ SameBuffer(c, b) /\ SameNumbers(c, b) /\ Shorter(c, b)
    BY WordFields
  <1>2. decodeHead(c) = decodeEmpty(b)
    BY DEF decodeHead
  <1> HIDE DEF b
  <1> DEFINE d == decodeEmpty(b)
  <1>3. /\ d \in Context /\ d.heap = b.heap
        /\ d.err = "none" => SameBuffer(b, d) /\ SameNumbers(b, d) /\ b.err = "none" /\ Shorter(b, d)
    BY <1>1, EmptyFields
  <1> HIDE DEF d
  <1>4. d.err = "none" => Shorter(c, d)
    BY <1>1, <1>3, ShorterStill
  <1> QED BY <1>1, <1>2, <1>3, <1>4 DEF d, SameBuffer, SameNumbers

\* A number that comes next is one of the text.
LEMMA NumberAhead ==
    ASSUME NEW c \in Context, NEW i \in Nat \ {0}, IsNumber(Ahead(c, i))
    PROVE  i \in 1 .. Len(c.p) /\ strtod(c.p[i]) \in Digit
  <1>0. c.p \in Seq(Tokens)
    BY ContextFields
  <1>1. PICK n \in Digit : dstr(n) = Ahead(c, i)
    BY DEF IsNumber, Digit
  <1>2. Ahead(c, i) # "end"
    BY <1>1, Numbers
  <1>3. i <= Len(c.p) /\ Ahead(c, i) = c.p[i]
    BY <1>2 DEF Ahead
  <1>4. strtod(c.p[i]) = n
    BY <1>1, <1>3, Numbers
  <1>5. Len(c.p) \in Nat
    BY <1>0
  <1> QED BY <1>1, <1>3, <1>4, <1>5

\* The numbers that are taken are those of a coordinate.
LEMMA NumbersCounted ==
    ASSUME NEW c
    PROVE  NumbersAhead(c) \in 2 .. 4
  <1> DEFINE ends(n) == Ahead(c, n + 1) \in {")", ","}
             P(k) == (k = 4 \/ ends(k)) /\ \A j \in 2 .. k - 1 : ~ends(j)
  <1>1. \E k \in 2 .. 4 : P(k)
    <2>1. CASE ends(2)
      <3>1. \A j \in 2 .. 2 - 1 : FALSE
        OBVIOUS
      <3>2. P(2)
        BY <2>1, <3>1, Zenon
      <3>3. 2 \in 2 .. 4
        OBVIOUS
      <3> QED BY <3>2, <3>3, Zenon
    <2>2. CASE ~ends(2) /\ ends(3)
      <3>1. \A j \in 2 .. 3 - 1 : j = 2
        OBVIOUS
      <3>2. P(3)
        BY <2>2, <3>1, Zenon
      <3>3. 3 \in 2 .. 4
        OBVIOUS
      <3> QED BY <3>2, <3>3, Zenon
    <2>3. CASE ~ends(2) /\ ~ends(3)
      <3>1. \A j \in 2 .. 4 - 1 : j = 2 \/ j = 3
        OBVIOUS
      <3>2. P(4)
        BY <2>3, <3>1, Zenon
      <3>3. 4 \in 2 .. 4
        OBVIOUS
      <3> QED BY <3>2, <3>3, Zenon
    <2> QED BY <2>1, <2>2, <2>3
  <1>2. NumbersAhead(c) = CHOOSE k \in 2 .. 4 : P(k)
    BY DEF NumbersAhead
  <1> HIDE DEF P
  <1> QED BY <1>1, <1>2

\* What reading the numbers of a coordinate leaves alone.
NumbersRead(c, d) ==
    /\ d \in Context /\ d.heap = c.heap
    /\ d.err = "none" => c.err = "none" /\ SameBuffer(c, d) /\ SameWords(c, d) /\ Shorter(c, d)

\* A coordinate is put into the fields.
Put(c, n, x, y, z, m, foundZ, foundM) ==
    [Skip(c, n) EXCEPT !.x = x, !.y = y, !.z = z, !.m = m, !.foundZ = foundZ, !.foundM = foundM]

\* The numbers of a coordinate are numbers of one digit, and the rest is as it should be.
Puttable(c, n, x, y, z, m, foundZ, foundM) ==
    /\ c \in Context /\ n \in Nat /\ x \in Digit /\ y \in Digit /\ z \in Digit /\ m \in Digit
    /\ foundZ \in BOOLEAN /\ foundM \in BOOLEAN

\* The numbers are put one after the other.
LEMMA NumbersPut ==
    ASSUME NEW c, NEW n, NEW x, NEW y, NEW z, NEW m, NEW foundZ, NEW foundM,
           Puttable(c, n, x, y, z, m, foundZ, foundM), NEW d, d = Put(c, n, x, y, z, m, foundZ, foundM)
    PROVE  /\ NumbersRead(c, d) /\ d.err = c.err /\ SameBuffer(c, d) /\ SameWords(c, d)
           /\ d.x = x /\ d.y = y /\ d.z = z /\ d.m = m /\ d.foundZ = foundZ /\ d.foundM = foundM
           /\ d.p = SubSeq(c.p, n + 1, Len(c.p))
  <1>0. /\ c \in Context /\ n \in Nat /\ x \in Digit /\ y \in Digit /\ z \in Digit /\ m \in Digit
        /\ foundZ \in BOOLEAN /\ foundM \in BOOLEAN
    BY DEF Puttable
  <1> DEFINE b == Skip(c, n)
  <1>1. /\ b \in Context /\ b.err = c.err /\ SameBuffer(c, b) /\ SameWords(c, b)
        /\ b.p = SubSeq(c.p, n + 1, Len(c.p)) /\ Shorter(c, b)
    BY <1>0, Skipped
  <1> HIDE DEF b
  <1>2. d = [b EXCEPT !.x = x, !.y = y, !.z = z, !.m = m, !.foundZ = foundZ, !.foundM = foundM]
    BY DEF b, Put
  <1>3. d \in Context
    <2> DEFINE e == [b EXCEPT !.x = x, !.y = y, !.z = z]
    <2>1. e \in Context
      BY <1>0, <1>1 DEF Context, Digit
    <2>2. d = [e EXCEPT !.m = m, !.foundZ = foundZ, !.foundM = foundM]
      BY <1>1, <1>2 DEF Context
    <2> HIDE DEF e
    <2>3. [e EXCEPT !.m = m, !.foundZ = foundZ, !.foundM = foundM] \in Context
      BY <1>0, <2>1 DEF Context, Digit
    <2> QED BY <2>2, <2>3
  <1>4. /\ d.err = b.err /\ SameBuffer(b, d) /\ SameWords(b, d) /\ d.p = b.p
        /\ d.x = x /\ d.y = y /\ d.z = z /\ d.m = m /\ d.foundZ = foundZ /\ d.foundM = foundM
    BY <1>1, <1>2 DEF Context, SameBuffer, SameWords
  <1>5. SameBuffer(c, d) /\ SameWords(c, d)
    BY <1>1, <1>4 DEF SameBuffer, SameWords
  <1>6. d.heap = c.heap
    BY <1>5 DEF SameBuffer
  <1>7. Shorter(c, d)
    BY <1>1, <1>4 DEF Shorter
  <1> QED BY <1>1, <1>3, <1>4, <1>5, <1>6, <1>7 DEF NumbersRead

\* The numbers that the words ask for.
LEMMA DeclaredRead ==
    ASSUME NEW c \in Context
    PROVE  NumbersRead(c, DeclaredNumbers(c))
  <1> DEFINE n == 2 + (IF c.hasZ THEN 1 ELSE 0) + (IF c.hasM THEN 1 ELSE 0)
             z == IF c.hasZ THEN strtod(c.p[3]) ELSE 0
             m == IF c.hasM THEN strtod(c.p[n]) ELSE 0
  <1>0. c.hasZ \in BOOLEAN /\ c.hasM \in BOOLEAN
    BY ContextFields
  <1>1. CASE \E i \in 1 .. n : ~IsNumber(Ahead(c, i))
    <2>1. DeclaredNumbers(c) = Failed(c)
      BY <1>1 DEF DeclaredNumbers
    <2> QED BY <2>1, FailedFields DEF NumbersRead
  <1>2. CASE \A i \in 1 .. n : IsNumber(Ahead(c, i))
    <2>1. n \in 2 .. 4 /\ (c.hasZ => 3 \in 1 .. n) /\ n \in 1 .. n
      BY <1>0
    <2>2. \A i \in 1 .. n : i \in Nat \ {0} /\ IsNumber(Ahead(c, i))
      BY <1>2
    <2>3. \A i \in 1 .. n : strtod(c.p[i]) \in Digit
      <3> HIDE DEF n
      <3> QED BY <2>2, NumberAhead
    <2>4. z \in Digit /\ m \in Digit /\ strtod(c.p[1]) \in Digit /\ strtod(c.p[2]) \in Digit
      <3>1. 1 \in 1 .. n /\ 2 \in 1 .. n /\ 0 \in Digit
        BY <2>1 DEF Digit
      <3> HIDE DEF n
      <3> QED BY <2>1, <2>3, <3>1
    <2>5. DeclaredNumbers(c) = Put(c, n, strtod(c.p[1]), strtod(c.p[2]), z, m, c.hasZ, c.hasM)
      <3>1. ~(\E i \in 1 .. n : ~IsNumber(Ahead(c, i)))
        BY <1>2
      <3> QED BY <3>1, Zenon DEF DeclaredNumbers, Put
    <2>6. n \in Nat
      BY <2>1
    <2> HIDE DEF n, z, m
    <2>7. NumbersRead(c, Put(c, n, strtod(c.p[1]), strtod(c.p[2]), z, m, c.hasZ, c.hasM))
      <3>1. Puttable(c, n, strtod(c.p[1]), strtod(c.p[2]), z, m, c.hasZ, c.hasM)
        BY <1>0, <2>4, <2>6 DEF Puttable
      <3> QED BY <3>1, NumbersPut
    <2> QED BY <2>5, <2>7, Zenon
  <1> QED BY <1>1, <1>2

\* The numbers that are there.
LEMMA FoundRead ==
    ASSUME NEW c \in Context
    PROVE  NumbersRead(c, FoundNumbers(c))
  <1> DEFINE n == NumbersAhead(c)
             b == Skip(c, n)
             z == IF n >= 3 THEN strtod(c.p[3]) ELSE 0
             m == IF n = 4 THEN strtod(c.p[4]) ELSE IF n = 3 THEN 0 ELSE b.m
             foundZ == b.foundZ \/ n >= 3
             foundM == b.foundM \/ n = 4
  <1>0. n \in 2 .. 4
    BY NumbersCounted
  <1>1. FoundNumbers(c) = TakeNumbers(c, n)
    BY DEF FoundNumbers
  <1> HIDE DEF n
  <1>2. CASE \E i \in 1 .. n : ~IsNumber(Ahead(c, i))
    <2>1. TakeNumbers(c, n) = Failed(c)
      BY <1>2 DEF TakeNumbers
    <2> QED BY <1>1, <2>1, FailedFields DEF NumbersRead
  <1>3. CASE \A i \in 1 .. n : IsNumber(Ahead(c, i))
    <2>1. b \in Context
      BY <1>0, Skipped
    <2> HIDE DEF b
    <2>2. b.m \in Digit /\ b.foundZ \in BOOLEAN /\ b.foundM \in BOOLEAN
      BY <2>1, ContextFields
    <2>3. \A i \in 1 .. n : i \in Nat \ {0} /\ IsNumber(Ahead(c, i))
      BY <1>0, <1>3
    <2>4. \A i \in 1 .. n : strtod(c.p[i]) \in Digit
      BY <2>3, NumberAhead
    <2>5. /\ strtod(c.p[1]) \in Digit /\ strtod(c.p[2]) \in Digit
          /\ n >= 3 => strtod(c.p[3]) \in Digit
          /\ n = 4 => strtod(c.p[4]) \in Digit
      BY <1>0, <2>4
    <2>6. z \in Digit /\ m \in Digit /\ foundZ \in BOOLEAN /\ foundM \in BOOLEAN
      BY <2>2, <2>5 DEF Digit
    <2>7. TakeNumbers(c, n) = Put(c, n, strtod(c.p[1]), strtod(c.p[2]), z, m, foundZ, foundM)
      <3>1. ~(\E i \in 1 .. n : ~IsNumber(Ahead(c, i)))
        BY <1>3
      <3>2. TakeNumbers(c, n) =
               [Skip(c, n) EXCEPT !.x = strtod(c.p[1]), !.y = strtod(c.p[2]),
                            !.z = IF n >= 3 THEN strtod(c.p[3]) ELSE 0,
                            !.m = IF n = 4 THEN strtod(c.p[4]) ELSE IF n = 3 THEN 0 ELSE @,
                            !.foundZ = @ \/ n >= 3, !.foundM = @ \/ n = 4]
        BY <3>1, Zenon DEF TakeNumbers
      <3> QED BY <2>1, <3>2 DEF Context, b, Put
    <2>8. n \in Nat
      BY <1>0
    <2> HIDE DEF z, m, foundZ, foundM
    <2>9. NumbersRead(c, Put(c, n, strtod(c.p[1]), strtod(c.p[2]), z, m, foundZ, foundM))
      <3>1. Puttable(c, n, strtod(c.p[1]), strtod(c.p[2]), z, m, foundZ, foundM)
        BY <2>5, <2>6, <2>8 DEF Puttable
      <3> QED BY <3>1, NumbersPut
    <2> QED BY <1>1, <2>7, <2>9, Zenon
  <1> QED BY <1>2, <1>3

\* The numbers of a coordinate.
LEMMA NumbersKept ==
    ASSUME NEW c \in Context
    PROVE  NumbersRead(c, decodeNumbers(c))
  BY DeclaredRead, FoundRead DEF decodeNumbers

-----------------------------------------------------------------------------
(***************************************************************************)
(* What the buffer of the reader holds.                                    *)
(***************************************************************************)
NumbersOf(z, m) == 2 + (IF z THEN 1 ELSE 0) + (IF m THEN 1 ELSE 0)

\* Coordinates of n numbers may be in the buffer.
Fits(c, n) == c.writtenCoord => n = NumbersOf(c.mustZ, c.mustM)

\* The buffer begins with the head of a geometry, which the first coordinate has settled.
Headed(c, type) ==
    /\ Len(c.g) >= 2 /\ c.g[1] = LittleEndian
    /\ \E z \in BOOLEAN : \E m \in BOOLEAN :
           /\ c.g[2] = TypeCell(TypeCode(type), z, m)
           /\ c.writtenCoord => z = c.mustZ /\ m = c.mustM

\* Cells have been appended; besides, at most the type cell and the one at a position are others.
Grown(c, d, cells, at) ==
    /\ Len(d.g) = Len(c.g) + Len(cells)
    /\ \A i \in 1 .. Len(c.g) : i \notin {2, at} => d.g[i] = c.g[i]
    /\ Stands(cells, d.g, Len(c.g) + 1)

CoordCells(c, z, m) ==
    <<c.x, c.y>> \o (IF z THEN <<c.z>> ELSE <<>>) \o (IF m THEN <<c.m>> ELSE <<>>)

\* The same buffer holds the same.
LEMMA SameHolds ==
    ASSUME NEW c, NEW e, SameBuffer(c, e)
    PROVE  /\ \A n : Fits(e, n) <=> Fits(c, n)
           /\ \A type : Headed(e, type) <=> Headed(c, type)
           /\ \A d, cells, at : Grown(e, d, cells, at) <=> Grown(c, d, cells, at)
           /\ e.heap = c.heap
  BY Zenon DEF SameBuffer, Fits, Headed, Grown

\* The numbers of a coordinate.
LEMMA CoordinateCells ==
    ASSUME NEW c \in Context, NEW z \in BOOLEAN, NEW m \in BOOLEAN
    PROVE  /\ NumbersOf(z, m) \in 2 .. 4
           /\ CoordCells(c, z, m) \in [1 .. NumbersOf(z, m) -> Digit]
           /\ CoordCells(c, z, m) \in Seq(Int) /\ Len(CoordCells(c, z, m)) = NumbersOf(z, m)
           /\ \A type : Dims(Header(type, z, m)) = NumbersOf(z, m)
  <1>1. c.x \in Digit /\ c.y \in Digit /\ c.z \in Digit /\ c.m \in Digit
    BY ContextFields
  <1>2. \A i \in Digit : i \in Int
    BY DEF Digit
  <1> DEFINE n == NumbersOf(z, m)
             s == CoordCells(c, z, m)
             D == Digit
  <1>6. D \subseteq Int
    BY <1>2
  <1> HIDE DEF D
  <1>7. n \in 2 .. 4 /\ n = 2 + (IF z THEN 1 ELSE 0) + (IF m THEN 1 ELSE 0)
    BY DEF NumbersOf
  <1> DEFINE a == <<c.x, c.y>>
             b == IF z THEN <<c.z>> ELSE <<>>
             e == IF m THEN <<c.m>> ELSE <<>>
  <1>8. s = (a \o b) \o e
    BY Zenon DEF CoordCells
  <1>9. /\ a \in Seq(D) /\ Len(a) = 2 /\ b \in Seq(D) /\ Len(b) = (IF z THEN 1 ELSE 0)
        /\ e \in Seq(D) /\ Len(e) = (IF m THEN 1 ELSE 0)
    BY <1>1 DEF D
  <1> HIDE DEF s, n, a, b, e
  <1>3. s \in Seq(D) /\ Len(s) = n
    <2>1. a \o b \in Seq(D) /\ Len(a \o b) = Len(a) + Len(b)
      BY <1>9, ConcatProperties
    <2>2. (a \o b) \o e \in Seq(D) /\ Len((a \o b) \o e) = Len(a \o b) + Len(e)
      BY <1>9, <2>1, ConcatProperties
    <2> QED BY <1>7, <1>8, <1>9, <2>1, <2>2
  <1>4. s \in [1 .. n -> D] /\ s \in Seq(Int)
    <2>1. s \in [1 .. Len(s) -> D]
      BY <1>3
    <2>2. \A i \in 1 .. Len(s) : s[i] \in Int
      BY <1>6, <2>1
    <2>3. s \in Seq(Int)
      BY <1>3, <2>2
    <2> QED BY <1>3, <2>1, <2>3, Zenon
  <1>5. \A type : Dims(Header(type, z, m)) = n
    BY DEF Dims, Header, n, NumbersOf
  <1> QED BY <1>3, <1>4, <1>5, <1>7 DEF s, n, D

\* The first coordinate settles the type cell.
CoordTaken(c, d, type) ==
    /\ d \in Context /\ d.err = c.err /\ d.heap = c.heap /\ d.p = c.p
    /\ SameWords(c, d) /\ SameNumbers(c, d) /\ Headed(d, type)
    /\ d.writtenCoord = TRUE
    /\ c.writtenCoord => d.mustZ = c.mustZ /\ d.mustM = c.mustM
    /\ ~c.writtenCoord => d.mustZ = (c.hasZ \/ c.foundZ) /\ d.mustM = (c.hasM \/ c.foundM)
    /\ Grown(c, d, CoordCells(c, d.mustZ, d.mustM), 2)

\* A coordinate is appended.
LEMMA CoordAppended ==
    ASSUME NEW c \in Context, NEW type \in TypeNames, Headed(c, type)
    PROVE  CoordTaken(c, appendCoord(c), type)
  <1> DEFINE d == appendCoord(c)
  <1>0. d = appendCoord(c)
    OBVIOUS
  <1> HIDE DEF d
  <1> DEFINE z == IF c.writtenCoord THEN c.mustZ ELSE c.hasZ \/ c.foundZ
             m == IF c.writtenCoord THEN c.mustM ELSE c.hasM \/ c.foundM
             cells == CoordCells(c, z, m)
             cell == TypeCell(TypeCode(type), z, m)
             g == [c.g \o cells EXCEPT ![2] = cell]
  <1>1. /\ c.g \in Seq(Int) /\ c.hasZ \in BOOLEAN /\ c.hasM \in BOOLEAN
        /\ c.foundZ \in BOOLEAN /\ c.foundM \in BOOLEAN
        /\ c.writtenCoord \in BOOLEAN /\ c.mustZ \in BOOLEAN /\ c.mustM \in BOOLEAN
    BY ContextFields
  <1>2. z \in BOOLEAN /\ m \in BOOLEAN
    BY <1>1
  <1>3. readhdr(c.g, 1).type = type
    <2>1. PICK z1 \in BOOLEAN : \E m1 \in BOOLEAN : c.g[2] = TypeCell(TypeCode(type), z1, m1)
      BY DEF Headed
    <2>2. PICK m1 \in BOOLEAN : c.g[2] = TypeCell(TypeCode(type), z1, m1)
      BY <2>1
    <2>3. c.g[1 + 1] = TypeCell(TypeCode(type), z1, m1)
      BY <2>2
    <2>4. readhdr(c.g, 1) = Header(type, z1, m1)
      BY <2>3, TypeRead
    <2>5. Header(type, z1, m1).type = type
      BY HeadOf
    <2> QED BY <2>4, <2>5, Zenon
  <1>4. cells \in Seq(Int) /\ cell \in Int
    <2>1. TypeCode(type) \in 1 .. 7
      BY TypeCodes
    <2>2. cell \in Nat
      <3> HIDE DEF z, m
      <3> QED BY <1>2, <2>1, TypeCells
    <2>3. cells \in Seq(Int)
      <3> HIDE DEF z, m
      <3> QED BY <1>2, CoordinateCells
    <2> QED BY <2>2, <2>3
  <1> DEFINE b == Grow(c, cells)
  <1>5. /\ b \in Context /\ b.g = c.g \o cells /\ b.p = c.p /\ b.err = c.err /\ b.heap = c.heap
        /\ SameWords(c, b) /\ SameNumbers(c, b)
    <2> HIDE DEF cells
    <2> QED BY <1>4, GrowFields
  <1>6. d = [b EXCEPT !.g[2] = cell, !.mustZ = z, !.mustM = m, !.writtenCoord = TRUE]
    <2>1. d = [Grow(c, <<c.x, c.y>> \o (IF z THEN <<c.z>> ELSE <<>>) \o (IF m THEN <<c.m>> ELSE <<>>))
                 EXCEPT !.g[2] = TypeCell(TypeCode(readhdr(c.g, 1).type), z, m), !.mustZ = z, !.mustM = m,
                        !.writtenCoord = TRUE]
      BY <1>0, Zenon DEF appendCoord
    <2> QED BY <1>3, <2>1, Zenon DEF CoordCells
  <1> HIDE DEF z, m, cells, cell, b
  <1>7. /\ g \in Seq(Int)
        /\ Len(g) = Len(c.g) + Len(cells) /\ g[2] = cell
        /\ \A i \in 1 .. Len(c.g) : i # 2 => g[i] = c.g[i]
        /\ \A i \in 1 .. Len(cells) : g[Len(c.g) + i] = cells[i]
        /\ Len(c.g) \in Nat /\ Len(c.g) >= 2 /\ Len(cells) \in Nat
    <2>1. Len(c.g) \in Nat /\ Len(c.g) >= 2 /\ Len(cells) \in Nat
      BY <1>1, <1>4 DEF Headed
    <2> DEFINE w == c.g \o cells
    <2>2. /\ w \in Seq(Int) /\ Len(w) = Len(c.g) + Len(cells)
          /\ \A i \in 1 .. Len(c.g) : w[i] = c.g[i]
          /\ \A i \in 1 .. Len(cells) : w[Len(c.g) + i] = cells[i]
      <3>1. c.g \in Seq(Int) /\ cells \in Seq(Int)
        BY <1>1, <1>4
      <3> QED BY ONLY <3>1, ConcatProperties
    <2> HIDE DEF w
    <2>3. /\ [w EXCEPT ![2] = cell] \in Seq(Int) /\ Len([w EXCEPT ![2] = cell]) = Len(w)
          /\ [w EXCEPT ![2] = cell][2] = cell
          /\ \A i \in 1 .. Len(w) : i # 2 => [w EXCEPT ![2] = cell][i] = w[i]
      BY <1>4, <2>1, <2>2
    <2>4. /\ g \in Seq(Int) /\ Len(g) = Len(w) /\ g[2] = cell
          /\ \A i \in 1 .. Len(w) : i # 2 => g[i] = w[i]
      BY <2>3 DEF w
    <2> HIDE DEF g
    <2> DEFINE k == Len(c.g)
               l == Len(cells)
    <2>5. k \in Nat /\ l \in Nat /\ k >= 2 /\ Len(w) = k + l
      BY <2>1, <2>2
    <2>6. \A i \in 1 .. k : i # 2 => g[i] = c.g[i]
      BY <2>2, <2>4, <2>5
    <2>7. ASSUME NEW i \in 1 .. l PROVE g[k + i] = cells[i]
      <3>1. w[k + i] = cells[i]
        BY <2>2
      <3> HIDE DEF k, l
      <3>2. k + i \in 1 .. Len(w) /\ k + i # 2
        BY <2>5
      <3> QED BY <2>4, <3>1, <3>2
    <2> QED BY <2>1, <2>2, <2>4, <2>6, <2>7
  <1>8. d = [b EXCEPT !.g = g, !.mustZ = z, !.mustM = m, !.writtenCoord = TRUE]
    BY <1>5, <1>6 DEF Context
  <1> HIDE DEF g
  <1>9. d \in Context
    BY ZenonT(30), <1>2, <1>5, <1>7, <1>8 DEF Context
  <1>10. /\ d.g = g /\ d.mustZ = z /\ d.mustM = m /\ d.writtenCoord = TRUE
         /\ d.p = b.p /\ d.err = b.err /\ d.heap = b.heap /\ SameWords(b, d) /\ SameNumbers(b, d)
    BY <1>5, <1>8 DEF Context, SameWords, SameNumbers
  <1>11. SameWords(c, d) /\ SameNumbers(c, d)
    BY <1>5, <1>10 DEF SameWords, SameNumbers
  <1>12. Headed(d, type)
    <2>1. g[2] = TypeCell(TypeCode(type), z, m)
      BY <1>7 DEF cell
    <2>2. Len(g) >= 2 /\ g[1] = LittleEndian
      BY SMTT(30), <1>7 DEF Headed
    <2> QED BY <1>2, <1>10, <2>1, <2>2 DEF Headed
  <1>13. Grown(c, d, cells, 2)
    <2>1. Stands(cells, g, Len(c.g) + 1)
      BY <1>7 DEF Stands
    <2>2. Len(g) = Len(c.g) + Len(cells) /\ \A i \in 1 .. Len(c.g) : i \notin {2, 2} => g[i] = c.g[i]
      BY <1>7
    <2> QED BY <1>10, <2>1, <2>2, Zenon DEF Grown
  <1>14. /\ c.writtenCoord => z = c.mustZ /\ m = c.mustM
         /\ ~c.writtenCoord => z = (c.hasZ \/ c.foundZ) /\ m = (c.hasM \/ c.foundM)
    BY DEF z, m
  <1>15. cells = CoordCells(c, d.mustZ, d.mustM)
    BY <1>10 DEF cells
  <1>16. CoordTaken(c, d, type)
    BY <1>5, <1>9, <1>10, <1>11, <1>12, <1>13, <1>14, <1>15 DEF CoordTaken
  <1> QED BY <1>0, <1>16

\* Three sequences, one after the other.
LEMMA ThreeTexts ==
    ASSUME NEW T, NEW a \in Seq(T), NEW b \in Seq(T), NEW c \in Seq(T)
    PROVE  Joint(Joint(a, b), c) = Joint(a, Joint(b, c))
  BY ConcatAssociative DEF Joint

\* The first of several sequences comes first.
Before(a, s) == <<a>> \o s

\* A flattened sequence begins with its first.
LEMMA FlattenCons ==
    ASSUME NEW T, NEW a \in Seq(T), NEW s \in Seq(Seq(T))
    PROVE  FlattenSeq(Before(a, s)) = a \o FlattenSeq(s)
  <1> DEFINE u == Before(a, s)
             F(n) == FlattenSeq(SubSeq(s, 1, n))
             G(n) == FlattenSeq(SubSeq(u, 1, n))
             S == {n \in 0 .. Len(s) : G(n + 1) = a \o F(n)}
  <1>1. /\ u \in Seq(Seq(T)) /\ Len(u) = Len(s) + 1 /\ u[1] = a /\ Len(s) \in Nat
        /\ \A n \in 1 .. Len(s) : u[n + 1] = s[n] /\ s[n] \in Seq(T)
    <2> DEFINE U == Seq(T)
    <2>1. a \in U /\ s \in Seq(U)
      OBVIOUS
    <2> HIDE DEF U
    <2>2. /\ u \in Seq(U) /\ Len(u) = Len(s) + 1 /\ u[1] = a /\ Len(s) \in Nat
          /\ \A n \in 1 .. Len(s) : u[n + 1] = s[n] /\ s[n] \in U
      BY <2>1 DEF Before
    <2> QED BY <2>2 DEF U
  <1>2. /\ FlattenSeq(s) = F(Len(s)) /\ F(0) = <<>>
        /\ \A n \in 0 .. Len(s) : F(n) \in Seq(T)
        /\ \A n \in 1 .. Len(s) : F(n) = F(n - 1) \o s[n]
    BY FlattenSteps
  <1>3. /\ FlattenSeq(u) = G(Len(u)) /\ G(0) = <<>>
        /\ \A n \in 1 .. Len(u) : G(n) = G(n - 1) \o u[n]
    BY <1>1, FlattenSteps
  <1> HIDE DEF F, G, u
  <1>4. 0 \in S
    <2>1. 1 \in 1 .. Len(u) /\ 1 - 1 = 0
      BY <1>1
    <2>2. G(1) = G(1 - 1) \o u[1]
      BY <1>3, <2>1
    <2>3. G(1) = <<>> \o a
      BY <1>1, <1>3, <2>1, <2>2, Zenon
    <2>4. G(1) = a \o F(0)
      <3>1. <<>> \o a = a /\ a \o <<>> = a
        OBVIOUS
      <3> QED BY <1>2, <2>3, <3>1, Zenon
    <2>5. 0 \in 0 .. Len(s) /\ 0 + 1 = 1
      BY <1>1
    <2> QED BY <2>4, <2>5
  <1>5. ASSUME NEW n \in 0 .. Len(s) - 1, n \in S PROVE n + 1 \in S
    <2>1. /\ n + 1 \in 1 .. Len(s) /\ (n + 1) - 1 = n /\ n + 1 + 1 \in 1 .. Len(u) /\ (n + 1 + 1) - 1 = n + 1
          /\ n \in 0 .. Len(s) /\ n + 1 \in 0 .. Len(s)
      BY <1>1
    <2>2. G(n + 1 + 1) = G(n + 1) \o u[n + 1 + 1] /\ F(n + 1) = F(n) \o s[n + 1]
      BY <1>2, <1>3, <2>1
    <2>3. u[n + 1 + 1] = s[n + 1] /\ s[n + 1] \in Seq(T) /\ F(n) \in Seq(T)
      BY <1>1, <1>2, <2>1
    <2>4. G(n + 1) = a \o F(n)
      BY <1>5
    <2> DEFINE b == F(n)
               c == s[n + 1]
    <2>5. (a \o b) \o c = a \o (b \o c)
      <3>1. b \in Seq(T) /\ c \in Seq(T)
        BY <2>3
      <3> HIDE DEF b, c
      <3>2. Joint(Joint(a, b), c) = Joint(a, Joint(b, c))
        <4>1. a \in Seq(T)
          OBVIOUS
        <4> QED BY ONLY <3>1, <4>1, ThreeTexts
      <3> QED BY ONLY <3>2 DEF Joint
    <2>6. G(n + 1 + 1) = a \o F(n + 1)
      BY <2>2, <2>3, <2>4, <2>5, Zenon
    <2> QED BY <2>1, <2>6
  <1>6. 0 .. Len(s) \subseteq S
    <2>1. Len(s) \in Nat
      BY <1>1
    <2> HIDE DEF S
    <2> QED BY <1>4, <1>5, <2>1, UpTo
  <1>7. G(Len(s) + 1) = a \o F(Len(s))
    <2>1. Len(s) \in 0 .. Len(s)
      BY <1>1
    <2> QED BY <1>6, <2>1
  <1>8. FlattenSeq(u) = a \o FlattenSeq(s)
    BY <1>1, <1>2, <1>3, <1>7, Zenon
  <1> QED BY <1>8 DEF u

\* The cells of elements, the first of which comes first.
LEMMA CellsCons ==
    ASSUME NEW S, \A x \in S : Shaped(x), NEW y \in S, NEW els \in Seq(S)
    PROVE  /\ Before(y, els) \in Seq(S) /\ Len(Before(y, els)) = 1 + Len(els)
           /\ FlattenSeq(CellsOf(Before(y, els))) = y.cells \o FlattenSeq(CellsOf(els))
  <1> DEFINE all == Before(y, els)
  <1>0. all = <<y>> \o els
    BY DEF Before
  <1> HIDE DEF all
  <1>1. /\ all \in Seq(S) /\ Len(all) = Len(els) + 1 /\ all[1] = y /\ Len(els) \in Nat
        /\ \A n \in 1 .. Len(els) : all[n + 1] = els[n]
    BY <1>0
  <1>2. /\ CellsOf(els) \in Seq(Seq(Int)) /\ Len(CellsOf(els)) = Len(els)
        /\ \A i \in 1 .. Len(els) : CellsOf(els)[i] = els[i].cells
    BY SeriesParts
  <1>3. /\ CellsOf(all) \in Seq(Seq(Int)) /\ Len(CellsOf(all)) = Len(all)
        /\ \A i \in 1 .. Len(all) : CellsOf(all)[i] = all[i].cells
    BY <1>1, SeriesParts
  <1>4. y.cells \in Seq(Int)
    BY DEF Shaped
  <1> DEFINE c == CellsOf(all)
             b == CellsOf(els)
             a == y.cells
             u == Before(a, b)
             U == Seq(Int)
  <1>5. a \in U /\ b \in Seq(U) /\ c \in Seq(U) /\ Len(c) = Len(b) + 1 /\ c[1] = a
        /\ \A n \in 1 .. Len(b) : c[n + 1] = b[n]
    <2>1. \A n \in 1 .. Len(els) : n + 1 \in 1 .. Len(all)
      BY <1>1
    <2>2. 1 \in 1 .. Len(all)
      BY <1>1
    <2>3. a \in U /\ b \in Seq(U) /\ c \in Seq(U)
      BY <1>2, <1>3, <1>4, Zenon
    <2>4. Len(c) = Len(b) + 1
      BY <1>1, <1>2, <1>3
    <2>5. c[1] = a
      BY <1>1, <1>3, <2>2, Zenon
    <2>6. ASSUME NEW n \in 1 .. Len(b) PROVE c[n + 1] = b[n]
      <3>1. n \in 1 .. Len(els)
        BY <1>2
      <3>2. c[n + 1] = all[n + 1].cells /\ all[n + 1] = els[n] /\ b[n] = els[n].cells
        BY <1>1, <1>2, <1>3, <2>1, <3>1, Zenon
      <3> QED BY <3>2
    <2> QED BY <2>3, <2>4, <2>5, <2>6
  <1> HIDE DEF a, b, c, U
  <1>6. c = u
    <2>1. u \in Seq(U) /\ Len(u) = Len(b) + 1 /\ u[1] = a /\ \A n \in 1 .. Len(b) : u[n + 1] = b[n]
      BY <1>5 DEF Before
    <2> HIDE DEF u
    <2>2. \A i \in 1 .. Len(c) : c[i] = u[i]
      <3> SUFFICES ASSUME NEW i \in 1 .. Len(c) PROVE c[i] = u[i]
        OBVIOUS
      <3>1. CASE i = 1
        BY <3>1, <1>5, <2>1
      <3>2. CASE i # 1
        <4>1. i - 1 \in 1 .. Len(b) /\ (i - 1) + 1 = i
          BY <3>2, <1>5
        <4> QED BY <4>1, <1>5, <2>1
      <3> QED BY <3>1, <3>2
    <2> QED BY <1>5, <2>1, <2>2, SeqEqual
  <1>7. FlattenSeq(u) = a \o FlattenSeq(b)
    <2>1. a \in Seq(Int) /\ b \in Seq(Seq(Int))
      BY <1>5 DEF U
    <2> QED BY <2>1, FlattenCons
  <1> HIDE DEF u
  <1>8. FlattenSeq(CellsOf(all)) = y.cells \o FlattenSeq(CellsOf(els))
    BY <1>6, <1>7, Zenon DEF a, b, c
  <1>9. Len(all) = 1 + Len(els)
    BY <1>1
  <1> QED BY <1>1, <1>8, <1>9 DEF all

\* No elements have no cells.
LEMMA CellsNone ==
    ASSUME NEW S
    PROVE  <<>> \in Seq(S) /\ Len(<<>>) = 0 /\ FlattenSeq(CellsOf(<<>>)) = <<>>
  <1>1. CellsOf(<<>>) = <<>>
    <2>1. CellsOf(<<>>) = [i \in 1 .. 0 |-> <<>>[i].cells]
      BY DEF CellsOf
    <2>2. 1 .. 0 = {}
      OBVIOUS
    <2> QED BY <2>1, <2>2
  <1>2. FlattenSeq(<<>>) = <<>>
    <2>1. <<>> \in Seq(Seq(Int)) /\ SubSeq(<<>>, 1, 0) = <<>>
      OBVIOUS
    <2>2. FlattenSeq(SubSeq(<<>>, 1, 0)) = <<>>
      BY <2>1, FlattenSteps
    <2> QED BY <2>1, <2>2
  <1> QED BY <1>1, <1>2

\* The count of a series comes before its elements, and is put there last.
LEMMA CountedGrowth ==
    ASSUME NEW c \in Context, NEW e \in Context, NEW d \in Context, NEW flat \in Seq(Int), NEW n \in Int,
           NEW at, at = Len(c.g) + 1, at >= 3, e.g = Append(c.g, 0), Grown(e, d, flat, at), d.g[at] = n
    PROVE  Grown(c, d, <<n>> \o flat, 2)
  <1> DEFINE k == Len(c.g)
             l == Len(flat)
             all == <<n>> \o flat
             ge == e.g
             gd == d.g
             gc == c.g
  <1>1. /\ gc \in Seq(Int) /\ gd \in Seq(Int) /\ k \in Nat /\ l \in Nat
        /\ Len(ge) = k + 1 /\ \A i \in 1 .. k : ge[i] = gc[i]
    <2>1. gc \in Seq(Int) /\ gd \in Seq(Int)
      BY ContextFields
    <2> QED BY SMTT(30), <2>1
  <1>2. all \in Seq(Int) /\ Len(all) = 1 + l /\ all[1] = n /\ \A i \in 1 .. l : all[i + 1] = flat[i]
    BY Counted
  <1>3. /\ Len(gd) = (k + 1) + l
        /\ \A i \in 1 .. k + 1 : i \notin {2, at} => gd[i] = ge[i]
        /\ Stands(flat, gd, (k + 1) + 1)
        /\ gd[k + 1] = n /\ at = k + 1
    BY <1>1 DEF Grown
  <1> HIDE DEF all, k, l, ge, gd, gc
  <1>4. Len(gd) = k + Len(all)
    BY <1>1, <1>2, <1>3
  <1>5. \A i \in 1 .. k : i \notin {2, 2} => gd[i] = gc[i]
    <2> SUFFICES ASSUME NEW i \in 1 .. k, i # 2 PROVE gd[i] = gc[i]
      OBVIOUS
    <2>1. i \in 1 .. k + 1 /\ i \notin {2, at}
      BY <1>1, <1>3
    <2> QED BY <1>1, <1>3, <2>1
  <1>6. Stands(all, gd, k + 1)
    <2>1. \A i \in 1 .. l : gd[(k + 1) + 1 + i - 1] = flat[i]
      BY <1>3 DEF Stands, l
    <2>2. ASSUME NEW i \in 1 .. Len(all) PROVE gd[k + 1 + i - 1] = all[i]
      <3>1. CASE i = 1
        <4>1. k + 1 + i - 1 = k + 1
          BY <3>1, <1>1
        <4> QED BY <3>1, <4>1, <1>2, <1>3
      <3>2. CASE i # 1
        <4>1. i - 1 \in 1 .. l /\ (i - 1) + 1 = i /\ (k + 1) + 1 + (i - 1) - 1 = k + 1 + i - 1
          BY <3>2, <1>1, <1>2
        <4>2. gd[(k + 1) + 1 + (i - 1) - 1] = flat[i - 1] /\ all[(i - 1) + 1] = flat[i - 1]
          BY <4>1, <2>1, <1>2
        <4> QED BY <4>1, <4>2
      <3> QED BY <3>1, <3>2
    <2>3. k + 1 + Len(all) <= Len(gd) + 1
      BY <1>1, <1>2, <1>4
    <2> QED BY <2>2, <2>3 DEF Stands
  <1> QED BY <1>4, <1>5, <1>6 DEF Grown, all, k, gd, gc

\* Cells that are appended to what has grown.
LEMMA GrowthJoined ==
    ASSUME NEW c \in Context, NEW d \in Context, NEW e \in Context, NEW a \in Seq(Int), NEW b \in Seq(Int),
           Grown(c, d, a, 2), NEW at \in 1 .. Len(c.g), Grown(d, e, b, at), Len(c.g) >= 2
    PROVE  Grown(c, e, a \o b, at)
  <1> DEFINE k == Len(c.g)
             la == Len(a)
             lb == Len(b)
             all == a \o b
             gc == c.g
             gd == d.g
             ge == e.g
  <1>1. /\ gc \in Seq(Int) /\ gd \in Seq(Int) /\ ge \in Seq(Int)
        /\ k \in Nat /\ la \in Nat /\ lb \in Nat /\ k >= 2
    <2>1. gc \in Seq(Int) /\ gd \in Seq(Int) /\ ge \in Seq(Int)
      BY ContextFields
    <2> QED BY <2>1
  <1>2. all \in Seq(Int) /\ Len(all) = la + lb /\ (\A i \in 1 .. la : all[i] = a[i])
        /\ \A i \in 1 .. lb : all[la + i] = b[i]
    BY ConcatProperties
  <1>3. /\ Len(gd) = k + la
        /\ \A i \in 1 .. k : i \notin {2, 2} => gd[i] = gc[i]
        /\ Stands(a, gd, k + 1)
    BY DEF Grown
  <1>4. /\ Len(ge) = k + la + lb
        /\ \A i \in 1 .. k + la : i \notin {2, at} => ge[i] = gd[i]
        /\ Stands(b, ge, k + la + 1)
    <2>1. Grown(d, e, b, at)
      OBVIOUS
    <2> QED BY <2>1, <1>3 DEF Grown
  <1>9. at \in 1 .. k
    OBVIOUS
  <1> HIDE DEF all, k, la, lb, gc, gd, ge
  <1>5. \A i \in 1 .. k : i \notin {2, at} => ge[i] = gc[i]
    <2> SUFFICES ASSUME NEW i \in 1 .. k, i \notin {2, at} PROVE ge[i] = gc[i]
      OBVIOUS
    <2>1. i \in 1 .. k + la /\ i \notin {2, 2}
      BY <1>1
    <2>2. ge[i] = gd[i] /\ gd[i] = gc[i]
      BY <1>3, <1>4, <2>1
    <2> QED BY <2>2
  <1>6. Stands(all, ge, k + 1)
    <2>1. \A i \in 1 .. la : gd[k + 1 + i - 1] = a[i]
      BY <1>3 DEF Stands, la
    <2>2. \A i \in 1 .. lb : ge[k + la + 1 + i - 1] = b[i]
      BY <1>4 DEF Stands, lb
    <2>3. ASSUME NEW i \in 1 .. Len(all) PROVE ge[k + 1 + i - 1] = all[i]
      <3>1. CASE i <= la
        <4>1. i \in 1 .. la /\ k + 1 + i - 1 \in 1 .. k + la /\ k + 1 + i - 1 \notin {2, at}
          BY <3>1, <1>1, <1>9
        <4> QED BY <4>1, <1>2, <1>4, <2>1
      <3>2. CASE i > la
        <4>1. i - la \in 1 .. lb /\ la + (i - la) = i /\ k + la + 1 + (i - la) - 1 = k + 1 + i - 1
          BY <3>2, <1>1, <1>2
        <4>2. ge[k + la + 1 + (i - la) - 1] = b[i - la] /\ all[la + (i - la)] = b[i - la]
          BY <4>1, <1>2, <2>2
        <4> QED BY <4>1, <4>2
      <3> QED BY <3>1, <3>2, <1>1, <1>2
    <2>4. k + 1 + Len(all) <= Len(ge) + 1
      BY <1>1, <1>2, <1>4
    <2> QED BY <2>3, <2>4 DEF Stands
  <1>7. Len(ge) = k + Len(all)
    BY <1>1, <1>2, <1>4
  <1> QED BY <1>5, <1>6, <1>7 DEF Grown, all, k, gc, ge

\* What grows by cells that are written to the end.
LEMMA GrownBy ==
    ASSUME NEW c \in Context, NEW d \in Context, NEW a \in Seq(Int), d.g = c.g \o a
    PROVE  Grown(c, d, a, 2)
  <1> DEFINE gc == c.g
             gd == d.g
             k == Len(gc)
             l == Len(a)
  <1>1. gc \in Seq(Int)
    BY ContextFields
  <1>2. /\ Len(gd) = k + l /\ (\A i \in 1 .. k : gd[i] = gc[i])
        /\ (\A i \in 1 .. l : gd[k + i] = a[i]) /\ k \in Nat /\ l \in Nat
    BY <1>1, ConcatProperties
  <1> HIDE DEF gc, gd, k, l
  <1>3. Stands(a, gd, k + 1)
    <2>1. \A i \in 1 .. l : gd[k + 1 + i - 1] = a[i]
      <3> SUFFICES ASSUME NEW i \in 1 .. l PROVE gd[k + 1 + i - 1] = a[i]
        OBVIOUS
      <3>1. k + 1 + i - 1 = k + i
        BY <1>2
      <3> QED BY <3>1, <1>2
    <2> QED BY <1>2, <2>1 DEF Stands, l
  <1> QED BY <1>2, <1>3 DEF Grown, gc, gd, k, l

-----------------------------------------------------------------------------
(***************************************************************************)
(* What the reader appends: elements of coordinates of as many numbers as  *)
(* the coordinates in the buffer have, or geometries of a collection.      *)
(***************************************************************************)
Els(level, n, k) == IF level = -1 THEN Trees[k] ELSE Elements(level, n)

ElementRead(c, d, type, level, k) ==
    /\ d \in Context /\ d.heap = c.heap
    /\ d.err = "none" => /\ Headed(d, type) /\ Shorter(c, d)
                         /\ \A n \in 2 .. 4 : Fits(d, n) =>
                               Fits(c, n) /\ \E x \in Els(level, n, k) : Grown(c, d, x.cells, 2)

SegmentRead(c, d, type, level, k) ==
    /\ d \in Context /\ d.heap = c.heap
    /\ d.err = "none" => /\ Headed(d, type) /\ Shorter(c, d)
                         /\ \A n \in 2 .. 4 : Fits(d, n) =>
                               /\ Fits(c, n)
                               /\ \E els \in Seq(Els(level, n, k)) :
                                     Grown(c, d, <<Len(els)>> \o FlattenSeq(CellsOf(els)), 2)

SeriesRead(c, d, type, level, k, szpos, sz) ==
    /\ d \in Context /\ d.heap = c.heap
    /\ d.err = "none" => /\ Headed(d, type) /\ Shorter(c, d)
                         /\ \A n \in 2 .. 4 : Fits(d, n) =>
                               /\ Fits(c, n)
                               /\ \E els \in Seq(Els(level, n, k)) :
                                     Grown(c, d, FlattenSeq(CellsOf(els)), szpos) /\ d.g[szpos] = sz + Len(els)

\* A reader of series appends what there may be.
SoundSeries(series, k) ==
    \A type \in TypeNames : \A c \in Context : \A level \in -1 .. 2 : \A szpos \in Nat : \A sz \in Nat :
        c.err = "none" /\ Headed(c, type) /\ szpos \in 3 .. Len(c.g) =>
            SeriesRead(c, series[<<c, level, szpos, sz>>], type, level, k, szpos, sz)

\* The forms of what is appended.
LEMMA ElsShape ==
    ASSUME NEW level \in -1 .. 3, NEW n \in Nat, NEW k \in Nat
    PROVE  /\ \A x \in Els(level, n, k) : Shaped(x)
           /\ Els(level, n, k) \subseteq Els(level, n, k + 1)
  <1>1. CASE level = -1
    <2>1. Els(level, n, k) = Trees[k] /\ Els(level, n, k + 1) = Trees[k + 1]
      BY <1>1 DEF Els
    <2>2. Trees[k] \subseteq Trees[k + 1]
      BY TreesMonotonic
    <2>3. \A x \in Trees[k] : Shaped(x)
      BY TreeForm DEF Form
    <2> QED BY <2>1, <2>2, <2>3
  <1>2. CASE level # -1
    <2>1. Els(level, n, k) = Elements(level, n) /\ Els(level, n, k + 1) = Elements(level, n)
      BY <1>2 DEF Els
    <2>2. level \in 0 .. 3
      BY <1>2
    <2> QED BY <2>1, <2>2, ElementShape
  <1> QED BY <1>1, <1>2

\* A coordinate is appended to the buffer.
LEMMA AppendRead ==
    ASSUME NEW c \in Context, NEW type \in TypeNames, Headed(c, type), NEW k,
           NEW e \in Context, SameBuffer(c, e), Shorter(c, e), NEW d, d = appendCoord(e)
    PROVE  ElementRead(c, d, type, 0, k)
  <1>2. Headed(e, type) /\ e.heap = c.heap
    BY SameHolds
  <1>3. /\ d \in Context /\ d.heap = e.heap /\ Headed(d, type) /\ d.writtenCoord = TRUE /\ d.p = e.p
        /\ e.writtenCoord => d.mustZ = e.mustZ /\ d.mustM = e.mustM
        /\ Grown(e, d, CoordCells(e, d.mustZ, d.mustM), 2)
    <2>1. CoordTaken(e, d, type)
      BY <1>2, CoordAppended
    <2> QED BY <2>1 DEF CoordTaken
  <1>4. Grown(c, d, CoordCells(e, d.mustZ, d.mustM), 2)
    BY <1>3, SameHolds
  <1>5. d.mustZ \in BOOLEAN /\ d.mustM \in BOOLEAN
    BY <1>3, ContextFields
  <1>6. ASSUME NEW n \in 2 .. 4, Fits(d, n)
        PROVE  Fits(c, n) /\ \E x \in Els(0, n, k) : Grown(c, d, x.cells, 2)
    <2>1. n = NumbersOf(d.mustZ, d.mustM)
      BY <1>3, <1>6 DEF Fits
    <2>2. Fits(e, n)
      <3>1. CASE e.writtenCoord
        <4>1. d.mustZ = e.mustZ /\ d.mustM = e.mustM
          BY <1>3, <3>1
        <4> QED BY <2>1, <4>1, Zenon DEF Fits
      <3>2. CASE ~e.writtenCoord
        BY <3>2 DEF Fits
      <3> QED BY <3>1, <3>2
    <2>3. Fits(c, n)
      BY <2>2, SameHolds
    <2> DEFINE s == CoordCells(e, d.mustZ, d.mustM)
    <2>4. s \in [1 .. n -> Digit]
      <3>1. s \in [1 .. NumbersOf(d.mustZ, d.mustM) -> Digit]
        BY <1>5, CoordinateCells
      <3> QED BY <2>1, <3>1, Zenon
    <2> HIDE DEF s
    <2>5. CoordinatePiece(s) \in Coordinates(n) /\ CoordinatePiece(s).cells = s
      BY <2>4, Zenon DEF Coordinates, CoordinatePiece
    <2>6. Els(0, n, k) = Coordinates(n)
      BY ElementsBelow DEF Els
    <2>7. Grown(c, d, CoordinatePiece(s).cells, 2)
      BY <1>4, <2>5, Zenon DEF s
    <2> QED BY <2>3, <2>5, <2>6, <2>7, Zenon
  <1>7. Shorter(c, d)
    BY <1>3 DEF Shorter
  <1> QED BY <1>2, <1>3, <1>6, <1>7 DEF ElementRead

\* A coordinate of a series.
LEMMA CoordinateRead ==
    ASSUME NEW c \in Context, c.err = "none", NEW type \in TypeNames, Headed(c, type), NEW k,
           NEW d, d = Then(decodeNumbers(c), appendCoord)
    PROVE  ElementRead(c, d, type, 0, k)
  <1> DEFINE e == decodeNumbers(c)
  <1>1. NumbersRead(c, e)
    BY NumbersKept
  <1>2. d = IF e.err = "none" THEN appendCoord(e) ELSE e
    BY Zenon DEF Then
  <1> HIDE DEF e
  <1>3. CASE e.err # "none"
    <2>1. d = e
      BY <1>2, <1>3
    <2> QED BY <1>1, <1>3, <2>1 DEF NumbersRead, ElementRead
  <1>4. CASE e.err = "none"
    <2>1. d = appendCoord(e) /\ e \in Context /\ SameBuffer(c, e) /\ Shorter(c, e)
      BY <1>1, <1>2, <1>4 DEF NumbersRead
    <2> QED BY <2>1, AppendRead
  <1> QED BY <1>3, <1>4

\* A series in brackets, or none.
LEMMA SegmentOf ==
    ASSUME NEW c \in Context, c.err = "none", NEW type \in TypeNames, Headed(c, type), NEW k \in Nat,
           NEW level \in -1 .. 2, NEW series, SoundSeries(series, k),
           NEW d, d = decodeSeriesSegment(series, c, level)
    PROVE  SegmentRead(c, d, type, level, k)
  <1> DEFINE e == Grow(c, <<0>>)
             at == Len(c.g) + 1
  <1>0. <<0>> \in Seq(Int) /\ c.g \in Seq(Int)
    BY ContextFields
  <1>1. /\ e \in Context /\ e.g = c.g \o <<0>> /\ e.err = c.err /\ e.heap = c.heap
        /\ e.writtenCoord = c.writtenCoord /\ e.mustZ = c.mustZ /\ e.mustM = c.mustM
        /\ SameWords(c, e) /\ e.p = c.p
    BY <1>0, GrowFields
  <1>2. /\ e.g = Append(c.g, 0) /\ Len(e.g) = at /\ at \in Nat /\ at >= 3 /\ e.g[1] = c.g[1] /\ e.g[2] = c.g[2]
        /\ Len(c.g) \in Nat
    <2>1. Len(c.g) >= 2
      BY DEF Headed
    <2>2. c.g \o <<0>> = Append(c.g, 0)
      BY <1>0
    <2> DEFINE s == c.g
    <2>3. s \in Seq(Int) /\ Len(s) >= 2 /\ e.g = Append(s, 0)
      BY <1>0, <1>1, <2>1, <2>2
    <2> HIDE DEF s
    <2> DEFINE t == e.g
    <2>5. t = Append(s, 0)
      BY <2>3
    <2> HIDE DEF t
    <2>6. Len(t) = Len(s) + 1 /\ (\A i \in 1 .. Len(s) : t[i] = s[i]) /\ Len(s) \in Nat
      BY ONLY <2>3, <2>5
    <2>4. Len(t) = Len(s) + 1 /\ t[1] = s[1] /\ t[2] = s[2] /\ Len(s) \in Nat
      BY <2>3, <2>6
    <2> QED BY SMTT(30), <2>3, <2>4 DEF s, t
  <1> HIDE DEF e, at
  <1>3. Headed(e, type)
    <2>1. Len(e.g) >= 2
      BY <1>2
    <2> QED BY <1>1, <1>2, <2>1, Zenon DEF Headed
  <1>4. \A n : Fits(e, n) <=> Fits(c, n)
    BY <1>1, Zenon DEF Fits
  <1>5. CASE d.err = "none" /\ \E n \in Nat : d = e \/ d = Skip(e, n)
    <2>1. d \in Context /\ SameBuffer(e, d) /\ Shorter(e, d)
      <3>1. SameBuffer(e, e) /\ Shorter(e, e)
        BY <1>1, ContextFields DEF SameBuffer, Shorter
      <3>2. \A n \in Nat : Skip(e, n) \in Context /\ SameBuffer(e, Skip(e, n)) /\ Shorter(e, Skip(e, n))
        BY <1>1, Skipped
      <3> QED BY <1>1, <1>5, <3>1, <3>2
    <2>2. Headed(d, type) /\ (\A n : Fits(d, n) <=> Fits(c, n)) /\ d.heap = c.heap /\ d.g = c.g \o <<0>>
      <3>1. Headed(d, type) /\ (\A n : Fits(d, n) <=> Fits(e, n))
        BY <1>3, <2>1, SameHolds
      <3> QED BY <1>1, <1>4, <2>1, <3>1 DEF SameBuffer
    <2>3. Grown(c, d, <<0>>, 2)
      BY <1>0, <2>1, <2>2, GrownBy
    <2>4. ASSUME NEW n \in 2 .. 4
          PROVE  \E els \in Seq(Els(level, n, k)) : Grown(c, d, <<Len(els)>> \o FlattenSeq(CellsOf(els)), 2)
      <3>1. <<>> \in Seq(Els(level, n, k)) /\ Len(<<>>) = 0 /\ FlattenSeq(CellsOf(<<>>)) = <<>>
        BY CellsNone
      <3>2. <<0>> \o <<>> = <<0>>
        BY <1>0
      <3>3. Grown(c, d, <<Len(<<>>)>> \o FlattenSeq(CellsOf(<<>>)), 2)
        BY <2>3, <3>1, <3>2, Zenon
      <3> QED BY <3>1, <3>3, Zenon
    <2>5. Shorter(c, d)
      BY <1>1, <2>1 DEF Shorter
    <2> QED BY <2>1, <2>2, <2>4, <2>5 DEF SegmentRead
  <1>6. CASE d = Failed(e)
    <2>1. d \in Context /\ d.err = "input" /\ d.heap = c.heap
      BY <1>1, <1>6, FailedFields
    <2> QED BY <2>1 DEF SegmentRead
  <1>7. CASE d = series[<<Skip(e, 1), level, Len(e.g), 0>>]
    <2> DEFINE f == Skip(e, 1)
    <2>1. f \in Context /\ f.err = "none" /\ SameBuffer(e, f) /\ Shorter(e, f)
      BY <1>1, Skipped
    <2>2. f.g = e.g /\ f.heap = c.heap
      BY <1>1, <2>1 DEF SameBuffer
    <2>3. Headed(f, type) /\ \A n : Fits(f, n) <=> Fits(c, n)
      <3>1. Headed(f, type) /\ \A n : Fits(f, n) <=> Fits(e, n)
        BY <1>3, <2>1, SameHolds
      <3> QED BY <1>4, <3>1
    <2> HIDE DEF f
    <2>4. d = series[<<f, level, at, 0>>]
      BY <1>2, <1>7 DEF f
    <2>5. at \in 3 .. Len(f.g)
      BY <1>2, <2>2
    <2>6. SeriesRead(f, d, type, level, k, at, 0)
      <3>1. 0 \in Nat
        OBVIOUS
      <3> QED BY <1>2, <2>1, <2>3, <2>4, <2>5, <3>1, Zenon DEF SoundSeries
    <2>7. d \in Context /\ d.heap = c.heap /\ (d.err = "none" => Headed(d, type))
      BY <2>2, <2>6 DEF SeriesRead
    <2>9. d.err = "none" => Shorter(c, d)
      <3>1. Shorter(c, f)
        BY <1>1, <2>1 DEF Shorter
      <3>2. d.err = "none" => Shorter(f, d)
        BY <2>6 DEF SeriesRead
      <3> QED BY <2>1, <2>7, <3>1, <3>2, ShorterStill
    <2>8. ASSUME d.err = "none", NEW n \in 2 .. 4, Fits(d, n)
          PROVE  /\ Fits(c, n)
                 /\ \E els \in Seq(Els(level, n, k)) : Grown(c, d, <<Len(els)>> \o FlattenSeq(CellsOf(els)), 2)
      <3>1. /\ Fits(f, n)
            /\ \E els \in Seq(Els(level, n, k)) :
                  Grown(f, d, FlattenSeq(CellsOf(els)), at) /\ d.g[at] = 0 + Len(els)
        BY <2>6, <2>8 DEF SeriesRead
      <3>2. PICK els \in Seq(Els(level, n, k)) :
                Grown(f, d, FlattenSeq(CellsOf(els)), at) /\ d.g[at] = 0 + Len(els)
        BY <3>1
      <3> DEFINE flat == FlattenSeq(CellsOf(els))
                 S == Els(level, n, k)
      <3>3. \A x \in S : Shaped(x)
        <4>1. n \in Nat /\ level \in -1 .. 3
          OBVIOUS
        <4> QED BY <4>1, ElsShape
      <3>4. els \in Seq(S)
        OBVIOUS
      <3> HIDE DEF S
      <3>5. flat \in Seq(Int) /\ Len(els) \in Nat
        BY <3>3, <3>4, SeriesParts
      <3>6. Grown(f, d, flat, at) /\ d.g[at] = Len(els)
        BY <3>2, <3>5
      <3> HIDE DEF flat
      <3>7. Grown(c, d, <<Len(els)>> \o flat, 2)
        <4>1. f.g = Append(c.g, 0) /\ at = Len(c.g) + 1 /\ at >= 3 /\ Len(els) \in Int
          BY <1>2, <2>2, <3>5 DEF at
        <4> QED BY <2>1, <2>7, <3>5, <3>6, <4>1, CountedGrowth
      <3> QED BY <2>3, <3>1, <3>4, <3>7 DEF S, flat
    <2> QED BY <2>7, <2>8, <2>9 DEF SegmentRead
  <1>8. \/ d = e \/ d = Failed(e) \/ d = Skip(e, 2)
        \/ d = series[<<Skip(e, 1), level, Len(e.g), 0>>]
    BY DEF decodeSeriesSegment, e
  <1>9. e.err = "none" /\ (d = e \/ d = Skip(e, 2) => d.err = "none")
    <2>1. e.err = "none"
      BY <1>1
    <2>2. Skip(e, 2).err = e.err
      BY <1>1, Skipped
    <2> QED BY <2>1, <2>2
  <1>10. d = e \/ d = Skip(e, 2) => \E n \in Nat : d = e \/ d = Skip(e, n)
    OBVIOUS
  <1> QED BY <1>5, <1>6, <1>7, <1>8, <1>9, <1>10

\* What a call of the reader returns: a geometry in a buffer of its own, or nothing.
Sound(o, S) ==
    /\ o.err \in {"none", "input"} /\ o.heap = IF o.err = "none" THEN 1 ELSE 0
    /\ o.err = "none" => o.read \in Nat /\ \E x \in S : o.g = x.cells

\* A geometry of a collection, copied.
LEMMA MemberRead ==
    ASSUME NEW c \in Context, c.err = "none", NEW type \in TypeNames, Headed(c, type), NEW k \in Nat,
           NEW o, Sound(o, Trees[k]), NEW d, d = TakeMember(c, o)
    PROVE  ElementRead(c, d, type, -1, k)
  <1>0. c.heap \in Int
    BY ContextFields
  <1>1. CASE o.err # "none"
    <2>1. d = [c EXCEPT !.err = o.err, !.heap = @ + o.heap] /\ o.heap = 0 /\ o.err = "input"
      BY <1>1 DEF TakeMember, Sound
    <2>3. d = [c EXCEPT !.err = "input", !.heap = c.heap + 0]
      BY <2>1, Zenon
    <2>2. d \in Context /\ d.err = "input" /\ d.heap = c.heap + 0
      <3> DEFINE h == c.heap + 0
      <3>1. h \in Int
        BY <1>0
      <3> HIDE DEF h
      <3>2. d = [c EXCEPT !.err = "input", !.heap = h]
        BY <2>3 DEF h
      <3>3. d \in Context /\ d.err = "input" /\ d.heap = h
        BY ZenonT(30), <3>1, <3>2 DEF Context
      <3> QED BY <3>3 DEF h
    <2> QED BY <1>0, <2>2 DEF ElementRead
  <1>2. CASE o.err = "none"
    <2>0. o.heap = 1 /\ o.read \in Nat
      BY <1>2 DEF Sound
    <2>1. PICK x \in Trees[k] : o.g = x.cells
      BY <1>2 DEF Sound
    <2>2. x.cells \in Seq(Int)
      BY TreeForm DEF Form, Shaped
    <2> DEFINE a == Skip(c, o.read)
               b == Grow(a, x.cells)
    <2>3. a \in Context /\ SameBuffer(c, a) /\ Shorter(c, a) /\ a.err = c.err
      BY <2>0, Skipped
    <2> HIDE DEF a
    <2>4. /\ b \in Context /\ b.g = a.g \o x.cells /\ b.heap = a.heap /\ b.err = a.err /\ b.p = a.p
          /\ b.writtenCoord = a.writtenCoord /\ b.mustZ = a.mustZ /\ b.mustM = a.mustM
      BY <2>2, <2>3, GrowFields
    <2>5. d = [b EXCEPT !.heap = @ + 1 - 1]
      BY <1>2, <2>0, <2>1, Zenon DEF TakeMember, a
    <2> HIDE DEF b
    <2>6. b.heap \in Int
      BY <2>4, ContextFields
    <2>7. /\ d \in Context /\ d.g = b.g /\ d.heap = b.heap /\ d.p = b.p
          /\ d.writtenCoord = b.writtenCoord /\ d.mustZ = b.mustZ /\ d.mustM = b.mustM
      <3> DEFINE h == b.heap + 1 - 1
      <3>1. h \in Int /\ h = b.heap
        BY <2>6
      <3>2. d = [b EXCEPT !.heap = h]
        BY <2>5, Zenon
      <3> HIDE DEF h
      <3>3. /\ d \in Context /\ d.g = b.g /\ d.heap = h /\ d.p = b.p
            /\ d.writtenCoord = b.writtenCoord /\ d.mustZ = b.mustZ /\ d.mustM = b.mustM
        BY <2>4, <3>1, <3>2 DEF Context
      <3> QED BY <3>1, <3>3
    <2>8. d.g = c.g \o x.cells /\ d.heap = c.heap /\ d.writtenCoord = c.writtenCoord /\ d.mustZ = c.mustZ
          /\ d.mustM = c.mustM
      BY <2>3, <2>4, <2>7 DEF SameBuffer
    <2>9. Grown(c, d, x.cells, 2)
      BY <2>2, <2>7, <2>8, GrownBy
    <2>10. Headed(d, type)
      <3>1. c.g \in Seq(Int) /\ Len(c.g) >= 2
        BY ContextFields DEF Headed
      <3> DEFINE s == c.g
                 t == x.cells
                 u == d.g
      <3>2. s \in Seq(Int) /\ t \in Seq(Int) /\ Len(s) >= 2 /\ u = s \o t
        BY <2>2, <2>8, <3>1
      <3> HIDE DEF s, t, u
      <3>3. Len(u) = Len(s) + Len(t) /\ (\A i \in 1 .. Len(s) : u[i] = s[i]) /\ Len(t) \in Nat /\ Len(s) \in Nat
        BY ONLY <3>2, ConcatProperties
      <3>4. Len(u) >= 2 /\ u[1] = s[1] /\ u[2] = s[2]
        BY <3>2, <3>3
      <3> QED BY <2>8, <3>4, Zenon DEF s, u, Headed
    <2>11. Shorter(c, d)
      BY <2>3, <2>4, <2>7 DEF Shorter
    <2>12. \A n : Fits(d, n) => Fits(c, n)
      BY <2>8, Zenon DEF Fits
    <2>13. Els(-1, 2, k) = Trees[k] /\ \A n : Els(-1, n, k) = Trees[k]
      BY DEF Els
    <2> QED BY <2>7, <2>8, <2>9, <2>10, <2>11, <2>12, <2>13 DEF ElementRead
  <1> QED BY <1>1, <1>2

\* A series that is the element of another.
LEMMA SegmentElement ==
    ASSUME NEW c, NEW d, NEW type, NEW level \in 0 .. 2, NEW k \in Nat, SegmentRead(c, d, type, level, k), NEW j
    PROVE  ElementRead(c, d, type, level + 1, j)
  <1>1. ASSUME d.err = "none", NEW n \in 2 .. 4, Fits(d, n)
        PROVE  Fits(c, n) /\ \E x \in Els(level + 1, n, j) : Grown(c, d, x.cells, 2)
    <2>1. /\ Fits(c, n)
          /\ \E els \in Seq(Els(level, n, k)) : Grown(c, d, <<Len(els)>> \o FlattenSeq(CellsOf(els)), 2)
      BY <1>1 DEF SegmentRead
    <2>2. PICK els \in Seq(Els(level, n, k)) : Grown(c, d, <<Len(els)>> \o FlattenSeq(CellsOf(els)), 2)
      BY <2>1
    <2>3. Els(level, n, k) = Elements(level, n) /\ Els(level + 1, n, j) = Elements(level + 1, n)
      BY DEF Els
    <2>4. Elements(level + 1, n) = SeriesOf(Elements(level, n))
      BY ElementsBelow
    <2> DEFINE S == Elements(level, n)
    <2>5. els \in Seq(S)
      BY <2>3
    <2> HIDE DEF S
    <2>6. SeriesPiece(els) \in SeriesOf(S)
      BY <2>5, Zenon DEF SeriesOf
    <2>7. SeriesPiece(els).cells = <<Len(els)>> \o FlattenSeq(CellsOf(els))
      BY Zenon DEF SeriesPiece
    <2> QED BY <2>1, <2>2, <2>3, <2>4, <2>6, <2>7, Zenon DEF S
  <1> QED BY <1>1 DEF ElementRead, SegmentRead

\* An element at any level.
LEMMA ElementOf ==
    ASSUME NEW c \in Context, c.err = "none", NEW type \in TypeNames, Headed(c, type), NEW k \in Nat,
           NEW level \in -1 .. 2, NEW series, SoundSeries(series, k),
           Sound(geomDecodeWKTInner(series, c.p, TRUE), Trees[k + 1]),
           NEW d, d = DecodeElement(series, c, level)
    PROVE  ElementRead(c, d, type, level, k + 1)
  <1>1. CASE level = -1
    <2>1. d = TakeMember(c, geomDecodeWKTInner(series, c.p, TRUE))
      BY <1>1 DEF DecodeElement
    <2>2. ElementRead(c, d, type, -1, k + 1)
      <3> DEFINE o == geomDecodeWKTInner(series, c.p, TRUE)
                 kk == k + 1
      <3>0. kk \in Nat
        OBVIOUS
      <3>1. kk \in Nat /\ Sound(o, Trees[kk]) /\ d = TakeMember(c, o)
        BY <2>1, <3>0, Zenon
      <3> HIDE DEF o, kk
      <3>2. ElementRead(c, d, type, -1, kk)
        BY <3>1, MemberRead
      <3> QED BY <3>2 DEF kk
    <2> QED BY <1>1, <2>2
  <1>2. CASE level = 0
    <2>1. d = Then(decodeNumbers(c), appendCoord)
      BY <1>2 DEF DecodeElement
    <2> QED BY <1>2, <2>1, CoordinateRead
  <1>3. CASE level \in 1 .. 2
    <2>1. d = decodeSeriesSegment(series, c, level - 1)
      <3>1. ~(level < 0) /\ level # 0
        BY <1>3
      <3> QED BY <3>1 DEF DecodeElement
    <2>2. level - 1 \in -1 .. 2 /\ level - 1 \in 0 .. 2 /\ (level - 1) + 1 = level
      BY <1>3
    <2> DEFINE l == level - 1
    <2>3. l \in -1 .. 2 /\ l \in 0 .. 2 /\ l + 1 = level /\ d = decodeSeriesSegment(series, c, l)
      BY <2>1, <2>2
    <2> HIDE DEF l
    <2>4. SegmentRead(c, d, type, l, k)
      BY <2>3, SegmentOf
    <2>5. ElementRead(c, d, type, l + 1, k + 1)
      BY <2>3, <2>4, SegmentElement
    <2> QED BY <2>3, <2>5
  <1> QED BY <1>1, <1>2, <1>3

\* The cells of one element.
LEMMA CellsOne ==
    ASSUME NEW S, \A x \in S : Shaped(x), NEW y \in S
    PROVE  <<y>> \in Seq(S) /\ Len(<<y>>) = 1 /\ FlattenSeq(CellsOf(<<y>>)) = y.cells
  <1>1. <<>> \in Seq(S) /\ FlattenSeq(CellsOf(<<>>)) = <<>>
    BY CellsNone
  <1>2. <<y>> \o <<>> = <<y>>
    OBVIOUS
  <1>3. Before(y, <<>>) = <<y>> \o <<>>
    BY DEF Before
  <1>6. FlattenSeq(CellsOf(Before(y, <<>>))) = y.cells \o FlattenSeq(CellsOf(<<>>))
    BY <1>1, CellsCons
  <1>4. y.cells \o <<>> = y.cells
    <2>1. y.cells \in Seq(Int)
      BY DEF Shaped
    <2> QED BY <2>1
  <1>5. <<y>> \in Seq(S) /\ Len(<<y>>) = 1
    OBVIOUS
  <1> QED BY <1>1, <1>2, <1>3, <1>4, <1>5, <1>6, Zenon

\* The bracket at the end of a series, and the count in its place.
CountAtEnd(d, at, n) == [Skip(d, 1) EXCEPT !.g[at] = n]

CountIsPut(d, e, type, at, n) ==
    /\ e \in Context /\ e.err = d.err /\ e.heap = d.heap /\ Headed(e, type) /\ Shorter(d, e)
    /\ \A k : Fits(e, k) <=> Fits(d, k)
    /\ Len(e.g) = Len(d.g) /\ e.g[at] = n
    /\ \A i \in 1 .. Len(d.g) : i # at => e.g[i] = d.g[i]

\* A count is put in its place.
LEMMA CountPut ==
    ASSUME NEW d \in Context, NEW type, Headed(d, type), NEW at \in 3 .. Len(d.g), NEW n \in Nat
    PROVE  CountIsPut(d, CountAtEnd(d, at, n), type, at, n)
  <1> DEFINE e == CountAtEnd(d, at, n)
  <1>0. e = [Skip(d, 1) EXCEPT !.g[at] = n]
    BY DEF CountAtEnd
  <1> HIDE DEF e
  <1> DEFINE b == Skip(d, 1)
             g == [d.g EXCEPT ![at] = n]
             s == d.g
  <1>1. /\ b \in Context /\ b.err = d.err /\ b.p = SubSeq(d.p, 1 + 1, Len(d.p)) /\ SameBuffer(d, b) /\ Shorter(d, b)
    BY Skipped
  <1>2. s \in Seq(Int) /\ Len(s) \in Nat /\ Len(s) >= 2 /\ at \in 3 .. Len(s) /\ n \in Int
    <2>1. s \in Seq(Int)
      BY ContextFields
    <2> QED BY <2>1 DEF Headed
  <1>3. /\ g \in Seq(Int) /\ Len(g) = Len(s) /\ g[at] = n
        /\ \A i \in 1 .. Len(s) : i # at => g[i] = s[i]
    <2>1. g = [s EXCEPT ![at] = n]
      OBVIOUS
    <2> HIDE DEF s, g
    <2> QED BY ONLY <1>2, <2>1
  <1>4. b.g = d.g
    BY <1>1 DEF SameBuffer
  <1>5. e = [b EXCEPT !.g = g]
    <2>1. e = [b EXCEPT !.g[at] = n]
      BY <1>0
    <2> HIDE DEF b
    <2> QED BY <1>1, <1>4, <2>1 DEF Context
  <1> HIDE DEF b, g
  <1>6. /\ e \in Context /\ e.g = g /\ e.err = b.err /\ e.heap = b.heap /\ e.p = b.p
        /\ e.writtenCoord = b.writtenCoord /\ e.mustZ = b.mustZ /\ e.mustM = b.mustM
    BY <1>1, <1>3, <1>5 DEF Context
  <1>7. e.heap = d.heap /\ e.writtenCoord = d.writtenCoord /\ e.mustZ = d.mustZ /\ e.mustM = d.mustM
    BY <1>1, <1>6 DEF SameBuffer
  <1>8. \A k : Fits(e, k) <=> Fits(d, k)
    BY <1>7, Zenon DEF Fits
  <1>9. g[1] = s[1] /\ g[2] = s[2] /\ Len(g) >= 2
    <2> HIDE DEF s
    <2>1. 1 \in 1 .. Len(s) /\ 2 \in 1 .. Len(s) /\ 1 # at /\ 2 # at
      BY <1>2
    <2> QED BY <1>2, <1>3, <2>1
  <1>10. Headed(e, type)
    <2>1. Len(e.g) >= 2 /\ e.g[1] = d.g[1] /\ e.g[2] = d.g[2]
      BY <1>6, <1>9
    <2> QED BY <1>7, <2>1, Zenon DEF Headed
  <1>11. Shorter(d, e)
    BY <1>1, <1>6 DEF Shorter
  <1> QED BY <1>1, <1>3, <1>6, <1>7, <1>8, <1>10, <1>11 DEF CountIsPut, e

\* What has grown has, with the count in its place.
LEMMA CountedElement ==
    ASSUME NEW c \in Context, NEW d \in Context, NEW e \in Context, NEW cells \in Seq(Int), Grown(c, d, cells, 2),
           NEW at \in 3 .. Len(c.g), Len(e.g) = Len(d.g),
           \A i \in 1 .. Len(d.g) : i # at => e.g[i] = d.g[i]
    PROVE  Grown(c, e, cells, at)
  <1> DEFINE k == Len(c.g)
             l == Len(cells)
             gc == c.g
             gd == d.g
             ge == e.g
  <1>1. k \in Nat /\ l \in Nat /\ at \in 3 .. k
    <2>1. gc \in Seq(Int)
      BY ContextFields
    <2> QED BY <2>1
  <1>2. /\ Len(gd) = k + l
        /\ \A i \in 1 .. k : i \notin {2, 2} => gd[i] = gc[i]
        /\ k + 1 + l <= Len(gd) + 1 /\ \A i \in 1 .. l : gd[k + 1 + i - 1] = cells[i]
    BY DEF Grown, Stands
  <1>3. Len(ge) = Len(gd) /\ \A i \in 1 .. Len(gd) : i # at => ge[i] = gd[i]
    OBVIOUS
  <1> HIDE DEF k, l, gc, gd, ge
  <1>4. \A i \in 1 .. k : i \notin {2, at} => ge[i] = gc[i]
    BY <1>1, <1>2, <1>3
  <1>5. ASSUME NEW i \in 1 .. l PROVE ge[k + 1 + i - 1] = cells[i]
    <2>1. k + 1 + i - 1 \in 1 .. Len(gd) /\ k + 1 + i - 1 # at
      BY <1>1, <1>2
    <2> QED BY <1>2, <1>3, <2>1
  <1>6. Len(ge) = k + l /\ k + 1 + l <= Len(ge) + 1
    BY <1>2, <1>3
  <1> QED BY <1>4, <1>5, <1>6 DEF Grown, Stands, k, l, gc, ge

-----------------------------------------------------------------------------
\* One element of a series and those behind it.
LEMMA SeriesStep ==
    ASSUME NEW c \in Context, c.err = "none", NEW type \in TypeNames, Headed(c, type), NEW k \in Nat,
           NEW level \in -1 .. 2, NEW series, SoundSeries(series, k),
           NEW szpos \in 3 .. Len(c.g), NEW sz \in Nat,
           Sound(geomDecodeWKTInner(series, c.p, TRUE), Trees[k + 1])
    PROVE  SeriesRead(c, SeriesElements(series, c, level, szpos, sz), type, level, k + 1, szpos, sz)
  <1> DEFINE d == DecodeElement(series, c, level)
             r == SeriesElements(series, c, level, szpos, sz)
             e == Skip(d, 1)
  <1>1. ElementRead(c, d, type, level, k + 1)
    <2>1. d = DecodeElement(series, c, level)
      OBVIOUS
    <2> HIDE DEF d
    <2> QED BY <2>1, ElementOf
  <1>2. r = IF d.err = "none"
            THEN CASE Ahead(d, 1) = "," -> series[<<e, level, szpos, sz + 1>>]
                   [] Ahead(d, 1) = ")" -> [Skip(d, 1) EXCEPT !.g[szpos] = sz + 1]
                   [] OTHER -> Failed(d)
            ELSE d
    BY Zenon DEF SeriesElements, Then
  <1> HIDE DEF d, r
  <1>3. d \in Context /\ d.heap = c.heap
    BY <1>1 DEF ElementRead
  <1>4. CASE d.err # "none"
    <2>1. r = d
      BY <1>2, <1>4
    <2> QED BY <1>3, <1>4, <2>1 DEF SeriesRead, r
  <1>5. CASE d.err = "none" /\ Ahead(d, 1) \notin {",", ")"}
    <2>1. r = Failed(d)
      BY <1>2, <1>5
    <2>2. r \in Context /\ r.err = "input" /\ r.heap = c.heap
      BY <1>3, <2>1, FailedFields
    <2> QED BY <2>2 DEF SeriesRead, r
  <1>6. CASE d.err = "none"
    <2>1. Headed(d, type) /\ Shorter(c, d)
      BY <1>1, <1>6 DEF ElementRead
    <2>2. ASSUME NEW n \in 2 .. 4, Fits(d, n)
          PROVE  Fits(c, n) /\ \E x \in Els(level, n, k + 1) : Grown(c, d, x.cells, 2)
      BY <1>1, <1>6, <2>2 DEF ElementRead
    <2>3. \A n \in 2 .. 4 : \A x \in Els(level, n, k + 1) : Shaped(x)
      <3>1. k + 1 \in Nat /\ level \in -1 .. 3 /\ \A n \in 2 .. 4 : n \in Nat
        OBVIOUS
      <3> QED BY <3>1, ElsShape
    <2>4. \A n \in 2 .. 4 : Els(level, n, k) \subseteq Els(level, n, k + 1)
      <3>1. k \in Nat /\ level \in -1 .. 3 /\ \A n \in 2 .. 4 : n \in Nat
        OBVIOUS
      <3> QED BY <3>1, ElsShape
    <2> DEFINE U(n) == Els(level, n, k + 1)
    <2>5. Len(c.g) \in Nat /\ szpos \in Nat
      BY ContextFields
    <2>6. CASE Ahead(d, 1) = ")"
      <3>1. r = [Skip(d, 1) EXCEPT !.g[szpos] = sz + 1]
        BY <1>2, <1>6, <2>6
      <3>2. ASSUME NEW n \in 2 .. 4, Fits(r, n), Fits(d, n) <=> Fits(r, n), r \in Context, Len(r.g) = Len(d.g), r.g[szpos] = sz + 1,
                   \A i \in 1 .. Len(d.g) : i # szpos => r.g[i] = d.g[i]
            PROVE  /\ Fits(c, n)
                   /\ \E els \in Seq(U(n)) : Grown(c, r, FlattenSeq(CellsOf(els)), szpos) /\ r.g[szpos] = sz + Len(els)
        <4>1. PICK x \in U(n) : Grown(c, d, x.cells, 2)
          BY <2>2, <3>2
        <4>2. Fits(c, n)
          BY <2>2, <3>2
        <4>3. /\ <<x>> \in Seq(U(n)) /\ Len(<<x>>) = 1 /\ FlattenSeq(CellsOf(<<x>>)) = x.cells
          <5> DEFINE S == U(n)
          <5>1. (\A y \in S : Shaped(y)) /\ x \in S
            BY <2>3
          <5> HIDE DEF S
          <5>2. <<x>> \in Seq(S) /\ Len(<<x>>) = 1 /\ FlattenSeq(CellsOf(<<x>>)) = x.cells
            BY <5>1, CellsOne
          <5> QED BY <5>2 DEF S
        <4>4. x.cells \in Seq(Int)
          BY <2>3 DEF Shaped
        <4>5. Grown(c, r, x.cells, szpos)
          BY <1>3, <3>2, <4>1, <4>4, CountedElement
        <4> HIDE DEF U
        <4>6. Grown(c, r, FlattenSeq(CellsOf(<<x>>)), szpos) /\ r.g[szpos] = sz + Len(<<x>>)
          BY <3>2, <4>3, <4>5, Zenon
        <4> QED BY <4>2, <4>3, <4>6, Zenon
      <3>3. szpos \in 3 .. Len(d.g)
        <4>1. PICK n \in 2 .. 4 : Fits(d, n)
          <5>1. d.mustZ \in BOOLEAN /\ d.mustM \in BOOLEAN
            BY <1>3, ContextFields
          <5>2. NumbersOf(d.mustZ, d.mustM) \in 2 .. 4
            BY <5>1 DEF NumbersOf
          <5> QED BY <5>2 DEF Fits
        <4>2. PICK x \in U(n) : Grown(c, d, x.cells, 2)
          BY <2>2, <4>1
        <4>3. x.cells \in Seq(Int)
          BY <2>3 DEF Shaped
        <4>4. Len(x.cells) \in Nat /\ Len(d.g) = Len(c.g) + Len(x.cells)
          BY <4>2, <4>3 DEF Grown
        <4> DEFINE l == Len(x.cells)
                   q == Len(c.g)
                   w == Len(d.g)
        <4>5. l \in Nat /\ q \in Nat /\ w = q + l /\ szpos \in 3 .. q
          BY <2>5, <4>4
        <4> HIDE DEF l, q, w
        <4>6. szpos \in 3 .. w
          BY <4>5
        <4> QED BY <4>6 DEF w
      <3>4. /\ r \in Context /\ r.err = d.err /\ r.heap = d.heap /\ Headed(r, type) /\ Shorter(d, r)
            /\ \A n : Fits(r, n) <=> Fits(d, n)
            /\ Len(r.g) = Len(d.g) /\ r.g[szpos] = sz + 1
            /\ \A i \in 1 .. Len(d.g) : i # szpos => r.g[i] = d.g[i]
        <4> DEFINE n == sz + 1
        <4>1. n \in Nat
          OBVIOUS
        <4>2. r = CountAtEnd(d, szpos, n)
          BY <3>1, Zenon DEF CountAtEnd
        <4> HIDE DEF n
        <4>3. CountIsPut(d, r, type, szpos, n)
          BY <1>3, <2>1, <3>3, <4>1, <4>2, CountPut
        <4> QED BY <4>3 DEF CountIsPut, n
      <3>5. Shorter(c, r)
        BY <1>3, <2>1, <3>4, ShorterStill
      <3>6. r.heap = c.heap
        BY <1>3, <3>4
      <3>7. ASSUME NEW n \in 2 .. 4, Fits(r, n)
            PROVE  /\ Fits(c, n)
                   /\ \E els \in Seq(U(n)) : Grown(c, r, FlattenSeq(CellsOf(els)), szpos) /\ r.g[szpos] = sz + Len(els)
        BY <3>2, <3>4, <3>7
      <3> QED BY <3>4, <3>5, <3>6, <3>7 DEF SeriesRead, r
    <2>7. CASE Ahead(d, 1) = ","
      <3>1. r = series[<<e, level, szpos, sz + 1>>]
        BY <1>2, <1>6, <2>7
      <3>2. e \in Context /\ e.err = "none" /\ SameBuffer(d, e) /\ Shorter(d, e)
        BY <1>3, <1>6, Skipped
      <3> HIDE DEF e
      <3>3. Headed(e, type) /\ (\A n : Fits(e, n) <=> Fits(d, n)) /\ e.heap = d.heap
        BY <2>1, <3>2, SameHolds
      <3>4. \A cells : Grown(c, d, cells, 2) <=> Grown(c, e, cells, 2)
        BY <3>2, Zenon DEF SameBuffer, Grown
      <3>5. szpos \in 3 .. Len(e.g)
        <4>1. PICK n \in 2 .. 4 : Fits(d, n)
          <5>1. d.mustZ \in BOOLEAN /\ d.mustM \in BOOLEAN
            BY <1>3, ContextFields
          <5>2. NumbersOf(d.mustZ, d.mustM) \in 2 .. 4
            BY <5>1 DEF NumbersOf
          <5> QED BY <5>2 DEF Fits
        <4>2. PICK x \in U(n) : Grown(c, d, x.cells, 2)
          BY <2>2, <4>1
        <4>3. x.cells \in Seq(Int)
          BY <2>3 DEF Shaped
        <4>4. Len(x.cells) \in Nat /\ Len(e.g) = Len(c.g) + Len(x.cells)
          <5>1. Grown(c, e, x.cells, 2)
            BY <3>4, <4>2
          <5> QED BY <4>3, <5>1 DEF Grown
        <4> DEFINE l == Len(x.cells)
                   q == Len(c.g)
                   w == Len(e.g)
        <4>5. l \in Nat /\ q \in Nat /\ w = q + l /\ szpos \in 3 .. q
          BY <2>5, <4>4
        <4> HIDE DEF l, q, w
        <4>6. szpos \in 3 .. w
          BY <4>5
        <4> QED BY <4>6 DEF w
      <3>6. SeriesRead(e, r, type, level, k, szpos, sz + 1)
        <4>1. sz + 1 \in Nat
          OBVIOUS
        <4> DEFINE sz1 == sz + 1
        <4>2. sz1 \in Nat /\ r = series[<<e, level, szpos, sz1>>]
          BY <3>1, <4>1
        <4> HIDE DEF sz1
        <4>3. SeriesRead(e, r, type, level, k, szpos, sz1)
          BY <2>5, <3>2, <3>3, <3>5, <4>2, Zenon DEF SoundSeries
        <4> QED BY <4>3 DEF sz1
      <3>7. r \in Context /\ r.heap = c.heap /\ (r.err = "none" => Headed(r, type) /\ Shorter(e, r))
        BY <1>3, <3>3, <3>6 DEF SeriesRead
      <3>8. r.err = "none" => Shorter(c, r)
        <4>1. Shorter(c, e)
          BY <1>3, <2>1, <3>2, ShorterStill
        <4> QED BY <3>2, <3>7, <4>1, ShorterStill
      <3>9. ASSUME r.err = "none", NEW n \in 2 .. 4, Fits(r, n)
            PROVE  /\ Fits(c, n)
                   /\ \E els \in Seq(U(n)) : Grown(c, r, FlattenSeq(CellsOf(els)), szpos) /\ r.g[szpos] = sz + Len(els)
        <4>1. /\ Fits(e, n)
              /\ \E els \in Seq(Els(level, n, k)) :
                    Grown(e, r, FlattenSeq(CellsOf(els)), szpos) /\ r.g[szpos] = (sz + 1) + Len(els)
          BY <3>6, <3>9 DEF SeriesRead
        <4>2. PICK els \in Seq(Els(level, n, k)) :
                  Grown(e, r, FlattenSeq(CellsOf(els)), szpos) /\ r.g[szpos] = (sz + 1) + Len(els)
          BY <4>1
        <4>3. Fits(d, n)
          BY <3>3, <4>1
        <4>4. PICK x \in U(n) : Grown(c, d, x.cells, 2)
          BY <2>2, <4>3
        <4>5. Fits(c, n)
          BY <2>2, <4>3
        <4> DEFINE S == U(n)
                   flat == FlattenSeq(CellsOf(els))
                   all == Before(x, els)
        <4>6. (\A y \in S : Shaped(y)) /\ x \in S /\ els \in Seq(S) /\ Len(els) \in Nat
          <5>1. els \in Seq(Els(level, n, k)) /\ Els(level, n, k) \subseteq S
            BY <2>4
          <5> DEFINE R == Els(level, n, k)
          <5>2. els \in Seq(R) /\ R \subseteq S
            BY <5>1
          <5> HIDE DEF R, S
          <5>3. els \in Seq(S) /\ Len(els) \in Nat
            BY ONLY <5>2
          <5> QED BY <2>3, <5>3 DEF S
        <4> HIDE DEF S
        <4>7. all \in Seq(S) /\ Len(all) = 1 + Len(els) /\ FlattenSeq(CellsOf(all)) = x.cells \o flat
          BY <4>6, CellsCons
        <4>8. flat \in Seq(Int) /\ x.cells \in Seq(Int)
          <5>1. flat \in Seq(Int)
            BY <4>6, SeriesParts
          <5> QED BY <4>6, <5>1 DEF Shaped
        <4> HIDE DEF flat, all
        <4>9. Grown(c, r, x.cells \o flat, szpos)
          <5>1. Grown(c, e, x.cells, 2) /\ Grown(e, r, flat, szpos)
            BY <3>4, <4>2, <4>4 DEF flat
          <5>2. szpos \in 1 .. Len(c.g) /\ Len(c.g) >= 2
            BY <2>5
          <5> QED BY <3>2, <3>7, <4>8, <5>1, <5>2, GrowthJoined
        <4>10. r.g[szpos] = sz + Len(all)
          BY <4>2, <4>6, <4>7
        <4>11. Grown(c, r, FlattenSeq(CellsOf(all)), szpos)
          BY <4>7, <4>9, Zenon
        <4>12. \E a \in Seq(S) : Grown(c, r, FlattenSeq(CellsOf(a)), szpos) /\ r.g[szpos] = sz + Len(a)
          BY <4>7, <4>10, <4>11, Zenon
        <4> QED BY <4>5, <4>12 DEF S
      <3> QED BY <3>7, <3>8, <3>9 DEF SeriesRead, r
    <2> QED BY <1>5, <1>6, <2>6, <2>7
  <1> QED BY <1>4, <1>6

\* The head of what has been read, with the dimensions that its coordinates have.
LEMMA SettledHead ==
    ASSUME NEW d \in Context, NEW type \in TypeNames, Headed(d, type)
    PROVE  \E h \in Heads : h.type = type /\ d.g[2] = TypeCell(TypeCode(type), h.z, h.m) /\ Fits(d, Dims(h))
  <1>1. PICK z \in BOOLEAN : \E m \in BOOLEAN : /\ d.g[2] = TypeCell(TypeCode(type), z, m)
                                                /\ d.writtenCoord => z = d.mustZ /\ m = d.mustM
    BY DEF Headed
  <1>2. PICK m \in BOOLEAN : /\ d.g[2] = TypeCell(TypeCode(type), z, m)
                             /\ d.writtenCoord => z = d.mustZ /\ m = d.mustM
    BY <1>1
  <1> DEFINE h == Header(type, z, m)
  <1>3. h \in Heads /\ h.type = type /\ h.z = z /\ h.m = m
    BY HeadOf
  <1>4. Dims(h) = NumbersOf(z, m)
    BY Zenon DEF Dims, NumbersOf, Header
  <1> HIDE DEF h
  <1>5. Fits(d, Dims(h))
    <2>1. CASE d.writtenCoord
      <3>1. z = d.mustZ /\ m = d.mustM
        BY <1>2, <2>1
      <3> QED BY <1>4, <3>1, Zenon DEF Fits
    <2>2. CASE ~d.writtenCoord
      BY <2>2 DEF Fits
    <2> QED BY <2>1, <2>2
  <1>6. d.g[2] = TypeCell(TypeCode(type), h.z, h.m)
    BY <1>2, <1>3, Zenon
  <1> QED BY <1>3, <1>5, <1>6, Zenon

\* A buffer that held no more than a head, and its cells.
LEMMA WholeBuffer ==
    ASSUME NEW e \in Context, NEW d \in Context, NEW type \in TypeNames, Headed(e, type), Headed(d, type), Len(e.g) = 2,
           NEW cells \in Seq(Int), Grown(e, d, cells, 2),
           NEW h \in Heads, h.type = type, d.g[2] = TypeCell(TypeCode(type), h.z, h.m)
    PROVE  d.g = HeadCells(h) \o cells
  <1> DEFINE a == HeadCells(h)
             u == a \o cells
             g == d.g
             l == Len(cells)
  <1>1. a \in Seq(Int) /\ Len(a) = 2 /\ a[1] = LittleEndian /\ a[2] = TypeCell(TypeCode(type), h.z, h.m)
    BY HeadDims
  <1>2. g \in Seq(Int) /\ l \in Nat
    BY ContextFields
  <1>3. Len(g) = 2 + l /\ g[1] = LittleEndian /\ g[2] = TypeCell(TypeCode(type), h.z, h.m)
    BY DEF Grown, Headed
  <1>4. \A i \in 1 .. l : g[2 + 1 + i - 1] = cells[i]
    BY DEF Grown, Stands
  <1> HIDE DEF a, g
  <1>5. /\ u \in Seq(Int) /\ Len(u) = 2 + l /\ u[1] = a[1] /\ u[2] = a[2]
        /\ \A i \in 1 .. l : u[2 + i] = cells[i]
    <2>1. /\ u \in Seq(Int) /\ Len(u) = Len(a) + Len(cells)
          /\ (\A i \in 1 .. Len(a) : u[i] = a[i])
          /\ \A i \in 1 .. Len(cells) : u[Len(a) + i] = cells[i]
      <3>1. a \in Seq(Int) /\ cells \in Seq(Int)
        BY <1>1
      <3> QED BY ONLY <3>1, ConcatProperties
    <2> HIDE DEF u
    <2> QED BY <1>1, <2>1
  <1> HIDE DEF u, l
  <1>6. \A i \in 1 .. Len(g) : g[i] = u[i]
    <2> SUFFICES ASSUME NEW i \in 1 .. Len(g) PROVE g[i] = u[i]
      OBVIOUS
    <2>1. CASE i <= 2
      <3>1. i = 1 \/ i = 2
        BY <2>1
      <3> QED BY <3>1, <1>1, <1>3, <1>5
    <2>2. CASE i > 2
      <3>1. i - 2 \in 1 .. l /\ 2 + 1 + (i - 2) - 1 = i /\ 2 + (i - 2) = i
        BY <2>2, <1>2, <1>3
      <3>2. g[2 + 1 + (i - 2) - 1] = cells[i - 2] /\ u[2 + (i - 2)] = cells[i - 2]
        BY <3>1, <1>4, <1>5
      <3> QED BY <3>1, <3>2
    <2> QED BY <2>1, <2>2
  <1>7. g = u
    BY <1>2, <1>3, <1>5, <1>6, SeqEqual
  <1> QED BY <1>7 DEF g, u, a

\* The context of a geometry when its head has been read.
Begins(c, e, type) ==
    /\ e \in Context /\ e.err = "none" /\ e.heap = 1 /\ e.writtenCoord = FALSE
    /\ Headed(e, type) /\ Len(e.g) = 2 /\ Shorter(c, e)

\* The name and the words of a geometry make its head.
LEMMA HeadBegins ==
    ASSUME NEW c \in Context, c.g = <<LittleEndian>>, c.writtenCoord = FALSE, c.heap = 1, NEW type \in TypeNames,
           decodeHead(c).err = "none"
    PROVE  Begins(c, appendType(decodeHead(c), type), type)
  <1> DEFINE d == decodeHead(c)
             e == appendType(d, type)
  <1>1. d \in Context /\ SameBuffer(c, d) /\ Shorter(c, d) /\ d.err = "none"
    BY HeadFields
  <1> DEFINE cell == TypeCell(TypeCode(type), d.hasZ, d.hasM)
  <1>2. cell \in Int /\ d.hasZ \in BOOLEAN /\ d.hasM \in BOOLEAN
    <2> HIDE DEF d
    <2>1. d.hasZ \in BOOLEAN /\ d.hasM \in BOOLEAN
      BY <1>1, ContextFields
    <2>2. TypeCode(type) \in 1 .. 7
      BY TypeCodes
    <2>3. cell \in Nat
      BY <2>1, <2>2, TypeCells
    <2> QED BY <2>1, <2>3
  <1> HIDE DEF d
  <1>3. e = Grow(d, <<cell>>)
    BY Zenon DEF appendType
  <1>4. <<cell>> \in Seq(Int)
    BY <1>2
  <1>5. /\ e \in Context /\ e.g = d.g \o <<cell>> /\ e.p = d.p /\ e.err = d.err /\ e.heap = d.heap
        /\ e.writtenCoord = d.writtenCoord
    <2> DEFINE s == <<cell>>
    <2>1. e = Grow(d, s) /\ s \in Seq(Int)
      BY <1>3, <1>4
    <2> HIDE DEF s, e
    <2>2. /\ e \in Context /\ e.g = d.g \o s /\ e.p = d.p /\ e.err = d.err /\ e.heap = d.heap
          /\ e.writtenCoord = d.writtenCoord
      BY <1>1, <2>1, GrowFields
    <2> QED BY <2>2 DEF s
  <1>6. e.g = <<LittleEndian, cell>> /\ e.heap = 1 /\ e.writtenCoord = FALSE
    <2>1. d.g = <<LittleEndian>> /\ d.heap = 1 /\ d.writtenCoord = FALSE
      BY <1>1 DEF SameBuffer
    <2> DEFINE one == <<LittleEndian>>
               two == <<cell>>
    <2>2. one \o two = <<LittleEndian, cell>>
      <3>1. \A a, b \in Int : <<a>> \o <<b>> = <<a, b>>
        <4> SUFFICES ASSUME NEW a \in Int, NEW b \in Int PROVE <<a>> \o <<b>> = <<a, b>>
          OBVIOUS
        <4> DEFINE s == <<a>>
                   t == <<b>>
                   u == s \o t
        <4>1. s \in Seq(Int) /\ t \in Seq(Int) /\ Len(s) = 1 /\ Len(t) = 1 /\ s[1] = a /\ t[1] = b
          OBVIOUS
        <4> HIDE DEF s, t
        <4>4. /\ u \in Seq(Int) /\ Len(u) = Len(s) + Len(t) /\ (\A i \in 1 .. Len(s) : u[i] = s[i])
              /\ \A i \in 1 .. Len(t) : u[Len(s) + i] = t[i]
          <5>1. s \in Seq(Int) /\ t \in Seq(Int)
            BY <4>1
          <5> QED BY ONLY <5>1, ConcatProperties
        <4> HIDE DEF u
        <4>2. u \in Seq(Int) /\ Len(u) = 2 /\ u[1] = a /\ u[1 + 1] = b
          BY <4>1, <4>4
        <4>3. u = <<a, b>>
          BY <4>2
        <4> QED BY <4>3 DEF u, s, t
      <3>2. LittleEndian \in Int
        BY DEF LittleEndian
      <3> QED BY <1>2, <3>1, <3>2, Zenon DEF one, two
    <2>3. e.g = one \o two
      BY <1>5, <2>1
    <2> QED BY <1>5, <2>1, <2>2, <2>3
  <1>7. Headed(e, type) /\ Len(e.g) = 2
    <2> DEFINE s == <<LittleEndian, cell>>
    <2>1. Len(s) = 2 /\ s[1] = LittleEndian /\ s[2] = cell
      <3> HIDE DEF cell
      <3> QED OBVIOUS
    <2>2. Len(s) >= 2
      BY <2>1
    <2>3. e.g = s
      BY <1>6
    <2>4. s[2] = TypeCell(TypeCode(type), d.hasZ, d.hasM)
      BY <2>1
    <2> HIDE DEF s, e
    <2>5. ~e.writtenCoord
      BY <1>6
    <2> QED BY <1>2, <2>1, <2>2, <2>3, <2>4, <2>5, Zenon DEF Headed
  <1>8. Shorter(c, e)
    BY <1>1, <1>5 DEF Shorter
  <1> QED BY <1>1, <1>5, <1>6, <1>7, <1>8 DEF Begins, d

\* The bracket behind the numbers of a point.
LEMMA PointRead ==
    ASSUME NEW e \in Context, e.err = "none", Headed(e, "POINT"), NEW k, NEW d, d = PointBody(e)
    PROVE  ElementRead(e, d, "POINT", 0, k)
  <1>0. "POINT" \in TypeNames
    BY DEF TypeNames
  <1>1. CASE e.isEmpty
    <2>1. d = appendCoord(e)
      BY <1>1 DEF PointBody
    <2>2. SameBuffer(e, e) /\ Shorter(e, e)
      BY ContextFields DEF SameBuffer, Shorter
    <2> QED BY <1>0, <2>1, <2>2, AppendRead
  <1>2. CASE ~e.isEmpty
    <2> DEFINE a == Skip(e, 1)
               b == decodeNumbers(a)
               q == Skip(b, 1)
    <2>1. d = IF b.err = "none" THEN PointEnd(b) ELSE b
      BY <1>2, Zenon DEF PointBody, Then
    <2>2. a \in Context /\ a.err = "none" /\ SameBuffer(e, a) /\ Shorter(e, a)
      BY Skipped
    <2> HIDE DEF a
    <2>3. NumbersRead(a, b)
      BY <2>2, NumbersKept
    <2> HIDE DEF b
    <2>4. b \in Context /\ b.heap = e.heap
      BY <2>2, <2>3 DEF NumbersRead, SameBuffer
    <2>5. CASE b.err # "none"
      <3>1. d = b
        BY <2>1, <2>5
      <3> QED BY <2>4, <2>5, <3>1 DEF ElementRead
    <2>6. CASE b.err = "none" /\ Ahead(b, 1) # ")"
      <3>1. d = Failed(b)
        BY <2>1, <2>6 DEF PointEnd
      <3>2. d \in Context /\ d.err = "input" /\ d.heap = e.heap
        BY <2>4, <3>1, FailedFields
      <3> QED BY <3>2 DEF ElementRead
    <2>7. CASE b.err = "none" /\ Ahead(b, 1) = ")"
      <3>1. d = appendCoord(q)
        BY <2>1, <2>7 DEF PointEnd
      <3>2. q \in Context /\ SameBuffer(b, q) /\ Shorter(b, q)
        BY <2>4, Skipped
      <3> HIDE DEF q
      <3>3. SameBuffer(a, b) /\ Shorter(a, b)
        BY <2>3, <2>7 DEF NumbersRead
      <3>4. SameBuffer(e, q)
        BY <2>2, <3>2, <3>3, Zenon DEF SameBuffer
      <3>5. Shorter(e, b)
        BY <2>2, <2>4, <3>3, ShorterStill
      <3>6. Shorter(e, q)
        BY <2>4, <3>2, <3>5, ShorterStill
      <3> QED BY <1>0, <3>1, <3>2, <3>4, <3>6, AppendRead
    <2> QED BY <2>5, <2>6, <2>7
  <1> QED BY <1>1, <1>2

\* What a call of the reader has when a geometry is read.
WholeRead(c, d, S) ==
    /\ d \in Context /\ d.heap = 1
    /\ d.err = "none" => Shorter(c, d) /\ \E x \in S : d.g = x.cells

\* The tree of a point.
LEMMA PointTree ==
    ASSUME NEW e \in Context, NEW d \in Context, Headed(e, "POINT"), Headed(d, "POINT"), Len(e.g) = 2, NEW k \in Nat,
           \A n \in 2 .. 4 : Fits(d, n) => \E x \in Els(0, n, k) : Grown(e, d, x.cells, 2)
    PROVE  \E y \in Trees[k + 1] : d.g = y.cells
  <1>0. "POINT" \in TypeNames
    BY DEF TypeNames
  <1>2. PICK h \in Heads : h.type = "POINT" /\ d.g[2] = TypeCell(TypeCode("POINT"), h.z, h.m) /\ Fits(d, Dims(h))
    BY <1>0, SettledHead
  <1>3. Dims(h) \in 2 .. 4 /\ Dims(h) \in Nat
    BY HeadDims
  <1> DEFINE n == Dims(h)
  <1>4. n \in 2 .. 4 /\ Fits(d, n)
    BY <1>2, <1>3
  <1> HIDE DEF n
  <1>5. \E x \in Els(0, n, k) : Grown(e, d, x.cells, 2)
    BY <1>4
  <1>6. PICK x \in Els(0, n, k) : Grown(e, d, x.cells, 2)
    BY <1>5
  <1>7. x \in Coordinates(Dims(h))
    <2>1. Els(0, n, k) = Elements(0, n)
      BY DEF Els
    <2>2. Elements(0, n) = Coordinates(n)
      BY ElementsBelow
    <2> QED BY <2>1, <2>2, Zenon DEF n
  <1>8. h \in LeafHeads /\ x \in Bodies(h)
    BY <1>2, <1>7 DEF LeafHeads, Bodies
  <1>9. Shaped(x)
    BY <1>8, BodyShape
  <1>10. d.g = HeadCells(h) \o x.cells
    <2>1. x.cells \in Seq(Int)
      BY <1>9 DEF Shaped
    <2> QED BY <1>0, <1>2, <1>6, <2>1, WholeBuffer
  <1>11. Leaf(h, x) \in Trees[k + 1]
    BY <1>8, TreeCases
  <1>12. Leaf(h, x).cells = HeadCells(h) \o x.cells
    BY Zenon DEF Leaf, LeafPiece
  <1> QED BY <1>10, <1>11, <1>12, Zenon

\* A point.
LEMMA PointWhole ==
    ASSUME NEW c \in Context, c.g = <<LittleEndian>>, c.writtenCoord = FALSE, c.heap = 1, NEW k \in Nat,
           NEW d, d = geomDecodePoint(c)
    PROVE  WholeRead(c, d, Trees[k + 1])
  <1> DEFINE head == decodeHead(c)
             e == appendType(head, "POINT")
  <1>0. "POINT" \in TypeNames
    BY DEF TypeNames
  <1>1. d = IF head.err = "none" THEN PointBody(e) ELSE head
    BY Zenon DEF geomDecodePoint, Then
  <1>2. head \in Context /\ head.heap = 1
    BY HeadFields
  <1>3. CASE head.err # "none"
    <2>1. d = head
      BY <1>1, <1>3
    <2> HIDE DEF head
    <2> QED BY <1>2, <1>3, <2>1 DEF WholeRead
  <1>4. CASE head.err = "none"
    <2>1. Begins(c, e, "POINT")
      BY <1>0, <1>4, HeadBegins
    <2>2. d = PointBody(e)
      BY <1>1, <1>4
    <2> HIDE DEF e, head
    <2>3. /\ e \in Context /\ e.err = "none" /\ e.heap = 1 /\ e.writtenCoord = FALSE
          /\ Headed(e, "POINT") /\ Len(e.g) = 2 /\ Shorter(c, e)
      BY <2>1 DEF Begins
    <2>4. ElementRead(e, d, "POINT", 0, k)
      BY <2>2, <2>3, PointRead
    <2>5. d \in Context /\ d.heap = 1
      BY <2>3, <2>4 DEF ElementRead
    <2>6. CASE d.err = "none"
      <3>1. Headed(d, "POINT") /\ Shorter(e, d)
        BY <2>4, <2>6 DEF ElementRead
      <3>13. Shorter(c, d)
        BY <2>3, <2>5, <3>1, ShorterStill
      <3>14. \E y \in Trees[k + 1] : d.g = y.cells
        <4>1. \A n \in 2 .. 4 : Fits(d, n) => \E x \in Els(0, n, k) : Grown(e, d, x.cells, 2)
          BY <2>4, <2>6 DEF ElementRead
        <4> QED BY <2>3, <2>5, <3>1, <4>1, PointTree
      <3> QED BY <2>5, <3>13, <3>14 DEF WholeRead
    <2> QED BY <2>5, <2>6 DEF WholeRead
  <1> QED BY <1>3, <1>4

\* The tree of a geometry that is no point.
LEMMA SeriesTree ==
    ASSUME NEW e \in Context, NEW d \in Context, NEW type \in TypeNames \ {"POINT"}, Headed(e, type), Headed(d, type),
           Len(e.g) = 2, NEW k \in Nat,
           \A n \in 2 .. 4 : Fits(d, n) =>
               \E els \in Seq(Els(Level(type), n, k)) : Grown(e, d, <<Len(els)>> \o FlattenSeq(CellsOf(els)), 2)
    PROVE  \E y \in Trees[k + 1] : d.g = y.cells
  <1> DEFINE level == Level(type)
  <1>0. type \in TypeNames /\ type # "POINT"
    OBVIOUS
  <1>16. level \in -1 .. 2
    BY <1>0, Levels
  <1>17. \A n \in 2 .. 4 : Fits(d, n) =>
            \E els \in Seq(Els(level, n, k)) : Grown(e, d, <<Len(els)>> \o FlattenSeq(CellsOf(els)), 2)
    OBVIOUS
  <1> HIDE DEF level
  <1>2. PICK h \in Heads : h.type = type /\ d.g[2] = TypeCell(TypeCode(type), h.z, h.m) /\ Fits(d, Dims(h))
    BY <1>0, SettledHead
  <1>3. Dims(h) \in 2 .. 4 /\ Dims(h) \in Nat
    BY HeadDims
  <1> DEFINE n == Dims(h)
             S == Els(level, n, k)
  <1>4. n \in 2 .. 4 /\ Fits(d, n) /\ n \in Nat
    BY <1>2, <1>3
  <1> HIDE DEF n
  <1>5. \E els \in Seq(S) : Grown(e, d, <<Len(els)>> \o FlattenSeq(CellsOf(els)), 2)
    BY <1>4, <1>17
  <1>6. PICK els \in Seq(S) : Grown(e, d, <<Len(els)>> \o FlattenSeq(CellsOf(els)), 2)
    BY <1>5
  <1> DEFINE cells == <<Len(els)>> \o FlattenSeq(CellsOf(els))
  <1>7. \A x \in S : Shaped(x)
    <2>1. level \in -1 .. 3
      BY <1>16
    <2> QED BY <2>1, <1>4, ElsShape
  <1>8. cells \in Seq(Int)
    <2>1. els \in Seq(S)
      OBVIOUS
    <2> HIDE DEF S
    <2>2. Len(els) \in Nat /\ FlattenSeq(CellsOf(els)) \in Seq(Int)
      BY <1>7, <2>1, SeriesParts
    <2>3. Len(els) \in Int
      BY <2>2
    <2> QED BY <2>2, <2>3, Counted
  <1>9. d.g = HeadCells(h) \o cells
    <2>1. Grown(e, d, cells, 2)
      BY <1>6
    <2> HIDE DEF cells
    <2> QED BY <1>0, <1>2, <1>8, <2>1, WholeBuffer
  <1>10. SeriesPiece(els).cells = cells
    BY Zenon DEF SeriesPiece
  <1> HIDE DEF cells
  <1>11. ASSUME type = "GEOMETRYCOLLECTION" PROVE \E y \in Trees[k + 1] : d.g = y.cells
    <2>1. S = Trees[k]
      BY <1>11, Levels, Zenon DEF Els, level
    <2>2. h \in CollectionHeads
      BY <1>2, <1>11 DEF CollectionHeads
    <2>3. els \in Seq(Trees[k])
      BY <2>1, <1>6, Zenon
    <2>4. Collection(h, els) \in Trees[k + 1]
      BY <2>2, <2>3, TreeCases
    <2>5. Collection(h, els).cells = HeadCells(h) \o SeriesPiece(els).cells
      BY Zenon DEF Collection
    <2> QED BY <1>9, <1>10, <2>4, <2>5, Zenon
  <1>12. ASSUME type # "GEOMETRYCOLLECTION" PROVE \E y \in Trees[k + 1] : d.g = y.cells
    <2>1. level \in 0 .. 2
      BY <1>0, <1>12, Levels DEF level
    <2>2. S = Elements(level, n)
      BY <2>1 DEF Els
    <2>3. Elements(level + 1, n) = SeriesOf(Elements(level, n))
      BY <2>1, ElementsBelow
    <2>4. SeriesPiece(els) \in Elements(level + 1, n)
      BY <1>6, <2>2, <2>3, Zenon DEF SeriesOf
    <2>5. h \in LeafHeads
      BY <1>2, <1>12 DEF LeafHeads
    <2>6. SeriesPiece(els) \in Bodies(h)
      <3>1. h.type # "POINT" /\ h.type = type
        BY <1>0, <1>2
      <3> QED BY <2>4, <3>1, Zenon DEF Bodies, level, n
    <2> DEFINE body == SeriesPiece(els)
    <2>7. body \in Bodies(h) /\ body.cells = cells
      BY <1>10, <2>6
    <2> HIDE DEF body
    <2>8. Leaf(h, body) \in Trees[k + 1]
      BY <2>5, <2>7, TreeCases
    <2>9. Leaf(h, body).cells = HeadCells(h) \o body.cells
      BY Zenon DEF Leaf, LeafPiece
    <2> QED BY <1>9, <2>7, <2>8, <2>9, Zenon
  <1> QED BY <1>11, <1>12

\* A geometry that is no point.
LEMMA SeriesWhole ==
    ASSUME NEW c \in Context, c.g = <<LittleEndian>>, c.writtenCoord = FALSE, c.heap = 1, NEW k \in Nat,
           NEW type \in TypeNames \ {"POINT"}, NEW series, SoundSeries(series, k),
           NEW d, d = geomDecodeSeries(series, c, type)
    PROVE  WholeRead(c, d, Trees[k + 1])
  <1> DEFINE head == decodeHead(c)
             e == appendType(head, type)
             level == Level(type)
  <1>0. type \in TypeNames /\ type # "POINT"
    OBVIOUS
  <1>1. d = IF head.err = "none" THEN decodeSeriesSegment(series, e, level) ELSE head
    BY Zenon DEF geomDecodeSeries, Then
  <1>2. head \in Context /\ head.heap = 1
    BY HeadFields
  <1>3. CASE head.err # "none"
    <2>1. d = head
      BY <1>1, <1>3
    <2> HIDE DEF head
    <2> QED BY <1>2, <1>3, <2>1 DEF WholeRead
  <1>4. CASE head.err = "none"
    <2>1. Begins(c, e, type)
      BY <1>0, <1>4, HeadBegins
    <2>2. d = decodeSeriesSegment(series, e, level)
      BY <1>1, <1>4
    <2>21. level \in -1 .. 2
      BY <1>0, Levels
    <2> HIDE DEF e, head, level
    <2>3. /\ e \in Context /\ e.err = "none" /\ e.heap = 1 /\ e.writtenCoord = FALSE
          /\ Headed(e, type) /\ Len(e.g) = 2 /\ Shorter(c, e)
      BY <2>1 DEF Begins
    <2>4. SegmentRead(e, d, type, level, k)
      BY <1>0, <2>2, <2>21, <2>3, SegmentOf
    <2>5. d \in Context /\ d.heap = 1
      BY <2>3, <2>4 DEF SegmentRead
    <2>6. CASE d.err = "none"
      <3>1. Headed(d, type) /\ Shorter(e, d)
        BY <2>4, <2>6 DEF SegmentRead
      <3>13. Shorter(c, d)
        BY <2>3, <2>5, <3>1, ShorterStill
      <3>14. \E y \in Trees[k + 1] : d.g = y.cells
        <4>1. \A n \in 2 .. 4 : Fits(d, n) =>
                 \E els \in Seq(Els(level, n, k)) : Grown(e, d, <<Len(els)>> \o FlattenSeq(CellsOf(els)), 2)
          BY <2>4, <2>6 DEF SegmentRead
        <4> QED BY ZenonT(30), <1>0, <2>3, <2>5, <3>1, <4>1, SeriesTree DEF level
      <3> QED BY <2>5, <3>13, <3>14 DEF WholeRead
    <2> QED BY <2>5, <2>6 DEF WholeRead
  <1> QED BY <1>3, <1>4

\* The context of a call.
LEMMA NewContextFields ==
    ASSUME NEW words \in Seq(Tokens), NEW c, c = NewContext(words)
    PROVE  /\ c \in Context /\ c.g = <<LittleEndian>> /\ c.writtenCoord = FALSE /\ c.heap = 1
           /\ c.err = "none" /\ c.p = words
  <1>1. <<LittleEndian>> \in Seq(Int)
    BY DEF LittleEndian
  <1>2. 0 \in 0 .. 9 /\ 1 \in Int
    OBVIOUS
  <1> DEFINE g == <<LittleEndian>>
  <1>3. c = [p |-> words, err |-> "none", g |-> g, heap |-> 1,
             hasZ |-> FALSE, hasM |-> FALSE, isEmpty |-> FALSE,
             x |-> 0, y |-> 0, z |-> 0, m |-> 0, foundZ |-> FALSE, foundM |-> FALSE,
             writtenCoord |-> FALSE, mustZ |-> FALSE, mustM |-> FALSE]
    BY Zenon DEF NewContext
  <1>4. g \in Seq(Int)
    BY <1>1
  <1> HIDE DEF g
  <1>5. c \in Context
    BY <1>2, <1>3, <1>4 DEF Context
  <1>6. c.g = g /\ c.writtenCoord = FALSE /\ c.heap = 1 /\ c.err = "none" /\ c.p = words
    BY <1>3
  <1> QED BY <1>5, <1>6 DEF g

\* A geometry of any type.
LEMMA GeometryWhole ==
    ASSUME NEW c \in Context, c.g = <<LittleEndian>>, c.writtenCoord = FALSE, c.heap = 1, NEW k \in Nat,
           NEW series, SoundSeries(series, k), NEW d, d = geomDecodeGeometry(series, c)
    PROVE  WholeRead(c, d, Trees[k + 1])
  <1> DEFINE b == Skip(c, 1)
             name == Ahead(c, 1)
  <1>1. b \in Context /\ SameBuffer(c, b) /\ Shorter(c, b)
    BY Skipped
  <1>2. b.g = <<LittleEndian>> /\ b.writtenCoord = FALSE /\ b.heap = 1
    BY <1>1 DEF SameBuffer
  <1>3. \/ d = geomDecodePoint(b)
        \/ name \in TypeNames \ {"POINT"} /\ d = geomDecodeSeries(series, b, name)
        \/ d = Failed(c)
    <2>1. Range(GeomTypes) = TypeNames
      BY TypeCodes
    <2> QED BY <2>1 DEF geomDecodeGeometry
  <1>4. CASE d = Failed(c)
    <2>1. d \in Context /\ d.err = "input" /\ d.heap = 1
      BY <1>4, FailedFields
    <2> QED BY <2>1 DEF WholeRead
  <1> HIDE DEF b, name
  <1>5. WholeRead(b, d, Trees[k + 1]) => WholeRead(c, d, Trees[k + 1])
    <2> SUFFICES ASSUME WholeRead(b, d, Trees[k + 1]) PROVE WholeRead(c, d, Trees[k + 1])
      OBVIOUS
    <2>1. d \in Context /\ d.heap = 1
      BY DEF WholeRead
    <2>2. ASSUME d.err = "none"
          PROVE  Shorter(c, d) /\ \E x \in Trees[k + 1] : d.g = x.cells
      <3>1. Shorter(b, d) /\ \E x \in Trees[k + 1] : d.g = x.cells
        BY <2>2 DEF WholeRead
      <3> QED BY <1>1, <2>1, <3>1, ShorterStill
    <2> QED BY <2>1, <2>2 DEF WholeRead
  <1>6. CASE d = geomDecodePoint(b)
    <2>1. WholeRead(b, d, Trees[k + 1])
      BY <1>1, <1>2, <1>6, PointWhole
    <2> QED BY <1>5, <2>1
  <1>7. CASE name \in TypeNames \ {"POINT"} /\ d = geomDecodeSeries(series, b, name)
    <2>1. WholeRead(b, d, Trees[k + 1])
      BY <1>1, <1>2, <1>7, SeriesWhole
    <2> QED BY <1>5, <2>1
  <1> QED BY <1>3, <1>4, <1>6, <1>7

\* What a call returns is a geometry in a buffer of its own, or nothing.
LEMMA InnerSound ==
    ASSUME NEW words \in Seq(Tokens), NEW k \in Nat, NEW series, SoundSeries(series, k), NEW leaveOpen \in BOOLEAN
    PROVE  Sound(geomDecodeWKTInner(series, words, leaveOpen), Trees[k + 1])
  <1> DEFINE o == geomDecodeWKTInner(series, words, leaveOpen)
             c == NewContext(words)
             d == geomDecodeGeometry(series, c)
  <1>1. CASE words = <<>>
    <2>1. o = Outcome("input", <<>>, 0, 0)
      BY <1>1 DEF geomDecodeWKTInner
    <2>2. o.err = "input" /\ o.heap = 0
      BY <2>1 DEF Outcome
    <2> HIDE DEF o
    <2>3. Sound(o, Trees[k + 1])
      BY <2>2 DEF Sound
    <2> QED BY <2>3 DEF o
  <1>2. CASE words # <<>>
    <2>1. o = Returned(d, words, leaveOpen)
      BY <1>2, Zenon DEF geomDecodeWKTInner
    <2>2. /\ c \in Context /\ c.g = <<LittleEndian>> /\ c.writtenCoord = FALSE /\ c.heap = 1 /\ c.p = words
      BY NewContextFields
    <2> HIDE DEF c
    <2>3. WholeRead(c, d, Trees[k + 1])
      BY <2>2, GeometryWhole
    <2> HIDE DEF d
    <2>4. d \in Context /\ d.heap = 1 /\ d.err \in {"none", "input"} /\ d.p \in Seq(Tokens)
      BY <2>3, ContextFields DEF WholeRead
    <2>5. \/ d.err # "none" /\ o = Outcome(d.err, <<>>, 0, d.heap - 1)
          \/ d.err = "none" /\ o = Outcome("input", <<>>, 0, d.heap - 1)
          \/ d.err = "none" /\ o = Outcome("none", d.g, Len(words) - Len(d.p), d.heap)
      <3>1. o = Returned(d, words, leaveOpen)
        BY <2>1
      <3> HIDE DEF o
      <3> QED BY <3>1, Zenon DEF Returned
    <2> HIDE DEF o
    <2>6. d.heap - 1 = 0
      BY <2>4
    <2>7. ASSUME o.err # "none" PROVE Sound(o, Trees[k + 1])
      <3>1. o = Outcome("input", <<>>, 0, 0)
        <4>1. o # Outcome("none", d.g, Len(words) - Len(d.p), d.heap)
          <5>1. \A g, n, h : Outcome("none", g, n, h).err = "none"
            BY Zenon DEF Outcome
          <5> QED BY <2>7, <5>1
        <4>2. d.err # "none" => d.err = "input"
          BY <2>4
        <4> QED BY <2>5, <2>6, <4>1, <4>2
      <3>2. o.err = "input" /\ o.heap = 0
        BY <3>1 DEF Outcome
      <3> QED BY <3>2 DEF Sound
    <2>8. ASSUME o.err = "none" PROVE Sound(o, Trees[k + 1])
      <3>1. d.err = "none" /\ o = Outcome("none", d.g, Len(words) - Len(d.p), d.heap)
        <4>1. \A g, n, h : Outcome("input", g, n, h).err # "none" /\ \A err : Outcome(err, g, n, h).err = err
          BY Zenon DEF Outcome
        <4> QED BY <2>5, <2>8, <4>1
      <3>2. o.err = "none" /\ o.g = d.g /\ o.read = Len(words) - Len(d.p) /\ o.heap = d.heap
        BY <3>1, Zenon DEF Outcome
      <3>3. Shorter(c, d) /\ \E x \in Trees[k + 1] : d.g = x.cells
        BY <2>3, <3>1 DEF WholeRead
      <3>4. Len(d.p) \in Nat /\ Len(words) \in Nat /\ Len(d.p) <= Len(words)
        BY <2>2, <2>4, <3>3 DEF Shorter
      <3>5. o.read \in Nat
        <4> DEFINE a == Len(d.p)
                   b == Len(words)
        <4>1. a \in Nat /\ b \in Nat /\ a <= b /\ o.read = b - a
          BY <3>2, <3>4
        <4> HIDE DEF a, b
        <4> QED BY <4>1
      <3> QED BY <2>4, <3>2, <3>3, <3>5 DEF Sound
    <2> QED BY <2>7, <2>8 DEF o
  <1> QED BY <1>1, <1>2

-----------------------------------------------------------------------------
\* Readers of series append what there may be, however deep they call themselves.
LEMMA SeriesSound ==
    ASSUME NEW n \in Nat
    PROVE  SoundSeries(Series[n], n)
  <1> DEFINE S == {k \in Nat : SoundSeries(Series[k], k)}
  <1>1. 0 \in S
    <2>1. ASSUME NEW type \in TypeNames, NEW c \in Context, NEW level \in -1 .. 2, NEW szpos \in Nat, NEW sz \in Nat
          PROVE  SeriesRead(c, Series[0][<<c, level, szpos, sz>>], type, level, 0, szpos, sz)
      <3> DEFINE d == Series[0][<<c, level, szpos, sz>>]
      <3>1. d = Failed(c)
        BY SeriesCalls
      <3> HIDE DEF d
      <3>2. d \in Context /\ d.err = "input" /\ d.heap = c.heap
        BY <3>1, FailedFields
      <3>3. SeriesRead(c, d, type, level, 0, szpos, sz)
        BY <3>2 DEF SeriesRead
      <3> QED BY <3>3 DEF d
    <2>2. SoundSeries(Series[0], 0)
      BY <2>1 DEF SoundSeries
    <2> QED BY <2>2
  <1>2. ASSUME NEW k \in Nat, k \in S PROVE k + 1 \in S
    <2>0. SoundSeries(Series[k], k) /\ k + 1 \in Nat
      BY <1>2
    <2>1. ASSUME NEW type \in TypeNames, NEW c \in Context, NEW level \in -1 .. 2, NEW szpos \in Nat, NEW sz \in Nat,
                 c.err = "none", Headed(c, type), szpos \in 3 .. Len(c.g)
          PROVE  SeriesRead(c, Series[k + 1][<<c, level, szpos, sz>>], type, level, k + 1, szpos, sz)
      <3>1. Series[k + 1][<<c, level, szpos, sz>>] = SeriesElements(Series[k], c, level, szpos, sz)
        BY SeriesCalls
      <3>2. c.p \in Seq(Tokens) /\ TRUE \in BOOLEAN
        BY ContextFields
      <3> DEFINE series == Series[k]
      <3>3. SoundSeries(series, k)
        BY <2>0
      <3> HIDE DEF series
      <3>4. Sound(geomDecodeWKTInner(series, c.p, TRUE), Trees[k + 1])
        BY <3>2, <3>3, InnerSound
      <3>5. SeriesRead(c, SeriesElements(series, c, level, szpos, sz), type, level, k + 1, szpos, sz)
        BY <2>1, <3>3, <3>4, SeriesStep
      <3> QED BY <3>1, <3>5, Zenon DEF series
    <2> DEFINE j == k + 1
    <2>2. ASSUME NEW type \in TypeNames, NEW c \in Context, NEW level \in -1 .. 2, NEW szpos \in Nat, NEW sz \in Nat,
                 c.err = "none", Headed(c, type), szpos \in 3 .. Len(c.g)
          PROVE  SeriesRead(c, Series[j][<<c, level, szpos, sz>>], type, level, j, szpos, sz)
      BY <2>1, <2>2
    <2> HIDE DEF j
    <2>3. SoundSeries(Series[j], j)
      BY <2>2, Zenon DEF SoundSeries
    <2> QED BY <2>0, <2>3 DEF j
  <1> HIDE DEF S
  <1>3. Nat \subseteq S
    BY <1>1, <1>2, NatSubset
  <1> QED BY <1>3 DEF S

\* The reader of WKT gives a geometry in a buffer of its own, or nothing.
LEMMA WktSound ==
    ASSUME NEW words \in Seq(Tokens)
    PROVE  Sound(geomDecodeWKT(words), Trees[Len(words) + 1])
  <1> DEFINE k == Len(words)
             series == Series[k]
  <1>1. k \in Nat /\ FALSE \in BOOLEAN
    OBVIOUS
  <1> HIDE DEF k
  <1>2. SoundSeries(series, k)
    BY <1>1, SeriesSound
  <1>3. geomDecodeWKT(words) = geomDecodeWKTInner(series, words, FALSE)
    BY Zenon DEF geomDecodeWKT, k
  <1> HIDE DEF series
  <1>4. Sound(geomDecodeWKTInner(series, words, FALSE), Trees[k + 1])
    BY <1>1, <1>2, InnerSound
  <1> QED BY <1>3, <1>4, Zenon DEF k

-----------------------------------------------------------------------------
(***************************************************************************)
(* The reader of GeoJSON.                                                  *)
(***************************************************************************)

\* JSON values by their depth.
LEMMA JsonLevels ==
    ASSUME NEW d \in Nat
    PROVE  Json[0] = JsonOver({}) /\ Json[d + 1] = JsonOver(Json[d])
  <1> DEFINE c == [of |-> "Json"]
             Body(k, below) == JsonOver(IF k = 0 THEN {} ELSE below)
             f == CHOOSE f : f = [k \in Nat |-> Body(k, f[k - 1])]
  <1>1. \A k, b : Turn(c, k, b) = Body(k, b)
    BY DEF Turn
  <1>2. \A a, b : Turn(c, 0, a) = Turn(c, 0, b)
    BY <1>1
  <1>3. PICK h : h = [k \in Nat |-> Turn(c, k, h[k - 1])]
    <2> HIDE DEF c
    <2> QED BY <1>2, Recursion
  <1>4. h = [k \in Nat |-> Body(k, h[k - 1])]
    <2> HIDE DEF c, Body
    <2>1. [k \in Nat |-> Turn(c, k, h[k - 1])] = [k \in Nat |-> Body(k, h[k - 1])]
      BY <1>1
    <2> QED BY <1>3, <2>1, Zenon
  <1>5. f = [k \in Nat |-> Body(k, f[k - 1])]
    BY <1>4, Zenon
  <1>6. Json = f
    BY Zenon DEF Json, JsonOver
  <1> HIDE DEF f
  <1>7. \A k \in Nat : f[k] = Body(k, f[k - 1])
    <2> HIDE DEF Body
    <2> QED BY <1>5, Zenon
  <1>8. f[0] = JsonOver({})
    <2>1. f[0] = Body(0, f[0 - 1])
      <3> HIDE DEF Body
      <3> QED BY <1>7, Zenon
    <2> QED BY <2>1
  <1>9. f[d + 1] = JsonOver(f[d])
    <2>1. d + 1 \in Nat /\ d + 1 # 0 /\ (d + 1) - 1 = d
      OBVIOUS
    <2>2. f[d + 1] = Body(d + 1, f[d])
      <3> HIDE DEF Body
      <3> QED BY <2>1, <1>7, Zenon
    <2> QED BY <2>1, <2>2
  <1> QED BY <1>6, <1>8, <1>9, Zenon

\* The reader of values by their depth.
LEMMA DecodeLevels ==
    ASSUME NEW d \in Nat
    PROVE  /\ \A v \in Json[0] : jsonDecodeAny[0][v] = NoGeometry
           /\ \A v \in Json[d + 1] :
                 /\ v.kind # "object" => jsonDecodeAny[d + 1][v] = NoGeometry
                 /\ v.kind = "object" => jsonDecodeAny[d + 1][v] = DecodeObject(jsonDecodeAny[d], v)
  <1> DEFINE c == [of |-> "Decode"]
             Point(k, below, v) == IF v.kind # "object" \/ k = 0 THEN NoGeometry ELSE DecodeObject(below, v)
             Body(k, below) == [v \in Json[k] |-> Point(k, below, v)]
             f == CHOOSE f : f = [k \in Nat |-> Body(k, f[k - 1])]
  <1>1. \A k, b : Turn(c, k, b) = Body(k, b)
    BY DEF Turn
  <1>2. \A a, b : Turn(c, 0, a) = Turn(c, 0, b)
    <2>1. \A a, b, v : Point(0, a, v) = Point(0, b, v)
      OBVIOUS
    <2>2. \A a, b : Body(0, a) = Body(0, b)
      <3> HIDE DEF Point
      <3> QED BY <2>1
    <2> HIDE DEF c, Body
    <2> QED BY <1>1, <2>2, Zenon
  <1>3. PICK h : h = [k \in Nat |-> Turn(c, k, h[k - 1])]
    <2> HIDE DEF c
    <2> QED BY <1>2, Recursion
  <1>4. h = [k \in Nat |-> Body(k, h[k - 1])]
    <2> HIDE DEF c, Body
    <2>1. [k \in Nat |-> Turn(c, k, h[k - 1])] = [k \in Nat |-> Body(k, h[k - 1])]
      BY <1>1
    <2> QED BY <1>3, <2>1, Zenon
  <1>5. f = [k \in Nat |-> Body(k, f[k - 1])]
    BY <1>4, Zenon
  <1>6. jsonDecodeAny = f
    BY Zenon DEF jsonDecodeAny
  <1> HIDE DEF f
  <1>7. \A k \in Nat : f[k] = Body(k, f[k - 1])
    <2> HIDE DEF Body
    <2> QED BY <1>5, Zenon
  <1>8. \A v \in Json[0] : f[0][v] = NoGeometry
    <2>1. f[0] = Body(0, f[0 - 1])
      <3> HIDE DEF Body
      <3> QED BY <1>7, Zenon
    <2> QED BY <2>1
  <1>9. ASSUME NEW v \in Json[d + 1]
        PROVE  /\ v.kind # "object" => f[d + 1][v] = NoGeometry
               /\ v.kind = "object" => f[d + 1][v] = DecodeObject(f[d], v)
    <2>1. d + 1 \in Nat /\ d + 1 # 0 /\ (d + 1) - 1 = d
      OBVIOUS
    <2>2. f[d + 1] = Body(d + 1, f[d])
      <3> HIDE DEF Body
      <3> QED BY <2>1, <1>7, Zenon
    <2>3. v.kind # "object" => (v.kind # "object" \/ d + 1 = 0)
      OBVIOUS
    <2>4. v.kind = "object" => ~(v.kind # "object" \/ d + 1 = 0)
      BY <2>1
    <2>5. f[d + 1][v] = IF v.kind # "object" \/ d + 1 = 0 THEN NoGeometry ELSE DecodeObject(f[d], v)
      BY <2>2
    <2> QED BY <2>3, <2>4, <2>5
  <1> QED BY <1>6, <1>8, <1>9, Zenon

\* The loop over the items of an array: the count, and what each item adds.
ItemsRun(w, level, decode, json, v) ==
    \E f : /\ f[0] = WriteCells(w, <<Len(json.items)>>)
           /\ \A k \in 1 .. Len(json.items) : f[k] = WriteNext(level, decode, f[k - 1], json.items[k])
           /\ v = f[Len(json.items)]

\* An array of positions.
LEMMA CoordRun ==
    ASSUME NEW w, NEW decode, NEW json, json.kind = "array", Len(json.items) \in Nat
    PROVE  ItemsRun(w, 0, decode, json, WriteMulti1(w, json))
  <1> DEFINE n == Len(json.items)
  <1>0. n \in Nat
    OBVIOUS
  <1> DEFINE c == [of |-> "WriteItems", start |-> WriteCells(w, <<Len(json.items)>>), level |-> 0, decode |-> decode,
                   items |-> json.items]
             Body(k, below) == IF k = 0 THEN WriteCells(w, <<Len(json.items)>>)
                 ELSE IF below.ok THEN WriteCoord(below, json.items[k]) ELSE below
             f == CHOOSE f : f = [k \in 0 .. n |-> Body(k, f[k - 1])]
  <1>1. \A k, b : Turn(c, k, b) = Body(k, b)
    <2>1. \A k, b : Turn(c, k, b) = IF k = 0 THEN WriteCells(w, <<Len(json.items)>>)
                                   ELSE WriteNext(0, decode, b, json.items[k])
      BY DEF Turn
    <2>2. \A k, b : WriteNext(0, decode, b, json.items[k]) =
                       IF b.ok THEN WriteCoord(b, json.items[k]) ELSE b
      BY DEF WriteNext
    <2> HIDE DEF c
    <2>3. \A k, b : Body(k, b) = IF k = 0 THEN WriteCells(w, <<Len(json.items)>>)
                              ELSE IF b.ok THEN WriteCoord(b, json.items[k]) ELSE b
      OBVIOUS
    <2> HIDE DEF Body
    <2> SUFFICES ASSUME NEW k, NEW b PROVE Turn(c, k, b) = Body(k, b)
      OBVIOUS
    <2>4. WriteNext(0, decode, b, json.items[k]) = IF b.ok THEN WriteCoord(b, json.items[k]) ELSE b
      BY <2>2
    <2> QED BY <2>1, <2>3, <2>4, Zenon
  <1>2. \A a, b : Turn(c, 0, a) = Turn(c, 0, b)
    BY <1>1
  <1>3. PICK h : h = [k \in 0 .. n |-> Turn(c, k, h[k - 1])]
    <2> HIDE DEF c, n
    <2> QED BY <1>2, <1>0, Loop
  <1>4. h = [k \in 0 .. n |-> Body(k, h[k - 1])]
    <2> HIDE DEF c, Body
    <2>1. [k \in 0 .. n |-> Turn(c, k, h[k - 1])] = [k \in 0 .. n |-> Body(k, h[k - 1])]
      BY <1>1
    <2> QED BY <1>3, <2>1, Zenon
  <1>5. f = [k \in 0 .. n |-> Body(k, f[k - 1])]
    BY <1>4, Zenon
  <1>6. WriteMulti1(w, json) = f[n]
    BY Zenon DEF WriteMulti1, WriteItems, IsArray
  <1> HIDE DEF f
  <1>7. \A k \in 0 .. n : f[k] = Body(k, f[k - 1])
    <2> HIDE DEF Body
    <2> QED BY <1>5, Zenon
  <1>8. \A k, b : k # 0 => Body(k, b) = WriteNext(0, decode, b, json.items[k])
    BY DEF WriteNext
  <1>9. ASSUME NEW k \in 1 .. n
        PROVE  f[k] = WriteNext(0, decode, f[k - 1], json.items[k])
    <2>1. k \in 0 .. n /\ k # 0
      OBVIOUS
    <2> HIDE DEF Body
    <2> QED BY <2>1, <1>7, <1>8, Zenon
  <1>10. f[0] = WriteCells(w, <<Len(json.items)>>)
    <2>1. f[0] = Body(0, f[0 - 1])
      <3> HIDE DEF Body
      <3>1. 0 \in 0 .. n
        BY <1>0
      <3> QED BY <3>1, <1>7, Zenon
    <2> QED BY <2>1
  <1> QED BY <1>6, <1>9, <1>10, Zenon DEF ItemsRun

\* An array of arrays of positions.
LEMMA Multi1Run ==
    ASSUME NEW w, NEW decode, NEW json, json.kind = "array", Len(json.items) \in Nat
    PROVE  ItemsRun(w, 1, decode, json, WriteMulti2(w, json))
  <1> DEFINE n == Len(json.items)
  <1>0. n \in Nat
    OBVIOUS
  <1> DEFINE c == [of |-> "WriteItems", start |-> WriteCells(w, <<Len(json.items)>>), level |-> 1, decode |-> decode,
                   items |-> json.items]
             Body(k, below) == IF k = 0 THEN WriteCells(w, <<Len(json.items)>>)
                 ELSE IF below.ok THEN WriteMulti1(below, json.items[k]) ELSE below
             f == CHOOSE f : f = [k \in 0 .. n |-> Body(k, f[k - 1])]
  <1>1. \A k, b : Turn(c, k, b) = Body(k, b)
    <2>1. \A k, b : Turn(c, k, b) = IF k = 0 THEN WriteCells(w, <<Len(json.items)>>)
                                   ELSE WriteNext(1, decode, b, json.items[k])
      BY DEF Turn
    <2>2. \A k, b : WriteNext(1, decode, b, json.items[k]) =
                       IF b.ok THEN WriteMulti1(b, json.items[k]) ELSE b
      BY DEF WriteNext
    <2> HIDE DEF c
    <2>3. \A k, b : Body(k, b) = IF k = 0 THEN WriteCells(w, <<Len(json.items)>>)
                              ELSE IF b.ok THEN WriteMulti1(b, json.items[k]) ELSE b
      OBVIOUS
    <2> HIDE DEF Body
    <2> SUFFICES ASSUME NEW k, NEW b PROVE Turn(c, k, b) = Body(k, b)
      OBVIOUS
    <2>4. WriteNext(1, decode, b, json.items[k]) = IF b.ok THEN WriteMulti1(b, json.items[k]) ELSE b
      BY <2>2
    <2> QED BY <2>1, <2>3, <2>4, Zenon
  <1>2. \A a, b : Turn(c, 0, a) = Turn(c, 0, b)
    BY <1>1
  <1>3. PICK h : h = [k \in 0 .. n |-> Turn(c, k, h[k - 1])]
    <2> HIDE DEF c, n
    <2> QED BY <1>2, <1>0, Loop
  <1>4. h = [k \in 0 .. n |-> Body(k, h[k - 1])]
    <2> HIDE DEF c, Body
    <2>1. [k \in 0 .. n |-> Turn(c, k, h[k - 1])] = [k \in 0 .. n |-> Body(k, h[k - 1])]
      BY <1>1
    <2> QED BY <1>3, <2>1, Zenon
  <1>5. f = [k \in 0 .. n |-> Body(k, f[k - 1])]
    BY <1>4, Zenon
  <1>6. WriteMulti2(w, json) = f[n]
    BY Zenon DEF WriteMulti2, WriteItems, IsArray
  <1> HIDE DEF f
  <1>7. \A k \in 0 .. n : f[k] = Body(k, f[k - 1])
    <2> HIDE DEF Body
    <2> QED BY <1>5, Zenon
  <1>8. \A k, b : k # 0 => Body(k, b) = WriteNext(1, decode, b, json.items[k])
    BY DEF WriteNext
  <1>9. ASSUME NEW k \in 1 .. n
        PROVE  f[k] = WriteNext(1, decode, f[k - 1], json.items[k])
    <2>1. k \in 0 .. n /\ k # 0
      OBVIOUS
    <2> HIDE DEF Body
    <2> QED BY <2>1, <1>7, <1>8, Zenon
  <1>10. f[0] = WriteCells(w, <<Len(json.items)>>)
    <2>1. f[0] = Body(0, f[0 - 1])
      <3> HIDE DEF Body
      <3>1. 0 \in 0 .. n
        BY <1>0
      <3> QED BY <3>1, <1>7, Zenon
    <2> QED BY <2>1
  <1> QED BY <1>6, <1>9, <1>10, Zenon DEF ItemsRun

\* An array of arrays of those.
LEMMA Multi2Run ==
    ASSUME NEW w, NEW decode, NEW json, json.kind = "array", Len(json.items) \in Nat
    PROVE  ItemsRun(w, 2, decode, json, WriteMulti3(w, json))
  <1> DEFINE n == Len(json.items)
  <1>0. n \in Nat
    OBVIOUS
  <1> DEFINE c == [of |-> "WriteItems", start |-> WriteCells(w, <<Len(json.items)>>), level |-> 2, decode |-> decode,
                   items |-> json.items]
             Body(k, below) == IF k = 0 THEN WriteCells(w, <<Len(json.items)>>)
                 ELSE IF below.ok THEN WriteMulti2(below, json.items[k]) ELSE below
             f == CHOOSE f : f = [k \in 0 .. n |-> Body(k, f[k - 1])]
  <1>1. \A k, b : Turn(c, k, b) = Body(k, b)
    <2>1. \A k, b : Turn(c, k, b) = IF k = 0 THEN WriteCells(w, <<Len(json.items)>>)
                                   ELSE WriteNext(2, decode, b, json.items[k])
      BY DEF Turn
    <2>2. \A k, b : WriteNext(2, decode, b, json.items[k]) =
                       IF b.ok THEN WriteMulti2(b, json.items[k]) ELSE b
      BY DEF WriteNext
    <2> HIDE DEF c
    <2>3. \A k, b : Body(k, b) = IF k = 0 THEN WriteCells(w, <<Len(json.items)>>)
                              ELSE IF b.ok THEN WriteMulti2(b, json.items[k]) ELSE b
      OBVIOUS
    <2> HIDE DEF Body
    <2> SUFFICES ASSUME NEW k, NEW b PROVE Turn(c, k, b) = Body(k, b)
      OBVIOUS
    <2>4. WriteNext(2, decode, b, json.items[k]) = IF b.ok THEN WriteMulti2(b, json.items[k]) ELSE b
      BY <2>2
    <2> QED BY <2>1, <2>3, <2>4, Zenon
  <1>2. \A a, b : Turn(c, 0, a) = Turn(c, 0, b)
    BY <1>1
  <1>3. PICK h : h = [k \in 0 .. n |-> Turn(c, k, h[k - 1])]
    <2> HIDE DEF c, n
    <2> QED BY <1>2, <1>0, Loop
  <1>4. h = [k \in 0 .. n |-> Body(k, h[k - 1])]
    <2> HIDE DEF c, Body
    <2>1. [k \in 0 .. n |-> Turn(c, k, h[k - 1])] = [k \in 0 .. n |-> Body(k, h[k - 1])]
      BY <1>1
    <2> QED BY <1>3, <2>1, Zenon
  <1>5. f = [k \in 0 .. n |-> Body(k, f[k - 1])]
    BY <1>4, Zenon
  <1>6. WriteMulti3(w, json) = f[n]
    BY Zenon DEF WriteMulti3, WriteItems, IsArray
  <1> HIDE DEF f
  <1>7. \A k \in 0 .. n : f[k] = Body(k, f[k - 1])
    <2> HIDE DEF Body
    <2> QED BY <1>5, Zenon
  <1>8. \A k, b : k # 0 => Body(k, b) = WriteNext(2, decode, b, json.items[k])
    BY DEF WriteNext
  <1>9. ASSUME NEW k \in 1 .. n
        PROVE  f[k] = WriteNext(2, decode, f[k - 1], json.items[k])
    <2>1. k \in 0 .. n /\ k # 0
      OBVIOUS
    <2> HIDE DEF Body
    <2> QED BY <2>1, <1>7, <1>8, Zenon
  <1>10. f[0] = WriteCells(w, <<Len(json.items)>>)
    <2>1. f[0] = Body(0, f[0 - 1])
      <3> HIDE DEF Body
      <3>1. 0 \in 0 .. n
        BY <1>0
      <3> QED BY <3>1, <1>7, Zenon
    <2> QED BY <2>1
  <1> QED BY <1>6, <1>9, <1>10, Zenon DEF ItemsRun

\* An array of geometries.
LEMMA GeometriesRun ==
    ASSUME NEW w, NEW decode, NEW json, json.kind = "array", Len(json.items) \in Nat
    PROVE  ItemsRun(w, -1, decode, json, WriteGeometries(decode, w, json))
  <1> DEFINE n == Len(json.items)
  <1>0. n \in Nat
    OBVIOUS
  <1> DEFINE c == [of |-> "WriteItems", start |-> WriteCells(w, <<Len(json.items)>>), level |-> -1, decode |-> decode,
                   items |-> json.items]
             Body(k, below) == IF k = 0 THEN WriteCells(w, <<Len(json.items)>>)
                 ELSE IF below.ok THEN TakeGeometry(below, decode[json.items[k]]) ELSE below
             f == CHOOSE f : f = [k \in 0 .. n |-> Body(k, f[k - 1])]
  <1>1. \A k, b : Turn(c, k, b) = Body(k, b)
    <2>1. \A k, b : Turn(c, k, b) = IF k = 0 THEN WriteCells(w, <<Len(json.items)>>)
                                   ELSE WriteNext(-1, decode, b, json.items[k])
      BY DEF Turn
    <2>2. \A k, b : WriteNext(-1, decode, b, json.items[k]) =
                       IF b.ok THEN TakeGeometry(b, decode[json.items[k]]) ELSE b
      BY DEF WriteNext
    <2> HIDE DEF c
    <2>3. \A k, b : Body(k, b) = IF k = 0 THEN WriteCells(w, <<Len(json.items)>>)
                              ELSE IF b.ok THEN TakeGeometry(b, decode[json.items[k]]) ELSE b
      OBVIOUS
    <2> HIDE DEF Body
    <2> SUFFICES ASSUME NEW k, NEW b PROVE Turn(c, k, b) = Body(k, b)
      OBVIOUS
    <2>4. WriteNext(-1, decode, b, json.items[k]) = IF b.ok THEN TakeGeometry(b, decode[json.items[k]]) ELSE b
      BY <2>2
    <2> QED BY <2>1, <2>3, <2>4, Zenon
  <1>2. \A a, b : Turn(c, 0, a) = Turn(c, 0, b)
    BY <1>1
  <1>3. PICK h : h = [k \in 0 .. n |-> Turn(c, k, h[k - 1])]
    <2> HIDE DEF c, n
    <2> QED BY <1>2, <1>0, Loop
  <1>4. h = [k \in 0 .. n |-> Body(k, h[k - 1])]
    <2> HIDE DEF c, Body
    <2>1. [k \in 0 .. n |-> Turn(c, k, h[k - 1])] = [k \in 0 .. n |-> Body(k, h[k - 1])]
      BY <1>1
    <2> QED BY <1>3, <2>1, Zenon
  <1>5. f = [k \in 0 .. n |-> Body(k, f[k - 1])]
    BY <1>4, Zenon
  <1>6. WriteGeometries(decode, w, json) = f[n]
    BY Zenon DEF WriteGeometries, WriteItems, IsArray
  <1> HIDE DEF f
  <1>7. \A k \in 0 .. n : f[k] = Body(k, f[k - 1])
    <2> HIDE DEF Body
    <2> QED BY <1>5, Zenon
  <1>8. \A k, b : k # 0 => Body(k, b) = WriteNext(-1, decode, b, json.items[k])
    BY DEF WriteNext
  <1>9. ASSUME NEW k \in 1 .. n
        PROVE  f[k] = WriteNext(-1, decode, f[k - 1], json.items[k])
    <2>1. k \in 0 .. n /\ k # 0
      OBVIOUS
    <2> HIDE DEF Body
    <2> QED BY <2>1, <1>7, <1>8, Zenon
  <1>10. f[0] = WriteCells(w, <<Len(json.items)>>)
    <2>1. f[0] = Body(0, f[0 - 1])
      <3> HIDE DEF Body
      <3>1. 0 \in 0 .. n
        BY <1>0
      <3> QED BY <3>1, <1>7, Zenon
    <2> QED BY <2>1
  <1> QED BY <1>6, <1>9, <1>10, Zenon DEF ItemsRun

\* The values in a value.
JsonBelow(d) == IF d = 0 THEN {} ELSE Json[d - 1]

\* The parts of a value.
LEMMA JsonParts ==
    ASSUME NEW d \in Nat, NEW v \in Json[d]
    PROVE  /\ v.kind = "number" => v.number \in Digit
           /\ v.kind = "string" => v.string \in Strings
           /\ v.kind = "array" => v.items \in Seq(JsonBelow(d))
           /\ v.kind = "object" => v.members \in Seq([name : Strings, value : JsonBelow(d)])
  <1>1. Json[d] = JsonOver(JsonBelow(d))
    <2>1. CASE d = 0
      BY <2>1, JsonLevels DEF JsonBelow
    <2>2. CASE d # 0
      <3>1. d - 1 \in Nat /\ (d - 1) + 1 = d
        BY <2>2
      <3> DEFINE e == d - 1
      <3>2. e \in Nat /\ e + 1 = d
        BY <3>1
      <3> HIDE DEF e
      <3>3. Json[e + 1] = JsonOver(Json[e])
        BY <3>2, JsonLevels
      <3> QED BY <2>2, <3>2, <3>3, Zenon DEF JsonBelow, e
    <2> QED BY <2>1, <2>2
  <1> DEFINE below == JsonBelow(d)
  <1>2. v \in JsonOver(below)
    BY <1>1
  <1> HIDE DEF below
  <1>3. \/ v = JsonNull
        \/ v \in [kind : {"number"}, number : 0 .. 9]
        \/ v \in [kind : {"string"}, string : Strings]
        \/ v \in [kind : {"array"}, items : Seq(below)]
        \/ v \in [kind : {"object"}, members : Seq([name : Strings, value : below])]
    BY <1>2, Zenon DEF JsonOver
  <1>4. CASE v = JsonNull
    <2>1. v.kind = "null"
      BY <1>4 DEF JsonNull
    <2> QED BY <2>1
  <1>5. CASE v \in [kind : {"number"}, number : 0 .. 9]
    <2>1. v.kind = "number" /\ v.number \in 0 .. 9
      BY <1>5
    <2> QED BY <2>1 DEF Digit
  <1>6. CASE v \in [kind : {"string"}, string : Strings]
    <2>1. v.kind = "string" /\ v.string \in Strings
      BY <1>6
    <2> QED BY <2>1
  <1>7. CASE v \in [kind : {"array"}, items : Seq(below)]
    <2>1. v.kind = "array" /\ v.items \in Seq(below)
      BY <1>7
    <2> QED BY <2>1 DEF below
  <1>8. CASE v \in [kind : {"object"}, members : Seq([name : Strings, value : below])]
    <2> DEFINE M == Seq([name : Strings, value : below])
    <2>2. v \in [kind : {"object"}, members : M]
      BY <1>8
    <2> HIDE DEF M
    <2>1. v.kind = "object" /\ v.members \in M
      BY <2>2
    <2> QED BY <2>1 DEF below, M
  <1> QED BY <1>3, <1>4, <1>5, <1>6, <1>7, <1>8

-----------------------------------------------------------------------------
(***************************************************************************)
(* A writer holds what a context of the reader of WKT does.                *)
(***************************************************************************)
Writer == [b : Seq(Int), rdims : {0, 2, 3, 4}, ok : BOOLEAN, heap : Int]

Held(w) ==
    [NewContext(<<>>) EXCEPT !.g = w.b, !.writtenCoord = (w.rdims # 0), !.mustZ = (w.rdims \in {3, 4}),
                             !.mustM = (w.rdims = 4)]

\* The fields of a writer.
LEMMA WriterFields ==
    ASSUME NEW w \in Writer
    PROVE  w.b \in Seq(Int) /\ w.rdims \in {0, 2, 3, 4} /\ w.ok \in BOOLEAN /\ w.heap \in Int
  BY DEF Writer

\* What a writer holds.
LEMMA HeldFields ==
    ASSUME NEW w \in Writer
    PROVE  /\ Held(w) \in Context /\ Held(w).g = w.b /\ Held(w).writtenCoord = (w.rdims # 0)
           /\ Held(w).mustZ = (w.rdims \in {3, 4}) /\ Held(w).mustM = (w.rdims = 4)
  <1> DEFINE c == NewContext(<<>>)
             h == Held(w)
             a == w.rdims # 0
             z == w.rdims \in {3, 4}
             m == w.rdims = 4
  <1>1. c \in Context
    <2>1. <<>> \in Seq(Tokens)
      OBVIOUS
    <2> QED BY <2>1, NewContextFields
  <1>2. h = [c EXCEPT !.g = w.b, !.writtenCoord = a, !.mustZ = z, !.mustM = m]
    BY Zenon DEF Held
  <1>3. w.b \in Seq(Int) /\ a \in BOOLEAN /\ z \in BOOLEAN /\ m \in BOOLEAN
    BY WriterFields
  <1> HIDE DEF c, h, a, z, m
  <1>4. h \in Context
    BY ZenonT(30), <1>1, <1>2, <1>3 DEF Context
  <1>5. h.g = w.b /\ h.writtenCoord = a /\ h.mustZ = z /\ h.mustM = m
    BY <1>1, <1>2 DEF Context
  <1> QED BY <1>4, <1>5 DEF h, a, z, m

Began(w, type) == Headed(Held(w), type) /\ (w.rdims = 0 => w.b[2] = TypeCode(type))

ItemWritten(w, v, type, level, k) ==
    /\ v \in Writer /\ v.heap = w.heap
    /\ v.ok => /\ Began(v, type)
               /\ \A n \in 2 .. 4 : Fits(Held(v), n) =>
                     Fits(Held(w), n) /\ \E x \in Els(level, n, k) : Grown(Held(w), Held(v), x.cells, 2)

\* A writer that has refused.
LEMMA RefusedFields ==
    ASSUME NEW w \in Writer
    PROVE  Refused(w) \in Writer /\ Refused(w).ok = FALSE /\ Refused(w).heap = w.heap
  BY DEF Refused, Writer

\* Cells are written to the end.
LEMMA CellsWritten ==
    ASSUME NEW w \in Writer, NEW cells \in Seq(Int)
    PROVE  /\ WriteCells(w, cells) \in Writer /\ WriteCells(w, cells).b = w.b \o cells
           /\ WriteCells(w, cells).rdims = w.rdims /\ WriteCells(w, cells).ok = w.ok
           /\ WriteCells(w, cells).heap = w.heap
  <1>1. w.b \o cells \in Seq(Int)
    BY WriterFields, ConcatProperties
  <1> DEFINE b == w.b \o cells
  <1>2. WriteCells(w, cells) = [w EXCEPT !.b = b]
    BY DEF WriteCells
  <1>3. b \in Seq(Int)
    BY <1>1
  <1> HIDE DEF b
  <1>4. /\ WriteCells(w, cells) \in Writer /\ WriteCells(w, cells).b = b
        /\ WriteCells(w, cells).rdims = w.rdims /\ WriteCells(w, cells).ok = w.ok
        /\ WriteCells(w, cells).heap = w.heap
    BY <1>2, <1>3 DEF Writer
  <1> QED BY <1>4 DEF b

\* The numbers of a position.
LEMMA PositionCells ==
    ASSUME NEW d \in Nat, NEW item \in Json[d], IsPosition(item)
    PROVE  /\ Len(item.items) \in 2 .. 4
           /\ jsonGetPosition(item) \in [1 .. Len(item.items) -> Digit]
           /\ jsonGetPosition(item) \in Seq(Int) /\ Len(jsonGetPosition(item)) = Len(item.items)
  <1> DEFINE s == item.items
             p == jsonGetPosition(item)
  <1>1. item.kind = "array" /\ Len(s) \in 2 .. 4 /\ \A i \in DOMAIN s : s[i].kind = "number"
    BY DEF IsPosition, IsArray
  <1>2. s \in Seq(JsonBelow(d))
    BY <1>1, JsonParts
  <1>3. DOMAIN s = 1 .. Len(s) /\ \A i \in 1 .. Len(s) : s[i] \in JsonBelow(d)
    BY <1>2
  <1>4. ASSUME NEW i \in 1 .. Len(s) PROVE s[i].number \in Digit
    <2>1. s[i] \in JsonBelow(d) /\ s[i].kind = "number"
      BY <1>1, <1>3
    <2>2. d # 0 /\ s[i] \in Json[d - 1]
      BY <2>1 DEF JsonBelow
    <2>3. d - 1 \in Nat
      BY <2>2
    <2> QED BY <2>1, <2>2, <2>3, JsonParts
  <1>5. p = [i \in 1 .. Len(s) |-> IF i <= 3 THEN s[i].number ELSE 0]
    BY <1>3, Zenon DEF jsonGetPosition
  <1>6. 0 \in Digit /\ \A x \in Digit : x \in Int
    BY DEF Digit
  <1> DEFINE n == Len(s)
             D == Digit
  <1>7. n \in 2 .. 4 /\ 0 \in D /\ (\A x \in D : x \in Int) /\ \A i \in 1 .. n : s[i].number \in D
    BY <1>1, <1>4, <1>6
  <1>8. p = [i \in 1 .. n |-> IF i <= 3 THEN s[i].number ELSE 0]
    BY <1>5
  <1> HIDE DEF n, D, s, p
  <1>9. p \in [1 .. n -> D]
    BY <1>7, <1>8
  <1>10. p \in Seq(Int) /\ Len(p) = n
    <2>1. n \in Nat /\ p \in [1 .. n -> Int]
      BY <1>7, <1>9
    <2> QED BY <2>1
  <1> QED BY <1>7, <1>9, <1>10 DEF n, D, s, p

\* A position is written.
LEMMA PositionWritten ==
    ASSUME NEW w \in Writer, w.ok, NEW type \in TypeNames, Began(w, type), NEW d \in Nat, NEW item \in Json[d], NEW k
    PROVE  ItemWritten(w, WriteCoord(w, item), type, 0, k)
  <1> DEFINE v == WriteCoord(w, item)
             n == Len(item.items)
             s == jsonGetPosition(item)
             first == w.rdims = 0
  <1>1. CASE v = Refused(w)
    <2>1. v \in Writer /\ v.ok = FALSE /\ v.heap = w.heap
      BY <1>1, RefusedFields
    <2> HIDE DEF v
    <2>2. ItemWritten(w, v, type, 0, k)
      BY <2>1 DEF ItemWritten
    <2> QED BY <2>2 DEF v
  <1>2. CASE IsPosition(item) /\ (~first => n = w.rdims)
    <2>1. v = [WriteCells(w, s) EXCEPT !.rdims = n, !.b[2] = IF first THEN @ + DimsOffset(n) ELSE @]
      BY <1>2, Zenon DEF WriteCoord
    <2>2. n \in 2 .. 4 /\ s \in [1 .. n -> Digit] /\ s \in Seq(Int) /\ Len(s) = n
      BY <1>2, PositionCells
    <2> HIDE DEF n, s, v
    <2> DEFINE q == WriteCells(w, s)
               cell == IF first THEN q.b[2] + DimsOffset(n) ELSE q.b[2]
               b == [q.b EXCEPT ![2] = cell]
               old == w.b
    <2>3. q \in Writer /\ q.b = old \o s /\ q.ok = w.ok /\ q.heap = w.heap
      BY <2>2, CellsWritten
    <2>4. Held(w) \in Context /\ Held(w).g = old
      BY HeldFields
    <2>5. old \in Seq(Int) /\ Len(old) \in Nat /\ Len(old) >= 2 /\ old[1] = LittleEndian
      <3>1. Headed(Held(w), type)
        BY DEF Began
      <3>2. old \in Seq(Int)
        BY WriterFields
      <3> QED BY <2>4, <3>1, <3>2 DEF Headed
    <2> HIDE DEF old
    <2> DEFINE u == q.b
    <2>6. /\ u \in Seq(Int) /\ Len(u) = Len(old) + Len(s) /\ (\A i \in 1 .. Len(old) : u[i] = old[i])
          /\ \A i \in 1 .. Len(s) : u[Len(old) + i] = s[i]
      <3>1. old \in Seq(Int) /\ s \in Seq(Int)
        BY <2>2, <2>5
      <3>2. u = old \o s
        BY <2>3
      <3> HIDE DEF u
      <3> QED BY ONLY <3>1, <3>2, ConcatProperties
    <2>7. v = [q EXCEPT !.rdims = n, !.b = b]
      <3> HIDE DEF q
      <3> QED BY <2>1, <2>3 DEF Writer, q
    <2> HIDE DEF q
    <2>8. cell = TypeCell(TypeCode(type), n \in {3, 4}, n = 4) /\ cell \in Int
      <3>1. u[2] = old[2]
        BY <2>5, <2>6
      <3>2. TypeCode(type) \in 1 .. 7
        BY TypeCodes
      <3>3. CASE first
        <4>1. old[2] = TypeCode(type)
          BY <3>3 DEF Began, old
        <4>2. cell = TypeCode(type) + DimsOffset(n)
          BY <3>1, <3>3, <4>1
        <4>3. n = 2 \/ n = 3 \/ n = 4
          BY <2>2
        <4> QED BY <3>2, <4>2, <4>3 DEF DimsOffset, TypeCell
      <3>4. CASE ~first
        <4>1. cell = old[2]
          BY <3>1, <3>4
        <4>2. n = w.rdims
          BY <1>2, <3>4
        <4>3. Held(w).writtenCoord /\ Held(w).mustZ = (n \in {3, 4}) /\ Held(w).mustM = (n = 4)
          BY <3>4, <4>2, HeldFields
        <4>4. Headed(Held(w), type)
          BY DEF Began
        <4>5. \E z \in BOOLEAN : \E m \in BOOLEAN :
                 /\ old[2] = TypeCell(TypeCode(type), z, m)
                 /\ Held(w).writtenCoord => z = Held(w).mustZ /\ m = Held(w).mustM
          BY <2>4, <4>4 DEF Headed
        <4>6. old[2] = TypeCell(TypeCode(type), n \in {3, 4}, n = 4)
          BY <4>3, <4>5
        <4>7. old[2] \in Int
          BY <2>5
        <4> QED BY <4>1, <4>6, <4>7
      <3> QED BY <3>3, <3>4
    <2> HIDE DEF cell
    <2>9. /\ b \in Seq(Int) /\ Len(b) = Len(old) + n /\ b[2] = cell
          /\ (\A i \in 1 .. Len(old) : i # 2 => b[i] = old[i])
          /\ \A i \in 1 .. n : b[Len(old) + i] = s[i]
      <3>1. b = [u EXCEPT ![2] = cell]
        OBVIOUS
      <3>2. u \in Seq(Int) /\ cell \in Int /\ Len(u) >= 2
        BY <2>2, <2>5, <2>6, <2>8
      <3> HIDE DEF u, b
      <3>3. b \in Seq(Int) /\ Len(b) = Len(u) /\ b[2] = cell /\ \A i \in 1 .. Len(u) : i # 2 => b[i] = u[i]
        BY ONLY <3>1, <3>2
      <3>4. Len(b) = Len(old) + n
        BY <2>2, <2>6, <3>3
      <3>5. \A i \in 1 .. Len(old) : i # 2 => b[i] = old[i]
        BY SMTT(30), <2>2, <2>5, <2>6, <3>3
      <3>6. ASSUME NEW i \in 1 .. n PROVE b[Len(old) + i] = s[i]
        <4> DEFINE l == Len(old)
        <4>1. l \in Nat /\ l >= 2 /\ i \in 1 .. n /\ Len(u) = l + n /\ n \in 2 .. 4
          BY <2>2, <2>5, <2>6
        <4> HIDE DEF l
        <4>2. l + i \in 1 .. Len(u) /\ l + i # 2
          BY <4>1
        <4>3. b[l + i] = u[l + i]
          BY <3>3, <4>2
        <4>4. u[Len(old) + i] = s[i]
          BY <2>2, <2>6
        <4> QED BY <4>3, <4>4 DEF l
      <3> QED BY <3>3, <3>4, <3>5, <3>6
    <2> HIDE DEF b
    <2>10. v \in Writer /\ v.b = b /\ v.rdims = n /\ v.heap = w.heap
      <3>1. n \in {0, 2, 3, 4}
        BY <2>2
      <3> QED BY <2>3, <2>7, <2>9, <3>1 DEF Writer
    <2>11. /\ Held(v) \in Context /\ Held(v).g = b /\ Held(v).writtenCoord = TRUE
           /\ Held(v).mustZ = (n \in {3, 4}) /\ Held(v).mustM = (n = 4)
      <3>1. n # 0
        BY <2>2
      <3> QED BY <2>10, <3>1, HeldFields
    <2>12. Began(v, type)
      <3>1. Len(b) >= 2 /\ b[1] = LittleEndian
        BY SMTT(30), <2>2, <2>5, <2>9
      <3>2. b[2] = TypeCell(TypeCode(type), Held(v).mustZ, Held(v).mustM)
        BY <2>8, <2>9, <2>11
      <3>3. Held(v).mustZ \in BOOLEAN /\ Held(v).mustM \in BOOLEAN
        BY <2>11
      <3>4. Headed(Held(v), type)
        BY <2>11, <3>1, <3>2, <3>3, Zenon DEF Headed
      <3>5. v.rdims # 0
        BY <2>2, <2>10
      <3> QED BY <3>4, <3>5 DEF Began
    <2>13. Grown(Held(w), Held(v), s, 2)
      <3>1. Stands(s, b, Len(old) + 1)
        <4>1. \A i \in 1 .. n : b[Len(old) + 1 + i - 1] = s[i]
          <5> SUFFICES ASSUME NEW i \in 1 .. n PROVE b[Len(old) + 1 + i - 1] = s[i]
            OBVIOUS
          <5>1. Len(old) + 1 + i - 1 = Len(old) + i
            BY <2>5
          <5> QED BY <2>9, <5>1
        <4> QED BY <2>2, <2>5, <2>9, <4>1 DEF Stands
      <3>2. Len(b) = Len(old) + Len(s) /\ \A i \in 1 .. Len(old) : i \notin {2, 2} => b[i] = old[i]
        BY <2>2, <2>9
      <3> QED BY <2>4, <2>11, <3>1, <3>2, Zenon DEF Grown
    <2>14. ASSUME NEW m \in 2 .. 4, Fits(Held(v), m)
           PROVE  Fits(Held(w), m) /\ \E x \in Els(0, m, k) : Grown(Held(w), Held(v), x.cells, 2)
      <3>1. m = n
        <4>1. m = NumbersOf(n \in {3, 4}, n = 4)
          BY <2>11, <2>14 DEF Fits
        <4>2. n = 2 \/ n = 3 \/ n = 4
          BY <2>2
        <4> QED BY <4>1, <4>2 DEF NumbersOf
      <3>2. Fits(Held(w), m)
        <4>1. CASE first
          BY <4>1, HeldFields DEF Fits
        <4>2. CASE ~first
          <5>1. Held(w).writtenCoord = TRUE /\ Held(w).mustZ = (n \in {3, 4}) /\ Held(w).mustM = (n = 4)
            BY <1>2, <4>2, HeldFields DEF n
          <5> QED BY <2>11, <2>14, <5>1 DEF Fits
        <4> QED BY <4>1, <4>2
      <3>3. CoordinatePiece(s) \in Coordinates(n) /\ CoordinatePiece(s).cells = s
        BY <2>2, Zenon DEF Coordinates, CoordinatePiece
      <3>4. Els(0, m, k) = Coordinates(m)
        BY ElementsBelow DEF Els
      <3> QED BY <2>13, <3>1, <3>2, <3>3, <3>4, Zenon
    <2>15. ItemWritten(w, v, type, 0, k)
      BY <2>10, <2>12, <2>14 DEF ItemWritten
    <2> QED BY <2>15 DEF v
  <1>3. v = Refused(w) \/ (IsPosition(item) /\ (~first => n = w.rdims))
    BY DEF WriteCoord
  <1> QED BY <1>1, <1>2, <1>3

\* The cells of elements and one more.
LEMMA CellsAdded ==
    ASSUME NEW S, \A x \in S : Shaped(x), NEW els \in Seq(S), NEW y \in S
    PROVE  /\ Append(els, y) \in Seq(S) /\ Len(Append(els, y)) = Len(els) + 1
           /\ FlattenSeq(CellsOf(Append(els, y))) = FlattenSeq(CellsOf(els)) \o y.cells
  <1> DEFINE all == Append(els, y)
             l == Len(els)
             b == CellsOf(els)
             c == CellsOf(all)
  <1>1. /\ all \in Seq(S) /\ l \in Nat /\ Len(all) = l + 1 /\ all[l + 1] = y
        /\ \A i \in 1 .. l : all[i] = els[i]
    OBVIOUS
  <1>2. b \in Seq(Seq(Int)) /\ Len(b) = l /\ \A i \in 1 .. l : b[i] = els[i].cells
    BY SeriesParts
  <1> HIDE DEF all
  <1>3. c \in Seq(Seq(Int)) /\ Len(c) = Len(all) /\ \A i \in 1 .. Len(all) : c[i] = all[i].cells
    BY <1>1, SeriesParts
  <1> HIDE DEF b, c, l
  <1>4. l + 1 \in 1 .. Len(all) /\ (l + 1) - 1 = l /\ \A i \in 1 .. l : i \in 1 .. Len(all)
    BY <1>1
  <1>5. c[l + 1] = y.cells /\ \A i \in 1 .. l : c[i] = b[i]
    BY <1>1, <1>2, <1>3, <1>4
  <1> DEFINE p == SubSeq(c, 1, l)
  <1>6. p = b
    <2>1. Len(c) = l + 1
      BY <1>1, <1>3
    <2>2. p \in Seq(Seq(Int)) /\ Len(p) = l /\ \A i \in 1 .. l : p[i] = c[i]
      <3> DEFINE U == Seq(Int)
      <3>1. c \in Seq(U)
        BY <1>3
      <3> HIDE DEF U
      <3>2. p \in Seq(U) /\ Len(p) = l /\ \A i \in 1 .. l : p[i] = c[i]
        BY <1>1, <2>1, <3>1
      <3> QED BY <3>2 DEF U
    <2> HIDE DEF p
    <2>3. \A i \in 1 .. Len(p) : p[i] = b[i]
      BY <1>5, <2>2
    <2> QED BY <1>2, <2>2, <2>3, SeqEqual
  <1> HIDE DEF p
  <1>7. FlattenSeq(c) = FlattenSeq(b) \o y.cells
    <2>1. Len(c) = l + 1 /\ l + 1 \in 1 .. Len(c)
      BY <1>1, <1>3
    <2>2. /\ FlattenSeq(SubSeq(c, 1, Len(c))) = FlattenSeq(c)
          /\ \A n \in 1 .. Len(c) : FlattenSeq(SubSeq(c, 1, n)) = FlattenSeq(SubSeq(c, 1, n - 1)) \o c[n]
      BY <1>3, FlattenSteps
    <2>3. FlattenSeq(SubSeq(c, 1, l + 1)) = FlattenSeq(SubSeq(c, 1, (l + 1) - 1)) \o c[l + 1]
      BY <2>1, <2>2, Zenon
    <2>4. SubSeq(c, 1, (l + 1) - 1) = b
      BY <1>4, <1>6 DEF p
    <2> QED BY <1>5, <2>1, <2>2, <2>3, <2>4
  <1> QED BY <1>1, <1>7 DEF all, b, c, l

-----------------------------------------------------------------------------
ArrayWritten(w, v, type, level, k) ==
    /\ v \in Writer /\ v.heap = w.heap
    /\ v.ok => /\ Began(v, type)
               /\ \A n \in 2 .. 4 : Fits(Held(v), n) =>
                     /\ Fits(Held(w), n)
                     /\ \E els \in Seq(Els(level, n, k)) :
                           Grown(Held(w), Held(v), <<Len(els)>> \o FlattenSeq(CellsOf(els)), 2)

\* The loop when some items have been written, and the count of all of them.
RunUpTo(w, u, type, level, k, count, i) ==
    /\ u \in Writer /\ u.heap = w.heap
    /\ u.ok => /\ Began(u, type)
               /\ \A n \in 2 .. 4 : Fits(Held(u), n) =>
                     /\ Fits(Held(w), n)
                     /\ \E els \in Seq(Els(level, n, k)) :
                           Len(els) = i /\ Grown(Held(w), Held(u), <<count>> \o FlattenSeq(CellsOf(els)), 2)

SoundItems(level, decode, items, type, k) ==
    \A u \in Writer : \A i \in 1 .. Len(items) :
        u.ok /\ Began(u, type) => ItemWritten(u, WriteNext(level, decode, u, items[i]), type, level, k)

\* One item more.
LEMMA RunStep ==
    ASSUME NEW w \in Writer, NEW u \in Writer, NEW type \in TypeNames, NEW level \in -1 .. 2, NEW k \in Nat,
           NEW count \in Nat, NEW i \in Nat, Began(w, type), u.ok, RunUpTo(w, u, type, level, k, count, i),
           NEW v, ItemWritten(u, v, type, level, k)
    PROVE  RunUpTo(w, v, type, level, k, count, i + 1)
  <1>1. v \in Writer /\ v.heap = w.heap
    BY DEF RunUpTo, ItemWritten
  <1>2. ASSUME v.ok
        PROVE  Began(v, type)
    BY <1>2 DEF ItemWritten
  <1>3. ASSUME v.ok, NEW n \in 2 .. 4, Fits(Held(v), n)
        PROVE  /\ Fits(Held(w), n)
               /\ \E els \in Seq(Els(level, n, k)) :
                     Len(els) = i + 1 /\ Grown(Held(w), Held(v), <<count>> \o FlattenSeq(CellsOf(els)), 2)
    <2> DEFINE S == Els(level, n, k)
    <2>1. Fits(Held(u), n) /\ \E x \in S : Grown(Held(u), Held(v), x.cells, 2)
      BY <1>3 DEF ItemWritten
    <2>2. /\ Fits(Held(w), n)
          /\ \E els \in Seq(S) : Len(els) = i /\ Grown(Held(w), Held(u), <<count>> \o FlattenSeq(CellsOf(els)), 2)
      BY <2>1 DEF RunUpTo
    <2>3. \A x \in S : Shaped(x)
      <3>1. level \in -1 .. 3 /\ n \in Nat
        OBVIOUS
      <3> QED BY <3>1, ElsShape
    <2> HIDE DEF S
    <2>4. PICK x \in S : Grown(Held(u), Held(v), x.cells, 2)
      BY <2>1
    <2>5. PICK els \in Seq(S) : Len(els) = i /\ Grown(Held(w), Held(u), <<count>> \o FlattenSeq(CellsOf(els)), 2)
      BY <2>2
    <2> DEFINE all == Append(els, x)
               flat == FlattenSeq(CellsOf(els))
    <2>6. all \in Seq(S) /\ Len(all) = Len(els) + 1 /\ FlattenSeq(CellsOf(all)) = flat \o x.cells
      BY <2>3, CellsAdded
    <2>7. flat \in Seq(Int) /\ x.cells \in Seq(Int) /\ count \in Int
      <3>1. flat \in Seq(Int)
        BY <2>3, SeriesParts
      <3> QED BY <2>3, <3>1 DEF Shaped
    <2> HIDE DEF all, flat
    <2> DEFINE a == <<count>> \o flat
               b == x.cells
    <2>8. a \in Seq(Int) /\ b \in Seq(Int)
      BY <2>7, Counted
    <2>9. a \o b = <<count>> \o (flat \o b)
      <3> DEFINE one == <<count>>
      <3>1. one \in Seq(Int)
        BY <2>7
      <3> HIDE DEF one, b
      <3>2. Joint(Joint(one, flat), b) = Joint(one, Joint(flat, b))
        BY ONLY <2>7, <2>8, <3>1, ThreeTexts
      <3> QED BY ONLY <3>2 DEF Joint, one
    <2>10. Held(w) \in Context /\ Held(u) \in Context /\ Held(v) \in Context
      BY <1>1, HeldFields
    <2>11. Grown(Held(w), Held(v), a \o b, 2)
      <3>1. Grown(Held(w), Held(u), a, 2) /\ Grown(Held(u), Held(v), b, 2)
        BY <2>4, <2>5 DEF flat
      <3>2. 2 \in 1 .. Len(Held(w).g) /\ Len(Held(w).g) >= 2
        <4>1. Len(Held(w).g) >= 2
          BY DEF Began, Headed
        <4>2. Len(Held(w).g) \in Nat
          BY <2>10, ContextFields
        <4> QED BY <4>1, <4>2
      <3> HIDE DEF a, b
      <3> QED BY <2>8, <2>10, <3>1, <3>2, GrowthJoined
    <2>12. Grown(Held(w), Held(v), <<count>> \o FlattenSeq(CellsOf(all)), 2)
      BY <2>6, <2>9, <2>11, Zenon
    <2>13. Len(all) = i + 1
      BY <2>5, <2>6
    <2> QED BY <2>2, <2>6, <2>12, <2>13, Zenon DEF S
  <1> QED BY <1>1, <1>2, <1>3 DEF RunUpTo

\* All of the items, or the first that is refused.
LEMMA RunWritten ==
    ASSUME NEW w \in Writer, w.ok, NEW type \in TypeNames, NEW level \in -1 .. 2, NEW k \in Nat, Began(w, type),
           NEW json, Len(json.items) \in Nat, NEW decode, SoundItems(level, decode, json.items, type, k),
           NEW v, ItemsRun(w, level, decode, json, v)
    PROVE  ArrayWritten(w, v, type, level, k)
  <1> DEFINE count == Len(json.items)
             P(i, u) == RunUpTo(w, u, type, level, k, count, i)
  <1>0. count \in Nat
    OBVIOUS
  <1>1. PICK f : /\ f[0] = WriteCells(w, <<count>>)
                 /\ \A i \in 1 .. count : f[i] = WriteNext(level, decode, f[i - 1], json.items[i])
                 /\ v = f[count]
    BY DEF ItemsRun
  <1>2. P(0, f[0])
    <2> DEFINE u == f[0]
               one == <<count>>
    <2>1. one \in Seq(Int)
      BY <1>0
    <2>2. u = WriteCells(w, one)
      BY <1>1
    <2> HIDE DEF u, one
    <2>3. u \in Writer /\ u.b = w.b \o one /\ u.rdims = w.rdims /\ u.ok = w.ok /\ u.heap = w.heap
      BY <2>1, <2>2, CellsWritten
    <2>4. /\ Held(w) \in Context /\ Held(w).g = w.b /\ Held(w).writtenCoord = (w.rdims # 0)
          /\ Held(w).mustZ = (w.rdims \in {3, 4}) /\ Held(w).mustM = (w.rdims = 4)
      BY HeldFields
    <2>5. /\ Held(u) \in Context /\ Held(u).g = u.b /\ Held(u).writtenCoord = (u.rdims # 0)
          /\ Held(u).mustZ = (u.rdims \in {3, 4}) /\ Held(u).mustM = (u.rdims = 4)
      BY <2>3, HeldFields
    <2>6. Grown(Held(w), Held(u), one, 2)
      <3>1. Held(u).g = Held(w).g \o one
        BY <2>3, <2>4, <2>5
      <3> QED BY <2>1, <2>4, <2>5, <3>1, GrownBy
    <2>7. \A n : Fits(Held(u), n) <=> Fits(Held(w), n)
      BY <2>3, <2>4, <2>5, Zenon DEF Fits
    <2>8. Len(w.b) >= 2 /\ w.b \in Seq(Int)
      BY <2>4, WriterFields DEF Began, Headed
    <2>9. Len(u.b) >= 2 /\ u.b[1] = w.b[1] /\ u.b[2] = w.b[2]
      <3> DEFINE a == w.b
                 b == u.b
      <3>1. a \in Seq(Int) /\ one \in Seq(Int) /\ b = a \o one /\ Len(a) >= 2
        BY <2>1, <2>3, <2>8
      <3> HIDE DEF a, b
      <3>2. Len(b) = Len(a) + Len(one) /\ (\A i \in 1 .. Len(a) : b[i] = a[i]) /\ Len(a) \in Nat /\ Len(one) \in Nat
        BY ONLY <3>1, ConcatProperties
      <3>3. Len(b) >= 2 /\ b[1] = a[1] /\ b[2] = a[2]
        BY <3>1, <3>2
      <3> QED BY <3>3 DEF a, b
    <2>10. Began(u, type)
      <3>1. Headed(Held(w), type)
        BY DEF Began
      <3>2. Headed(Held(u), type)
        BY <2>3, <2>4, <2>5, <2>9, <3>1, ZenonT(30) DEF Headed
      <3>3. u.rdims = 0 => u.b[2] = TypeCode(type)
        BY <2>3, <2>9 DEF Began
      <3> QED BY <3>2, <3>3 DEF Began
    <2>11. ASSUME NEW n \in 2 .. 4
           PROVE  \E els \in Seq(Els(level, n, k)) :
                     Len(els) = 0 /\ Grown(Held(w), Held(u), <<count>> \o FlattenSeq(CellsOf(els)), 2)
      <3>1. <<>> \in Seq(Els(level, n, k)) /\ Len(<<>>) = 0 /\ FlattenSeq(CellsOf(<<>>)) = <<>>
        BY CellsNone
      <3>2. one \o <<>> = one
        BY <2>1
      <3>3. Grown(Held(w), Held(u), one \o FlattenSeq(CellsOf(<<>>)), 2)
        BY <2>6, <3>1, <3>2, Zenon
      <3> QED BY <3>1, <3>3, Zenon DEF one
    <2>12. P(0, u)
      <3> HIDE DEF count
      <3> QED BY <2>3, <2>7, <2>10, <2>11 DEF RunUpTo
    <2> QED BY <2>12 DEF u
  <1> DEFINE T == {i \in 0 .. count : P(i, f[i])}
  <1>3. ASSUME NEW i \in 0 .. count - 1, i \in T PROVE i + 1 \in T
    <2>1. i \in Nat /\ i + 1 \in 1 .. count /\ (i + 1) - 1 = i /\ i + 1 \in 0 .. count
      BY <1>0
    <2>2. P(i, f[i])
      BY <1>3
    <2> DEFINE u == f[i]
               q == f[i + 1]
    <2>3. q = WriteNext(level, decode, u, json.items[i + 1])
      BY <1>1, <2>1, Zenon
    <2>4. u \in Writer /\ P(i, u)
      BY <2>2 DEF RunUpTo
    <2> HIDE DEF u, q, count
    <2>5. CASE ~u.ok
      <3>1. q = u
        BY <2>3, <2>5 DEF WriteNext
      <3>2. P(i + 1, q)
        BY <2>4, <2>5, <3>1 DEF RunUpTo
      <3> QED BY <2>1, <3>2 DEF q
    <2>6. CASE u.ok
      <3>1. Began(u, type)
        BY <2>4, <2>6 DEF RunUpTo
      <3>2. ItemWritten(u, q, type, level, k)
        <4> DEFINE j == i + 1
        <4>1. j \in 1 .. Len(json.items) /\ q = WriteNext(level, decode, u, json.items[j])
          BY <2>1, <2>3 DEF count
        <4> HIDE DEF j
        <4> QED BY <2>4, <2>6, <3>1, <4>1, Zenon DEF SoundItems
      <3>3. P(i + 1, q)
        BY <1>0, <2>1, <2>4, <2>6, <3>2, RunStep
      <3> QED BY <2>1, <3>3 DEF q
    <2> QED BY <2>5, <2>6
  <1>4. count \in T
    <2>1. 0 \in T
      BY <1>0, <1>2
    <2> HIDE DEF T, count
    <2>2. 0 .. count \subseteq T
      BY <1>0, <1>3, <2>1, UpTo
    <2> QED BY <1>0, <2>2
  <1>5. P(count, v)
    BY <1>1, <1>4
  <1> HIDE DEF count
  <1>6. ASSUME v.ok, NEW n \in 2 .. 4, Fits(Held(v), n)
        PROVE  /\ Fits(Held(w), n)
               /\ \E els \in Seq(Els(level, n, k)) :
                     Grown(Held(w), Held(v), <<Len(els)>> \o FlattenSeq(CellsOf(els)), 2)
    <2>1. /\ Fits(Held(w), n)
          /\ \E els \in Seq(Els(level, n, k)) :
                Len(els) = count /\ Grown(Held(w), Held(v), <<count>> \o FlattenSeq(CellsOf(els)), 2)
      BY <1>5, <1>6 DEF RunUpTo
    <2> QED BY <2>1, Zenon
  <1> QED BY <1>5, <1>6 DEF RunUpTo, ArrayWritten

\* An array that is the item of another.
LEMMA ArrayItem ==
    ASSUME NEW w, NEW v, NEW type, NEW level \in 0 .. 2, NEW k \in Nat, ArrayWritten(w, v, type, level, k)
    PROVE  ItemWritten(w, v, type, level + 1, k)
  <1>1. ASSUME v.ok, NEW n \in 2 .. 4, Fits(Held(v), n)
        PROVE  Fits(Held(w), n) /\ \E x \in Els(level + 1, n, k) : Grown(Held(w), Held(v), x.cells, 2)
    <2>1. /\ Fits(Held(w), n)
          /\ \E els \in Seq(Els(level, n, k)) :
                Grown(Held(w), Held(v), <<Len(els)>> \o FlattenSeq(CellsOf(els)), 2)
      BY <1>1 DEF ArrayWritten
    <2>2. PICK els \in Seq(Els(level, n, k)) :
              Grown(Held(w), Held(v), <<Len(els)>> \o FlattenSeq(CellsOf(els)), 2)
      BY <2>1
    <2>3. Els(level, n, k) = Elements(level, n) /\ Els(level + 1, n, k) = Elements(level + 1, n)
      BY DEF Els
    <2>4. Elements(level + 1, n) = SeriesOf(Elements(level, n))
      BY ElementsBelow
    <2> DEFINE S == Elements(level, n)
    <2>5. els \in Seq(S)
      BY <2>3
    <2> HIDE DEF S
    <2>6. SeriesPiece(els) \in SeriesOf(S)
      BY <2>5, Zenon DEF SeriesOf
    <2>7. SeriesPiece(els).cells = <<Len(els)>> \o FlattenSeq(CellsOf(els))
      BY Zenon DEF SeriesPiece
    <2> QED BY <2>1, <2>2, <2>3, <2>4, <2>6, <2>7, Zenon DEF S
  <1> QED BY <1>1 DEF ItemWritten, ArrayWritten

\* A value that is no array is refused.
LEMMA NoArrayWritten ==
    ASSUME NEW w \in Writer, NEW v, v = Refused(w), NEW type, NEW level, NEW k
    PROVE  ArrayWritten(w, v, type, level, k)
  <1>1. v \in Writer /\ v.ok = FALSE /\ v.heap = w.heap
    BY RefusedFields
  <1> QED BY <1>1 DEF ArrayWritten

\* The items of an array.
LEMMA ArrayItems ==
    ASSUME NEW d \in Nat, NEW json \in Json[d], json.kind = "array"
    PROVE  /\ Len(json.items) \in Nat
           /\ \A i \in 1 .. Len(json.items) : d - 1 \in Nat /\ json.items[i] \in Json[d - 1]
  <1>1. json.items \in Seq(JsonBelow(d))
    BY JsonParts
  <1>2. Len(json.items) \in Nat /\ \A i \in 1 .. Len(json.items) : json.items[i] \in JsonBelow(d)
    BY <1>1
  <1>3. \A x \in JsonBelow(d) : d - 1 \in Nat /\ x \in Json[d - 1]
    BY DEF JsonBelow
  <1> QED BY <1>2, <1>3

\* Arrays of positions.
LEMMA Multi1Written ==
    ASSUME NEW w \in Writer, w.ok, NEW type \in TypeNames, Began(w, type), NEW d \in Nat, NEW json \in Json[d],
           NEW k \in Nat
    PROVE  ArrayWritten(w, WriteMulti1(w, json), type, 0, k)
  <1>1. CASE json.kind # "array"
    <2>1. WriteMulti1(w, json) = Refused(w)
      BY <1>1 DEF WriteMulti1, WriteItems, IsArray
    <2> QED BY <2>1, NoArrayWritten
  <1>2. CASE json.kind = "array"
    <2>1. /\ Len(json.items) \in Nat
          /\ \A i \in 1 .. Len(json.items) : d - 1 \in Nat /\ json.items[i] \in Json[d - 1]
      BY <1>2, ArrayItems
    <2>2. ItemsRun(w, 0, w, json, WriteMulti1(w, json))
      BY <1>2, <2>1, CoordRun
    <2>3. ASSUME NEW u \in Writer, NEW i \in 1 .. Len(json.items), u.ok, Began(u, type)
          PROVE  ItemWritten(u, WriteNext(0, w, u, json.items[i]), type, 0, k)
      <3> DEFINE item == json.items[i]
                 e == d - 1
      <3>1. e \in Nat /\ item \in Json[e]
        BY <2>1
      <3> HIDE DEF item, e
      <3>2. WriteNext(0, w, u, item) = WriteCoord(u, item)
        BY <2>3 DEF WriteNext
      <3>3. ItemWritten(u, WriteCoord(u, item), type, 0, k)
        BY <2>3, <3>1, PositionWritten
      <3> QED BY <3>2, <3>3, Zenon DEF item
    <2>4. SoundItems(0, w, json.items, type, k)
      BY <2>3 DEF SoundItems
    <2>5. 0 \in -1 .. 2
      OBVIOUS
    <2> QED BY <2>1, <2>2, <2>4, <2>5, RunWritten
  <1> QED BY <1>1, <1>2

\* Arrays of arrays of positions.
LEMMA Multi2Written ==
    ASSUME NEW w \in Writer, w.ok, NEW type \in TypeNames, Began(w, type), NEW d \in Nat, NEW json \in Json[d],
           NEW k \in Nat
    PROVE  ArrayWritten(w, WriteMulti2(w, json), type, 1, k)
  <1>1. CASE json.kind # "array"
    <2>1. WriteMulti2(w, json) = Refused(w)
      BY <1>1 DEF WriteMulti2, WriteItems, IsArray
    <2> QED BY <2>1, NoArrayWritten
  <1>2. CASE json.kind = "array"
    <2>1. /\ Len(json.items) \in Nat
          /\ \A i \in 1 .. Len(json.items) : d - 1 \in Nat /\ json.items[i] \in Json[d - 1]
      BY <1>2, ArrayItems
    <2>2. ItemsRun(w, 1, w, json, WriteMulti2(w, json))
      BY <1>2, <2>1, Multi1Run
    <2>3. ASSUME NEW u \in Writer, NEW i \in 1 .. Len(json.items), u.ok, Began(u, type)
          PROVE  ItemWritten(u, WriteNext(1, w, u, json.items[i]), type, 1, k)
      <3> DEFINE item == json.items[i]
                 e == d - 1
      <3>1. e \in Nat /\ item \in Json[e]
        BY <2>1
      <3> HIDE DEF item, e
      <3>2. WriteNext(1, w, u, item) = WriteMulti1(u, item)
        BY <2>3 DEF WriteNext
      <3>3. ArrayWritten(u, WriteMulti1(u, item), type, 0, k)
        BY <2>3, <3>1, Multi1Written
      <3>4. ItemWritten(u, WriteMulti1(u, item), type, 0 + 1, k)
        <4>1. 0 \in 0 .. 2
          OBVIOUS
        <4> QED BY <3>3, <4>1, ArrayItem
      <3>5. 0 + 1 = 1
        OBVIOUS
      <3> QED BY <3>2, <3>4, <3>5, Zenon DEF item
    <2>4. SoundItems(1, w, json.items, type, k)
      BY <2>3 DEF SoundItems
    <2>5. 1 \in -1 .. 2
      OBVIOUS
    <2> QED BY <2>1, <2>2, <2>4, <2>5, RunWritten
  <1> QED BY <1>1, <1>2

\* Arrays of arrays of arrays of positions.
LEMMA Multi3Written ==
    ASSUME NEW w \in Writer, w.ok, NEW type \in TypeNames, Began(w, type), NEW d \in Nat, NEW json \in Json[d],
           NEW k \in Nat
    PROVE  ArrayWritten(w, WriteMulti3(w, json), type, 2, k)
  <1>1. CASE json.kind # "array"
    <2>1. WriteMulti3(w, json) = Refused(w)
      BY <1>1 DEF WriteMulti3, WriteItems, IsArray
    <2> QED BY <2>1, NoArrayWritten
  <1>2. CASE json.kind = "array"
    <2>1. /\ Len(json.items) \in Nat
          /\ \A i \in 1 .. Len(json.items) : d - 1 \in Nat /\ json.items[i] \in Json[d - 1]
      BY <1>2, ArrayItems
    <2>2. ItemsRun(w, 2, w, json, WriteMulti3(w, json))
      BY <1>2, <2>1, Multi2Run
    <2>3. ASSUME NEW u \in Writer, NEW i \in 1 .. Len(json.items), u.ok, Began(u, type)
          PROVE  ItemWritten(u, WriteNext(2, w, u, json.items[i]), type, 2, k)
      <3> DEFINE item == json.items[i]
                 e == d - 1
      <3>1. e \in Nat /\ item \in Json[e]
        BY <2>1
      <3> HIDE DEF item, e
      <3>2. WriteNext(2, w, u, item) = WriteMulti2(u, item)
        BY <2>3 DEF WriteNext
      <3>3. ArrayWritten(u, WriteMulti2(u, item), type, 1, k)
        BY <2>3, <3>1, Multi2Written
      <3>4. ItemWritten(u, WriteMulti2(u, item), type, 1 + 1, k)
        <4>1. 1 \in 0 .. 2
          OBVIOUS
        <4> QED BY <3>3, <4>1, ArrayItem
      <3>5. 1 + 1 = 2
        OBVIOUS
      <3> QED BY <3>2, <3>4, <3>5, Zenon DEF item
    <2>4. SoundItems(2, w, json.items, type, k)
      BY <2>3 DEF SoundItems
    <2>5. 2 \in -1 .. 2
      OBVIOUS
    <2> QED BY <2>1, <2>2, <2>4, <2>5, RunWritten
  <1> QED BY <1>1, <1>2

-----------------------------------------------------------------------------
\* What the reader of GeoJSON returns.
SoundJson(o, S) ==
    /\ o.ok \in BOOLEAN /\ o.heap = IF o.ok THEN 1 ELSE 0
    /\ o.ok => \E x \in S : o.b = x.cells

\* A geometry of a collection, copied.
LEMMA GeometryTaken ==
    ASSUME NEW w \in Writer, w.ok, NEW type \in TypeNames, Began(w, type), NEW k \in Nat,
           NEW o, SoundJson(o, Trees[k]), NEW v, v = TakeGeometry(w, o)
    PROVE  ItemWritten(w, v, type, -1, k)
  <1>0. w.heap \in Int /\ w.b \in Seq(Int)
    BY WriterFields
  <1>1. CASE ~o.ok
    <2> DEFINE q == Refused(w)
               h == w.heap + 0
    <2>1. v = [q EXCEPT !.heap = @ + o.heap] /\ o.heap = 0
      BY <1>1 DEF TakeGeometry, SoundJson
    <2>2. q \in Writer /\ q.ok = FALSE /\ q.heap = w.heap
      BY RefusedFields
    <2> HIDE DEF q
    <2>3. v = [q EXCEPT !.heap = h]
      BY <2>1, <2>2
    <2>4. h \in Int /\ h = w.heap
      BY <1>0
    <2> HIDE DEF h
    <2>5. v \in Writer /\ v.ok = FALSE /\ v.heap = w.heap
      BY <2>2, <2>3, <2>4 DEF Writer
    <2> QED BY <2>5 DEF ItemWritten
  <1>2. CASE o.ok
    <2>1. PICK x \in Trees[k] : o.b = x.cells
      BY <1>2 DEF SoundJson
    <2>2. x.cells \in Seq(Int)
      BY TreeForm DEF Form, Shaped
    <2> DEFINE q == WriteCells(w, x.cells)
               h == q.heap + 1 - 1
    <2>3. o.heap = 1
      BY <1>2 DEF SoundJson
    <2>4. v = [q EXCEPT !.heap = @ + 1 - 1]
      BY <1>2, <2>1, <2>3, Zenon DEF TakeGeometry
    <2>5. q \in Writer /\ q.b = w.b \o x.cells /\ q.rdims = w.rdims /\ q.ok = w.ok /\ q.heap = w.heap
      BY <2>2, CellsWritten
    <2> HIDE DEF q
    <2>6. v = [q EXCEPT !.heap = h]
      BY <2>4
    <2>7. h \in Int /\ h = w.heap
      BY <1>0, <2>5
    <2> HIDE DEF h
    <2>8. v \in Writer /\ v.b = w.b \o x.cells /\ v.rdims = w.rdims /\ v.ok = w.ok /\ v.heap = w.heap
      BY <2>5, <2>6, <2>7 DEF Writer
    <2>9. /\ Held(w) \in Context /\ Held(w).g = w.b /\ Held(w).writtenCoord = (w.rdims # 0)
          /\ Held(w).mustZ = (w.rdims \in {3, 4}) /\ Held(w).mustM = (w.rdims = 4)
      BY HeldFields
    <2>10. /\ Held(v) \in Context /\ Held(v).g = v.b /\ Held(v).writtenCoord = (v.rdims # 0)
           /\ Held(v).mustZ = (v.rdims \in {3, 4}) /\ Held(v).mustM = (v.rdims = 4)
      BY <2>8, HeldFields
    <2>11. Grown(Held(w), Held(v), x.cells, 2)
      <3>1. Held(v).g = Held(w).g \o x.cells
        BY <2>8, <2>9, <2>10
      <3> QED BY <2>2, <2>9, <2>10, <3>1, GrownBy
    <2>12. \A n : Fits(Held(v), n) => Fits(Held(w), n)
      BY <2>8, <2>9, <2>10, ZenonT(30) DEF Fits
    <2>13. Len(v.b) >= 2 /\ v.b[1] = w.b[1] /\ v.b[2] = w.b[2]
      <3> DEFINE a == w.b
                 b == v.b
                 c == x.cells
      <3>1. a \in Seq(Int) /\ c \in Seq(Int) /\ b = a \o c
        BY <1>0, <2>2, <2>8
      <3>2. Len(a) >= 2
        BY <2>9 DEF Began, Headed
      <3> HIDE DEF a, b, c
      <3>3. Len(b) = Len(a) + Len(c) /\ (\A i \in 1 .. Len(a) : b[i] = a[i]) /\ Len(a) \in Nat /\ Len(c) \in Nat
        BY ONLY <3>1, ConcatProperties
      <3>4. Len(b) >= 2 /\ b[1] = a[1] /\ b[2] = a[2]
        BY <3>2, <3>3
      <3> QED BY <3>4 DEF a, b
    <2>14. Began(v, type)
      <3>1. Headed(Held(w), type)
        BY DEF Began
      <3>2. Headed(Held(v), type)
        BY <2>8, <2>9, <2>10, <2>13, <3>1, ZenonT(30) DEF Headed
      <3>3. v.rdims = 0 => v.b[2] = TypeCode(type)
        BY <2>8, <2>13 DEF Began
      <3> QED BY <3>2, <3>3 DEF Began
    <2>15. \A n : Els(-1, n, k) = Trees[k]
      BY DEF Els
    <2> QED BY <2>8, <2>11, <2>12, <2>14, <2>15 DEF ItemWritten
  <1> QED BY <1>1, <1>2

\* An array of geometries.
LEMMA GeometriesWritten ==
    ASSUME NEW w \in Writer, w.ok, NEW type \in TypeNames, Began(w, type), NEW d \in Nat, NEW json \in Json[d],
           NEW k \in Nat, NEW decode, \A e \in Nat : \A item \in Json[e] : e + 1 = d => SoundJson(decode[item], Trees[k])
    PROVE  ArrayWritten(w, WriteGeometries(decode, w, json), type, -1, k)
  <1>1. CASE json.kind # "array"
    <2>1. WriteGeometries(decode, w, json) = Refused(w)
      BY <1>1 DEF WriteGeometries, WriteItems, IsArray
    <2> QED BY <2>1, NoArrayWritten
  <1>2. CASE json.kind = "array"
    <2>1. /\ Len(json.items) \in Nat
          /\ \A i \in 1 .. Len(json.items) : d - 1 \in Nat /\ json.items[i] \in Json[d - 1]
      BY <1>2, ArrayItems
    <2>2. ItemsRun(w, -1, decode, json, WriteGeometries(decode, w, json))
      BY <1>2, <2>1, GeometriesRun
    <2>3. ASSUME NEW u \in Writer, NEW i \in 1 .. Len(json.items), u.ok, Began(u, type)
          PROVE  ItemWritten(u, WriteNext(-1, decode, u, json.items[i]), type, -1, k)
      <3> DEFINE item == json.items[i]
                 e == d - 1
      <3>1. e \in Nat /\ item \in Json[e] /\ e + 1 = d
        BY <2>1
      <3> HIDE DEF item, e
      <3>2. WriteNext(-1, decode, u, item) = TakeGeometry(u, decode[item])
        BY <2>3 DEF WriteNext
      <3>3. SoundJson(decode[item], Trees[k])
        BY <3>1
      <3>4. ItemWritten(u, TakeGeometry(u, decode[item]), type, -1, k)
        BY <2>3, <3>3, GeometryTaken
      <3> QED BY <3>2, <3>4, Zenon DEF item
    <2>4. SoundItems(-1, decode, json.items, type, k)
      BY <2>3 DEF SoundItems
    <2>5. -1 \in -1 .. 2
      OBVIOUS
    <2> QED BY <2>1, <2>2, <2>4, <2>5, RunWritten
  <1> QED BY <1>1, <1>2

\* The last of the members that were asked for.
LEMMA LookupFound ==
    ASSUME NEW d \in Nat, NEW json \in Json[d + 1], json.kind = "object", NEW name, NEW kind, NEW default
    PROVE  \/ Lookup(json, name, kind, default) = default
           \/ Lookup(json, name, kind, default) \in Json[d] /\ Lookup(json, name, kind, default).kind = kind
  <1> DEFINE found == PlacesOf(json, name, kind)
             members == json.members
             M == [name : Strings, value : Json[d]]
  <1>1. members \in Seq(M)
    <2> DEFINE e == d + 1
    <2>1. e \in Nat /\ json \in Json[e] /\ e # 0 /\ e - 1 = d
      OBVIOUS
    <2> HIDE DEF e
    <2>2. members \in Seq([name : Strings, value : JsonBelow(e)])
      BY <2>1, JsonParts
    <2>3. JsonBelow(e) = Json[d]
      BY <2>1 DEF JsonBelow
    <2> QED BY <2>2, <2>3
  <1>2. found = {i \in DOMAIN members : members[i].name = name /\ members[i].value.kind = kind}
    BY Zenon DEF PlacesOf
  <1>3. Lookup(json, name, kind, default) = IF found = {} THEN default ELSE members[Max(found)].value
    BY Zenon DEF Lookup
  <1> HIDE DEF found
  <1>4. CASE found = {}
    BY <1>3, <1>4
  <1>5. CASE found # {}
    <2>1. DOMAIN members = 1 .. Len(members) /\ Len(members) \in Nat
      BY <1>1
    <2>2. found \subseteq 1 .. Len(members)
      BY <1>2, <2>1
    <2>3. IsFiniteSet(found) /\ found \in SUBSET Int
      <3>1. IsFiniteSet(1 .. Len(members))
        BY <2>1, FS_Interval
      <3>2. IsFiniteSet(found)
        BY <2>2, <3>1, FS_Subset
      <3> QED BY <2>2, <3>2
    <2>4. Max(found) \in found
      BY <1>5, <2>3, LeastAndGreatest
    <2> DEFINE i == Max(found)
    <2>5. i \in found
      BY <2>4
    <2> HIDE DEF i
    <2>6. i \in 1 .. Len(members) /\ members[i].value.kind = kind
      BY <1>2, <2>1, <2>5
    <2>7. members[i] \in M
      <3> HIDE DEF M, members
      <3> QED BY <1>1, <2>6
    <2>8. members[i].value \in Json[d]
      BY <2>7
    <2>9. Lookup(json, name, kind, default) = members[i].value
      BY <1>3, <1>5 DEF i
    <2> QED BY <2>6, <2>8, <2>9
  <1> QED BY <1>4, <1>5

\* A value that is nothing.
LEMMA NullJson ==
    ASSUME NEW d \in Nat
    PROVE  JsonNull \in Json[d]
  <1>1. \A S : JsonNull \in JsonOver(S)
    BY Zenon DEF JsonOver
  <1>2. CASE d = 0
    BY <1>1, <1>2, JsonLevels
  <1>3. CASE d # 0
    <2> DEFINE e == d - 1
    <2>1. e \in Nat /\ e + 1 = d
      BY <1>3
    <2> HIDE DEF e
    <2>2. Json[e + 1] = JsonOver(Json[e])
      BY <2>1, JsonLevels
    <2> QED BY <1>1, <2>1, <2>2
  <1> QED BY <1>2, <1>3

\* What is nested less deep is among what may be nested deeper.
LEMMA JsonMonotonic ==
    ASSUME NEW d \in Nat
    PROVE  Json[d] \subseteq Json[d + 1]
  <1>1. ASSUME NEW A, NEW B, A \subseteq B PROVE JsonOver(A) \subseteq JsonOver(B)
    <2>1. Seq(A) \subseteq Seq(B)
      BY <1>1
    <2> DEFINE R(S) == [name : Strings, value : S]
    <2>2. R(A) \subseteq R(B)
      BY <1>1
    <2> HIDE DEF R
    <2>3. Seq(R(A)) \subseteq Seq(R(B))
      BY <2>2
    <2> DEFINE SA == Seq(A)
               SB == Seq(B)
               RA == Seq(R(A))
               RB == Seq(R(B))
    <2>4. SA \subseteq SB /\ RA \subseteq RB
      BY <2>1, <2>3
    <2> HIDE DEF SA, SB, RA, RB
    <2>5. /\ [kind : {"array"}, items : SA] \subseteq [kind : {"array"}, items : SB]
          /\ [kind : {"object"}, members : RA] \subseteq [kind : {"object"}, members : RB]
      BY <2>4
    <2>6. \A S : JsonOver(S) = {JsonNull} \union [kind : {"number"}, number : 0 .. 9]
                     \union [kind : {"string"}, string : Strings]
                     \union [kind : {"array"}, items : Seq(S)] \union [kind : {"object"}, members : Seq(R(S))]
      BY Zenon DEF JsonOver, R
    <2>7. /\ JsonOver(A) = {JsonNull} \union [kind : {"number"}, number : 0 .. 9]
                     \union [kind : {"string"}, string : Strings]
                     \union [kind : {"array"}, items : SA] \union [kind : {"object"}, members : RA]
          /\ JsonOver(B) = {JsonNull} \union [kind : {"number"}, number : 0 .. 9]
                     \union [kind : {"string"}, string : Strings]
                     \union [kind : {"array"}, items : SB] \union [kind : {"object"}, members : RB]
      BY <2>6, Zenon DEF SA, SB, RA, RB
    <2> QED BY <2>5, <2>7, Zenon
  <1> DEFINE S == {k \in Nat : Json[k] \subseteq Json[k + 1]}
  <1>2. 0 \in S
    <2>1. Json[0] = JsonOver({}) /\ Json[0 + 1] = JsonOver(Json[0])
      <3>1. 0 \in Nat
        OBVIOUS
      <3> QED BY <3>1, JsonLevels
    <2>2. Json[0] \subseteq Json[0 + 1]
      BY <2>1, <1>1
    <2> QED BY <2>2
  <1>3. ASSUME NEW k \in Nat, k \in S PROVE k + 1 \in S
    <2> DEFINE j == k + 1
    <2>1. j \in Nat
      OBVIOUS
    <2>2. Json[j] = JsonOver(Json[k])
      BY JsonLevels
    <2>3. Json[k] \subseteq Json[j]
      BY <1>3
    <2> HIDE DEF j
    <2>4. Json[j + 1] = JsonOver(Json[j])
      BY <2>1, JsonLevels
    <2>5. Json[j] \subseteq Json[j + 1]
      BY <1>1, <2>2, <2>3, <2>4
    <2>6. j \in S
      BY <2>1, <2>5
    <2> QED BY <2>6 DEF j
  <1> HIDE DEF S
  <1>4. Nat \subseteq S
    BY <1>2, <1>3, NatSubset
  <1> QED BY <1>4 DEF S

-----------------------------------------------------------------------------
\* The names of the types of GeoJSON are in the order of the codes.
LEMMA JsonCodes ==
    ASSUME NEW name \in Range(JsonTypes), NEW code, code = CHOOSE n \in DOMAIN JsonTypes : JsonTypes[n] = name
    PROVE  /\ code \in 1 .. 7 /\ TypeCode(GeomTypes[code]) = code /\ GeomTypes[code] \in TypeNames
           /\ name = "GeometryCollection" => GeomTypes[code] = "GEOMETRYCOLLECTION"
           /\ name \notin {"Point", "GeometryCollection"} => GeomTypes[code] \notin {"POINT", "GEOMETRYCOLLECTION"}
  <1>1. DOMAIN JsonTypes = 1 .. 7
    BY DEF JsonTypes
  <1>2. \E n \in DOMAIN JsonTypes : JsonTypes[n] = name
    BY Zenon DEF Range
  <1>3. code \in DOMAIN JsonTypes /\ JsonTypes[code] = name
    BY <1>2, Zenon
  <1>4. code \in 1 .. 7
    BY <1>1, <1>3
  <1>5. TypeCode(GeomTypes[code]) = code /\ GeomTypes[code] \in TypeNames
    BY <1>4, TypeCodes
  <1>6. \A n \in 1 .. 7 : /\ JsonTypes[n] = "GeometryCollection" => GeomTypes[n] = "GEOMETRYCOLLECTION"
                          /\ GeomTypes[n] = "POINT" => JsonTypes[n] = "Point"
                          /\ GeomTypes[n] = "GEOMETRYCOLLECTION" => JsonTypes[n] = "GeometryCollection"
    BY DEF GeomTypes, JsonTypes
  <1> QED BY <1>3, <1>4, <1>5, <1>6, Zenon

\* A writer that has written no more than a head.
LEMMA WriterBegins ==
    ASSUME NEW type \in TypeNames
    PROVE  /\ NewWriter(TypeCode(type)) \in Writer /\ NewWriter(TypeCode(type)).ok = TRUE
           /\ NewWriter(TypeCode(type)).heap = 1 /\ NewWriter(TypeCode(type)).rdims = 0
           /\ Began(NewWriter(TypeCode(type)), type) /\ Len(Held(NewWriter(TypeCode(type))).g) = 2
  <1> DEFINE code == TypeCode(type)
             b == <<LittleEndian, code>>
             w == NewWriter(code)
  <1>1. code \in 1 .. 7
    BY TypeCodes
  <1>2. b \in Seq(Int) /\ Len(b) = 2 /\ b[1] = LittleEndian /\ b[2] = code
    <2> HIDE DEF code
    <2> QED BY <1>1 DEF LittleEndian
  <1>3. w = [b |-> b, rdims |-> 0, ok |-> TRUE, heap |-> 1]
    BY Zenon DEF NewWriter
  <1>4. code = TypeCell(code, FALSE, FALSE)
    <2> HIDE DEF code
    <2> QED BY <1>1 DEF TypeCell
  <1> HIDE DEF b, w, code
  <1>5. w \in Writer
    BY <1>2, <1>3 DEF Writer
  <1>6. w.b = b /\ w.rdims = 0 /\ w.ok = TRUE /\ w.heap = 1
    BY <1>3
  <1>7. /\ Held(w) \in Context /\ Held(w).g = b /\ Held(w).writtenCoord = FALSE
    BY <1>5, <1>6, HeldFields
  <1>8. Headed(Held(w), type)
    <2>1. Len(b) >= 2
      BY <1>2
    <2>2. b[2] = TypeCell(TypeCode(type), FALSE, FALSE)
      BY <1>2, <1>4, Zenon DEF code
    <2> QED BY <1>2, <1>7, <2>1, <2>2, Zenon DEF Headed
  <1>9. Began(w, type)
    BY <1>2, <1>6, <1>8 DEF Began, code
  <1> QED BY <1>2, <1>5, <1>6, <1>7, <1>9 DEF w, code

\* What is decoded, or freed.
LEMMA FinishedSound ==
    ASSUME NEW w \in Writer, w.heap = 1, NEW S, w.ok => \E x \in S : w.b = x.cells
    PROVE  SoundJson(Finished(w), S)
  <1>1. CASE w.ok
    <2>1. Finished(w) = [ok |-> TRUE, b |-> w.b, heap |-> w.heap]
      BY <1>1 DEF Finished, Decoded
    <2>2. Finished(w).ok = TRUE /\ Finished(w).b = w.b /\ Finished(w).heap = 1
      BY <2>1
    <2> QED BY <1>1, <2>2 DEF SoundJson
  <1>2. CASE ~w.ok
    <2>1. Finished(w) = [[ok |-> FALSE, heap |-> 0] EXCEPT !.heap = w.heap - 1]
      BY <1>2 DEF Finished, NoGeometry
    <2>2. Finished(w).ok = FALSE /\ Finished(w).heap = 0
      BY <2>1
    <2> QED BY <2>2 DEF SoundJson
  <1> QED BY <1>1, <1>2

\* Nothing is nothing.
LEMMA NoGeometrySound ==
    ASSUME NEW S
    PROVE  SoundJson(NoGeometry, S)
  <1>1. NoGeometry.ok = FALSE /\ NoGeometry.heap = 0
    BY DEF NoGeometry
  <1> QED BY <1>1 DEF SoundJson

\* A point.
LEMMA JsonPointSound ==
    ASSUME NEW d \in Nat, NEW json \in Json[d], NEW k \in Nat
    PROVE  SoundJson(jsonDecodePoint(json), Trees[k + 1])
  <1>1. CASE ~IsPosition(json)
    BY <1>1, NoGeometrySound DEF jsonDecodePoint
  <1>2. CASE IsPosition(json)
    <2> DEFINE w == NewWriter(TypeCode("POINT"))
               v == WriteCoord(w, json)
    <2>0. "POINT" \in TypeNames
      BY DEF TypeNames
    <2>1. /\ w \in Writer /\ w.ok = TRUE /\ w.heap = 1 /\ w.rdims = 0 /\ Began(w, "POINT") /\ Len(Held(w).g) = 2
      BY <2>0, WriterBegins
    <2>2. jsonDecodePoint(json) = [ok |-> TRUE, b |-> v.b, heap |-> v.heap]
      BY <1>2 DEF jsonDecodePoint, Decoded
    <2> HIDE DEF w
    <2>3. v.ok = TRUE
      <3> DEFINE s == jsonGetPosition(json)
                 q == WriteCells(w, s)
                 n == Len(json.items)
      <3>1. s \in Seq(Int) /\ n \in 2 .. 4
        BY <1>2, PositionCells
      <3>2. v = [q EXCEPT !.rdims = n, !.b[2] = IF w.rdims = 0 THEN @ + DimsOffset(n) ELSE @]
        BY <1>2, <2>1 DEF WriteCoord
      <3>3. q \in Writer /\ q.ok = TRUE
        <4> HIDE DEF s
        <4> QED BY <2>1, <3>1, CellsWritten
      <3> HIDE DEF q, s, n, v
      <3> DEFINE b == [q.b EXCEPT ![2] = IF w.rdims = 0 THEN @ + DimsOffset(n) ELSE @]
      <3>4. v = [q EXCEPT !.rdims = n, !.b = b]
        BY <3>2, <3>3 DEF Writer
      <3> HIDE DEF b
      <3>5. v.ok = q.ok
        BY <3>3, <3>4 DEF Writer
      <3> QED BY <3>3, <3>5 DEF v
    <2>4. ItemWritten(w, v, "POINT", 0, k)
      BY <2>0, <2>1, PositionWritten
    <2> HIDE DEF v
    <2>5. v \in Writer /\ v.heap = 1
      BY <2>1, <2>4 DEF ItemWritten
    <2>6. /\ Began(v, "POINT")
          /\ \A n \in 2 .. 4 : Fits(Held(v), n) => \E x \in Els(0, n, k) : Grown(Held(w), Held(v), x.cells, 2)
      BY <2>3, <2>4 DEF ItemWritten
    <2>7. Held(w) \in Context /\ Held(v) \in Context /\ Held(v).g = v.b
      BY <2>1, <2>5, HeldFields
    <2>8. \E y \in Trees[k + 1] : v.b = y.cells
      <3>1. Headed(Held(w), "POINT") /\ Headed(Held(v), "POINT")
        BY <2>1, <2>6 DEF Began
      <3>2. \E y \in Trees[k + 1] : Held(v).g = y.cells
        BY <2>1, <2>6, <2>7, <3>1, PointTree
      <3> QED BY <2>7, <3>2
    <2>9. /\ jsonDecodePoint(json).ok = TRUE /\ jsonDecodePoint(json).b = v.b /\ jsonDecodePoint(json).heap = 1
      BY <2>2, <2>5
    <2> QED BY <2>8, <2>9 DEF SoundJson
  <1> QED BY <1>1, <1>2

\* A geometry whose cells are an array.
LEMMA ArraySound ==
    ASSUME NEW type \in TypeNames, type # "POINT", NEW k \in Nat,
           NEW v, ArrayWritten(NewWriter(TypeCode(type)), v, type, Level(type), k)
    PROVE  SoundJson(Finished(v), Trees[k + 1])
  <1> DEFINE w == NewWriter(TypeCode(type))
  <1>1. /\ w \in Writer /\ w.ok = TRUE /\ w.heap = 1 /\ w.rdims = 0 /\ Began(w, type) /\ Len(Held(w).g) = 2
    BY WriterBegins
  <1>2. ArrayWritten(w, v, type, Level(type), k)
    OBVIOUS
  <1> HIDE DEF w
  <1>3. v \in Writer /\ v.heap = 1
    BY <1>1, <1>2 DEF ArrayWritten
  <1>4. ASSUME v.ok PROVE \E y \in Trees[k + 1] : v.b = y.cells
    <2>1. /\ Began(v, type)
          /\ \A n \in 2 .. 4 : Fits(Held(v), n) =>
                \E els \in Seq(Els(Level(type), n, k)) :
                    Grown(Held(w), Held(v), <<Len(els)>> \o FlattenSeq(CellsOf(els)), 2)
      BY <1>2, <1>4 DEF ArrayWritten
    <2>2. Held(w) \in Context /\ Held(v) \in Context /\ Held(v).g = v.b
      BY <1>1, <1>3, HeldFields
    <2>3. Headed(Held(w), type) /\ Headed(Held(v), type) /\ type \in TypeNames \ {"POINT"}
      BY <1>1, <2>1 DEF Began
    <2>4. \E y \in Trees[k + 1] : Held(v).g = y.cells
      BY <1>1, <2>1, <2>2, <2>3, SeriesTree
    <2> QED BY <2>2, <2>4
  <1> QED BY <1>3, <1>4, FinishedSound

\* A geometry of any type.
LEMMA ObjectSound ==
    ASSUME NEW d \in Nat, NEW json \in Json[d + 1], json.kind = "object", NEW k \in Nat, NEW decode,
           \A e \in Nat : \A item \in Json[e] : e + 1 = d => SoundJson(decode[item], Trees[k])
    PROVE  SoundJson(DecodeObject(decode, json), Trees[k + 1])
  <1> DEFINE name == Lookup(json, "type", "string", JsonString("")).string
             code == CHOOSE n \in DOMAIN JsonTypes : JsonTypes[n] = name
             coordinates == Lookup(json, "coordinates", "array", JsonNull)
             geometries == Lookup(json, "geometries", "array", JsonNull)
             o == DecodeObject(decode, json)
  <1>1. coordinates \in Json[d] /\ geometries \in Json[d]
    BY LookupFound, NullJson
  <1> HIDE DEF coordinates, geometries
  <1>2. CASE name = "Point"
    <2>1. o = jsonDecodePoint(coordinates)
      BY <1>2 DEF DecodeObject, coordinates
    <2> QED BY <1>1, <2>1, JsonPointSound
  <1>3. CASE name = "GeometryCollection"
    <2> DEFINE v == WriteGeometries(decode, NewWriter(code), geometries)
    <2>1. o = Finished(v)
      BY <1>3 DEF DecodeObject, geometries
    <2>2. name \in Range(JsonTypes)
      <3>1. "GeometryCollection" \in Range(JsonTypes)
        BY DEF Range, JsonTypes
      <3> QED BY <1>3, <3>1
    <2> DEFINE type == GeomTypes[code]
    <2>3. code = CHOOSE n \in DOMAIN JsonTypes : JsonTypes[n] = name
      OBVIOUS
    <2> HIDE DEF name, code, o
    <2>4. type \in TypeNames /\ TypeCode(type) = code /\ type = "GEOMETRYCOLLECTION"
      BY <1>3, <2>2, <2>3, JsonCodes
    <2> HIDE DEF type
    <2> DEFINE w == NewWriter(TypeCode(type))
    <2>5. w \in Writer /\ w.ok = TRUE /\ Began(w, type)
      BY <2>4, WriterBegins
    <2>6. v = WriteGeometries(decode, w, geometries)
      BY <2>4
    <2> HIDE DEF w, v
    <2>7. ArrayWritten(w, v, type, -1, k)
      BY <1>1, <2>4, <2>5, <2>6, GeometriesWritten
    <2>8. Level(type) = -1 /\ type # "POINT"
      BY <2>4, Levels
    <2>9. ArrayWritten(NewWriter(TypeCode(type)), v, type, Level(type), k)
      BY <2>7, <2>8, Zenon DEF w
    <2> QED BY <2>1, <2>4, <2>8, <2>9, ArraySound DEF o
  <1>4. CASE name \in Range(JsonTypes) \ {"Point", "GeometryCollection"}
    <2> DEFINE v == WriteCoords(NewWriter(code), coordinates, Level(GeomTypes[code]))
    <2>1. o = Finished(v)
      BY <1>4 DEF DecodeObject, coordinates
    <2>2. name \in Range(JsonTypes) /\ name \notin {"Point", "GeometryCollection"}
      BY <1>4
    <2> DEFINE type == GeomTypes[code]
    <2>3. code = CHOOSE n \in DOMAIN JsonTypes : JsonTypes[n] = name
      OBVIOUS
    <2> HIDE DEF name, code, o
    <2>4. type \in TypeNames /\ TypeCode(type) = code /\ type \notin {"POINT", "GEOMETRYCOLLECTION"}
      BY <2>2, <2>3, JsonCodes
    <2> HIDE DEF type
    <2> DEFINE w == NewWriter(TypeCode(type))
               level == Level(type)
    <2>5. w \in Writer /\ w.ok = TRUE /\ Began(w, type)
      BY <2>4, WriterBegins
    <2>6. v = WriteCoords(w, coordinates, level)
      BY <2>4 DEF type
    <2>7. level \in 0 .. 2
      BY <2>4, Levels
    <2> HIDE DEF w, v, level
    <2>8. ArrayWritten(w, v, type, level, k)
      <3>1. CASE level = 0
        <4>1. v = WriteMulti1(w, coordinates)
          BY <2>6, <3>1 DEF WriteCoords
        <4> QED BY <1>1, <2>4, <2>5, <3>1, <4>1, Multi1Written
      <3>2. CASE level = 1
        <4>1. v = WriteMulti2(w, coordinates)
          BY <2>6, <3>2 DEF WriteCoords
        <4> QED BY <1>1, <2>4, <2>5, <3>2, <4>1, Multi2Written
      <3>3. CASE level = 2
        <4>1. v = WriteMulti3(w, coordinates)
          BY <2>6, <3>3 DEF WriteCoords
        <4> QED BY <1>1, <2>4, <2>5, <3>3, <4>1, Multi3Written
      <3> QED BY <2>7, <3>1, <3>2, <3>3
    <2>9. ArrayWritten(NewWriter(TypeCode(type)), v, type, Level(type), k)
      BY <2>8, Zenon DEF w, level
    <2>10. type # "POINT"
      BY <2>4
    <2> QED BY <2>1, <2>4, <2>9, <2>10, ArraySound DEF o
  <1>5. CASE name \notin Range(JsonTypes)
    <2>1. "Point" \in Range(JsonTypes) /\ "GeometryCollection" \in Range(JsonTypes)
      BY DEF Range, JsonTypes
    <2>2. o = NoGeometry
      BY <1>5, <2>1, Zenon DEF DecodeObject
    <2> QED BY <2>2, NoGeometrySound
  <1> QED BY <1>2, <1>3, <1>4, <1>5

\* The reader of GeoJSON gives a geometry in a buffer of its own, or nothing.
LEMMA JsonSound ==
    ASSUME NEW d \in Nat, NEW json \in Json[d]
    PROVE  SoundJson(jsonDecodeAny[d][json], Trees[d])
  <1> DEFINE S == {n \in Nat : \A v \in Json[n] : SoundJson(jsonDecodeAny[n][v], Trees[n])}
  <1>1. 0 \in S
    <2>1. 0 \in Nat /\ \A v \in Json[0] : jsonDecodeAny[0][v] = NoGeometry
      BY DecodeLevels
    <2>2. \A v \in Json[0] : SoundJson(jsonDecodeAny[0][v], Trees[0])
      BY <2>1, NoGeometrySound
    <2> QED BY <2>1, <2>2
  <1>2. ASSUME NEW n \in Nat, n \in S PROVE n + 1 \in S
    <2>1. \A v \in Json[n] : SoundJson(jsonDecodeAny[n][v], Trees[n])
      BY <1>2
    <2>2. ASSUME NEW v \in Json[n + 1]
          PROVE  SoundJson(jsonDecodeAny[n + 1][v], Trees[n + 1])
      <3>1. /\ v.kind # "object" => jsonDecodeAny[n + 1][v] = NoGeometry
            /\ v.kind = "object" => jsonDecodeAny[n + 1][v] = DecodeObject(jsonDecodeAny[n], v)
        BY DecodeLevels
      <3> DEFINE decode == jsonDecodeAny[n]
      <3>2. \A e \in Nat : \A item \in Json[e] : e + 1 = n => SoundJson(decode[item], Trees[n])
        <4> SUFFICES ASSUME NEW e \in Nat, NEW item \in Json[e], e + 1 = n PROVE SoundJson(decode[item], Trees[n])
          OBVIOUS
        <4>1. Json[e] \subseteq Json[e + 1]
          BY JsonMonotonic
        <4>2. item \in Json[n]
          BY <4>1
        <4> QED BY <2>1, <4>2
      <3> HIDE DEF decode
      <3>3. CASE v.kind # "object"
        BY <3>1, <3>3, NoGeometrySound
      <3>4. CASE v.kind = "object"
        <4>1. SoundJson(DecodeObject(decode, v), Trees[n + 1])
          BY <3>2, <3>4, ObjectSound
        <4> QED BY <3>1, <3>4, <4>1 DEF decode
      <3> QED BY <3>3, <3>4
    <2> QED BY <2>2
  <1> HIDE DEF S
  <1>3. Nat \subseteq S
    BY <1>1, <1>2, NatSubset
  <1> QED BY <1>3 DEF S

-----------------------------------------------------------------------------
(***************************************************************************)
(* What a key holds.                                                       *)
(***************************************************************************)
\* The cells of a geometry.
Geometry(g) == \E d \in Nat : \E x \in Trees[d] : g = x.cells

\* A text is a geometry in a buffer of its own, or is refused and leaves nothing behind.
Read(o) ==
    /\ o.err = "none" => o.heap = 1 /\ Geometry(o.g)
    /\ o.err # "none" => o.heap = 0

\* What WKT is read as.
LEMMA WktRead ==
    ASSUME NEW words \in Seq(Tokens)
    PROVE  Read(geomDecode(WktText(words)))
  <1> DEFINE t == WktText(words)
             o == geomDecodeWKT(words)
  <1>1. t.format = "wkt" /\ t.tokens = words
    BY Zenon DEF WktText
  <1>2. geomDecode(t) = o
    BY <1>1 DEF geomDecode
  <1>3. Sound(o, Trees[Len(words) + 1])
    BY WktSound
  <1> HIDE DEF t, o
  <1> DEFINE n == Len(words) + 1
  <1>4. n \in Nat
    OBVIOUS
  <1>5. Sound(o, Trees[n])
    BY <1>3
  <1> HIDE DEF n
  <1> QED BY <1>2, <1>4, <1>5 DEF Sound, Read, Geometry, t

\* What the texts of clients are read as, if they are read at all.
LEMMA TextRead ==
    ASSUME NEW t \in Texts, t.format # "wkb"
    PROVE  Read(geomDecode(t))
  <1> DEFINE o == geomDecode(t)
  <1>1. CASE t.format = "wkt" /\ t.tokens \in Seq(Tokens)
    <2> DEFINE words == t.tokens
    <2>1. o = geomDecodeWKT(words)
      BY <1>1 DEF geomDecode
    <2>2. words \in Seq(Tokens)
      BY <1>1
    <2>3. Sound(geomDecodeWKT(words), Trees[Len(words) + 1])
      BY <2>2, WktSound
    <2> HIDE DEF words, o
    <2> DEFINE n == Len(words) + 1
    <2>4. n \in Nat
      BY <2>2
    <2>5. Sound(o, Trees[n])
      BY <2>1, <2>3
    <2> HIDE DEF n
    <2>6. Read(o)
      BY <2>4, <2>5 DEF Sound, Read, Geometry
    <2> QED BY <2>6 DEF o
  <1>2. CASE t.format = "json" /\ t.blank \in BOOLEAN /\ t.depth \in Nat /\ t.json \in Json[t.depth]
    <2>1. CASE t.blank
      <3>1. o = [err |-> "unsupported", g |-> <<>>, read |-> 0, heap |-> 0]
        BY <1>2, <2>1 DEF geomDecode, Outcome
      <3>2. o.err # "none" /\ o.heap = 0
        BY <3>1
      <3> QED BY <3>2 DEF Read
    <2>2. CASE ~t.blank
      <3> DEFINE q == jsonDecodeAny[t.depth][t.json]
      <3>1. o = geomDecodeJSON(t.depth, t.json)
        BY <1>2, <2>2 DEF geomDecode
      <3>2. SoundJson(q, Trees[t.depth])
        BY <1>2, JsonSound
      <3>3. o = IF q.ok THEN Outcome("none", q.b, 0, q.heap) ELSE Outcome("input", <<>>, 0, q.heap)
        BY <3>1, Zenon DEF geomDecodeJSON
      <3> HIDE DEF q, o
      <3>4. CASE q.ok
        <4>1. o = [err |-> "none", g |-> q.b, read |-> 0, heap |-> q.heap]
          BY <3>3, <3>4 DEF Outcome
        <4>2. o.err = "none" /\ o.g = q.b /\ o.heap = q.heap
          BY <4>1
        <4>3. Read(o)
          BY <1>2, <3>2, <3>4, <4>2 DEF SoundJson, Read, Geometry
        <4> QED BY <4>3 DEF o
      <3>5. CASE ~q.ok
        <4>1. o = [err |-> "input", g |-> <<>>, read |-> 0, heap |-> q.heap]
          BY <3>3, <3>5 DEF Outcome
        <4>2. o.err = "input" /\ o.heap = q.heap
          BY <4>1
        <4>3. Read(o)
          BY <3>2, <3>5, <4>2 DEF SoundJson, Read
        <4> QED BY <4>3 DEF o
      <3> QED BY <3>4, <3>5
    <2> QED BY <2>1, <2>2
  <1> QED BY <1>1, <1>2, TextsAssumption

\* What is written of a geometry are tokens, and all of its cells are read for it.
LEMMA WholeWritten ==
    ASSUME NEW d \in Nat, NEW x \in Trees[d]
    PROVE  /\ x.cells \in Seq(Int) /\ x.cells # NoValue
           /\ geomEncodeWKTInner(x.cells, 1) = Written(x.text, 1 + Len(x.cells))
           /\ geomEncodeWKT(x.cells) = x.text /\ x.text \in Seq(Tokens)
  <1>1. Form(x)
    BY TreeForm
  <1> DEFINE g == x.cells
  <1>2. g \in Seq(Int) /\ x.text \in Seq(Tokens) /\ Len(g) >= 2
    BY <1>1 DEF Form, Shaped
  <1>3. Stands(x.cells, g, 1)
    BY <1>2, StandsWhole
  <1> HIDE DEF g
  <1>4. 1 \in Nat \ {0}
    OBVIOUS
  <1>5. geomEncodeWKTInner(g, 1) = Written(x.text, 1 + Len(x.cells))
    BY <1>2, <1>3, <1>4, GeometryWritten
  <1>6. geomEncodeWKT(g) = x.text
    BY <1>5, WrittenParts DEF geomEncodeWKT
  <1>7. g # NoValue
    BY <1>2 DEF NoValue
  <1> QED BY <1>2, <1>5, <1>6, <1>7 DEF g

\* The field holds a geometry or nothing, unless its text was stored unread, and nothing is left
\* behind.
Holds ==
    /\ text \in Texts
    /\ heap = 0
    /\ IF Verified THEN value = NoValue \/ Geometry(value) ELSE value \in Seq(Int)

\* What is stored unread is the text as it is.
LEMMA TextCopied ==
    ASSUME NEW t, t.format = "wkb"
    PROVE  /\ geomDecode(t).err = "none" /\ geomDecode(t).heap = 1
           /\ geomDecode(t).g = t.cells
  <1> DEFINE o == geomDecode(t)
  <1>1. o = geomDecodeWKB(t.cells)
    BY DEF geomDecode
  <1>2. o = [err |-> "none", g |-> t.cells, read |-> Len(t.cells), heap |-> 1]
    BY <1>1, Zenon DEF geomDecodeWKB, Outcome
  <1> HIDE DEF o
  <1>3. o.err = "none" /\ o.heap = 1 /\ o.g = t.cells
    BY <1>2
  <1> QED BY <1>3 DEF o

\* At first the field holds nothing.
LEMMA HoldsInit == Init => Holds
  <1>1. NoValue \in Seq(Int)
    BY DEF NoValue
  <1> QED BY <1>1 DEF Init, Holds

\* Every command leaves a geometry in the field, or nothing, or what it was given unread.
LEMMA HoldsNext == Holds /\ [Next]_vars => Holds'
  <1> SUFFICES ASSUME Holds, [Next]_vars PROVE Holds'
    OBVIOUS
  <1>0. /\ text \in Texts /\ heap = 0
        /\ Verified => value = NoValue \/ Geometry(value)
        /\ ~Verified => value \in Seq(Int)
    BY DEF Holds
  <1>a. ASSUME text' = text, heap' = heap, value' = value PROVE Holds'
    <2>1. Verified' = Verified
      BY <1>a DEF Verified
    <2> QED BY <1>0, <1>a, <2>1 DEF Holds, Geometry
  <1>1. CASE GisAdd /\ Verified
    <2> DEFINE o == geomDecode(text)
    <2>1. Read(o)
      BY <1>0, <1>1, TextRead DEF Verified
    <2>2. text' = text /\ Verified'
      BY <1>1 DEF GisAdd, Verified
    <2>3. CASE o.err = "none"
      <3>1. value' = o.g /\ heap' = heap + o.heap - 1
        BY <1>1, <2>3 DEF GisAdd
      <3> HIDE DEF o
      <3> QED BY <1>0, <2>1, <2>2, <2>3, <3>1 DEF Read, Holds, Geometry
    <2>4. CASE o.err # "none"
      <3>1. value' = value /\ heap' = heap + o.heap
        BY <1>1, <2>4 DEF GisAdd
      <3> HIDE DEF o
      <3>2. value = NoValue \/ Geometry(value)
        BY <1>0, <1>1
      <3> QED BY <1>0, <2>1, <2>2, <2>4, <3>1, <3>2 DEF Read, Holds, Geometry
    <2> QED BY <2>3, <2>4
  <1>b. CASE GisAdd /\ ~Verified
    <2> DEFINE o == geomDecode(text)
    <2>1. text' = text /\ ~Verified'
      BY <1>b DEF GisAdd, Verified
    <2>2. text.cells \in Seq(Int)
      BY <1>0, <1>b, TextsAssumption DEF Verified
    <2>3. o.err = "none" /\ o.heap = 1 /\ o.g = text.cells
      BY <1>b, TextCopied DEF Verified
    <2>4. value' = o.g /\ heap' = heap + o.heap - 1
      BY <1>b, <2>3 DEF GisAdd
    <2> HIDE DEF o
    <2> QED BY <1>0, <2>1, <2>2, <2>3, <2>4 DEF Holds
  <1>2. CASE GisGet
    <2>1. text' = text /\ heap' = heap /\ value' = value
      BY <1>2 DEF GisGet
    <2> QED BY <1>a, <2>1
  <1>c. CASE ReadUnverified
    <2>1. text' = text /\ heap' = heap /\ value' = value
      BY <1>c DEF ReadUnverified
    <2> QED BY <1>a, <2>1
  <1>3. CASE Reload
    <2>1. value # NoValue /\ Verified /\ text' = text /\ Verified'
      BY <1>3 DEF Reload, Verified
    <2>2. Geometry(value)
      BY <1>0, <2>1
    <2>3. geomEncodeWKT(value) \in Seq(Tokens)
      BY <2>2, WholeWritten DEF Geometry
    <2> DEFINE words == geomEncodeWKT(value)
               o == geomDecode(WktText(words))
    <2>4. Read(o)
      <3> HIDE DEF words
      <3> QED BY <2>3, WktRead DEF words
    <2>5. /\ value' = IF o.err = "none" THEN o.g ELSE NoValue
          /\ heap' = heap + o.heap - (IF o.err = "none" THEN 1 ELSE 0)
      BY <1>3 DEF Reload
    <2> HIDE DEF o
    <2> QED BY <1>0, <2>1, <2>4, <2>5 DEF Read, Holds, Geometry
  <1>4. CASE GisDel
    <2>1. text' = text
      BY <1>4 DEF GisDel
    <2> DEFINE o == geomDecode(StoredText(value))
    <2>2. o.err = "none" /\ o.heap = 1
      <3>1. StoredText(value).format = "wkb"
        BY Zenon DEF StoredText
      <3> QED BY <3>1, TextCopied
    <2>3. /\ value' = IF o.err = "none" THEN NoValue ELSE value
          /\ heap' = heap + o.heap - (IF o.err = "none" THEN 1 ELSE 0)
      BY <1>4 DEF GisDel
    <2> HIDE DEF o
    <2>4. NoValue \in Seq(Int)
      BY DEF NoValue
    <2> QED BY <1>0, <2>1, <2>2, <2>3, <2>4 DEF Holds
  <1>5. CASE UNCHANGED vars
    <2>1. text' = text /\ heap' = heap /\ value' = value
      BY <1>5 DEF vars
    <2> QED BY <1>a, <2>1
  <1> QED BY <1>1, <1>b, <1>2, <1>c, <1>3, <1>4, <1>5 DEF Next

\* The field of a key always holds one whole geometry or nothing, unless its text was stored unread.
THEOREM HoldsAlways == Spec => []Holds
  BY HoldsInit, HoldsNext, PTL DEF Spec

\* Commands leave no blocks behind, whatever their texts, unread ones included (geom.c, geom_json.c).
THEOREM NoBlockLeft == Spec => []NothingLeaks
  <1>1. Holds => NothingLeaks
    BY DEF Holds, NothingLeaks
  <1> QED BY <1>1, HoldsAlways, PTL

\* What a field holds is as long as the counts in it say, for every text that is WKT or GeoJSON by
\* its first byte, well formed or not (geom.c, geom_json.c); of a binary one nothing is said.
THEOREM CodecTypeCorrect == Spec => []TypeOK
  <1>1. Holds => TypeOK
    <2> SUFFICES ASSUME Holds PROVE TypeOK
      OBVIOUS
    <2>1. heap \in Nat
      BY DEF Holds
    <2>2. CASE value = NoValue
      BY <2>1, <2>2 DEF TypeOK, NoValue
    <2>4. CASE ~Verified
      BY <2>1, <2>4 DEF TypeOK, Holds
    <2>3. CASE Geometry(value)
      <3>1. PICK d \in Nat : \E x \in Trees[d] : value = x.cells
        BY <2>3 DEF Geometry
      <3>2. PICK x \in Trees[d] : value = x.cells
        BY <3>1
      <3>3. x.cells \in Seq(Int) /\ geomEncodeWKTInner(x.cells, 1) = Written(x.text, 1 + Len(x.cells))
        BY WholeWritten
      <3>4. geomEncodeWKTInner(value, 1).at = 1 + Len(value)
        BY <3>2, <3>3, WrittenParts
      <3>5. Len(value) \in Nat
        BY <3>2, <3>3
      <3> QED BY <2>1, <3>2, <3>3, <3>4, <3>5 DEF TypeOK
    <2> QED BY <2>2, <2>3, <2>4 DEF Holds
  <1> QED BY <1>1, HoldsAlways, PTL

-----------------------------------------------------------------------------
(***************************************************************************)
(* The iterator of a collection.                                           *)
(***************************************************************************)
\* f goes from where a piece of S stands to where it ends.
Passes(f, S, g) ==
    \A y \in S : \A q \in Nat \ {0} : Stands(y.cells, g, q) => f[q] = q + Len(y.cells)

\* What goes from one piece to the next passes all of them.
LEMMA Passing ==
    ASSUME NEW S, \A y \in S : Shaped(y), NEW els \in Seq(S), NEW g \in Seq(Int), NEW p \in Nat \ {0},
           Stands(FlattenSeq(CellsOf(els)), g, p), NEW step, Passes(step, S, g),
           NEW f, Walks(f, step, p, Len(els))
    PROVE  \A k \in 0 .. Len(els) : f[k] = p + End(CellsOf(els), k)
  <1> DEFINE c == CellsOf(els)
             n == Len(els)
  <1>1. n \in Nat /\ c \in Seq(Seq(Int)) /\ Len(c) = n
        /\ \A i \in 1 .. n : els[i] \in S /\ c[i] = els[i].cells
    BY SeriesParts
  <1>2. f[0] = p /\ \A k \in 1 .. n : f[k] = step[f[k - 1]]
    BY DEF Walks
  <1>3. Stands(FlattenSeq(c), g, p)
    OBVIOUS
  <1> HIDE DEF c, n
  <1>4. /\ \A k \in 0 .. n : End(c, k) \in Nat
        /\ End(c, 0) = 0
        /\ \A k \in 1 .. n : End(c, k) = End(c, k - 1) + Len(c[k])
    BY <1>1, FlattenLayout
  <1> DEFINE P == {k \in 0 .. n : f[k] = p + End(c, k)}
  <1>5. 0 \in P
    BY <1>1, <1>2, <1>4
  <1>6. ASSUME NEW k \in 0 .. n - 1, k \in P PROVE k + 1 \in P
    <2> DEFINE j == k + 1
    <2>1. j \in 1 .. n /\ j - 1 = k /\ j \in 0 .. n /\ k \in 0 .. n
      BY <1>1
    <2> HIDE DEF j
    <2>2. f[k] = p + End(c, k)
      BY <1>6
    <2>3. Stands(c[j], g, p + End(c, k))
      <3>1. Stands(c[j], g, p + End(c, j - 1))
        BY <1>1, <1>3, <2>1, StandsFlat
      <3> QED BY <2>1, <3>1
    <2>4. els[j] \in S /\ c[j] = els[j].cells
      BY <1>1, <2>1
    <2> DEFINE q == p + End(c, k)
    <2>5. q \in Nat \ {0}
      BY <1>4, <2>1
    <2>6. f[j] = step[q]
      BY <1>2, <2>1, <2>2
    <2>7. Stands(els[j].cells, g, q)
      BY <2>3, <2>4
    <2> HIDE DEF q
    <2>8. step[q] = q + Len(els[j].cells)
      BY <2>4, <2>5, <2>7, Zenon DEF Passes
    <2>9. End(c, j) = End(c, k) + Len(c[j]) /\ End(c, k) \in Nat
      BY <1>4, <2>1
    <2>10. c[j] \in Seq(Int)
      BY <1>1, <2>1
    <2>11. Len(c[j]) \in Nat
      BY <2>10
    <2> DEFINE l == Len(c[j])
               e == End(c, k)
    <2>12. f[j] = q + l /\ q = p + e /\ End(c, j) = e + l /\ l \in Nat /\ e \in Nat
      BY <2>4, <2>6, <2>8, <2>9, <2>11 DEF q
    <2> HIDE DEF l, e
    <2>13. f[j] = p + End(c, j)
      BY <2>12
    <2>14. j \in P
      BY <2>1, <2>13
    <2> QED BY <2>14 DEF j
  <1>7. 0 .. n \subseteq P
    <2> HIDE DEF P
    <2> QED BY <1>1, <1>5, <1>6, UpTo
  <1> QED BY <1>7 DEF c, n

\* So it does when it is taken as often as there are pieces.
LEMMA PassedAll ==
    ASSUME NEW S, \A y \in S : Shaped(y), NEW els \in Seq(S), NEW g \in Seq(Int), NEW p \in Nat \ {0},
           Stands(FlattenSeq(CellsOf(els)), g, p), NEW step, Passes(step, S, g)
    PROVE  Iterated(step, p, Len(els)) = p + Len(FlattenSeq(CellsOf(els)))
  <1> DEFINE n == Len(els)
             c == CellsOf(els)
  <1>1. n \in Nat /\ c \in Seq(Seq(Int)) /\ Len(c) = n
    BY SeriesParts
  <1>2. PICK f : StepRun(f, step, p, n)
    <2> HIDE DEF n
    <2> QED BY <1>1, StepRuns
  <1>3. \A k \in 0 .. n : f[k] = p + End(c, k)
    BY <1>2, Passing DEF StepRun
  <1>4. End(c, n) = Len(FlattenSeq(c))
    BY <1>1, FlattenLayout
  <1> HIDE DEF n, c
  <1>5. n \in 0 .. n
    BY <1>1
  <1>6. Iterated(step, p, n) = p + Len(FlattenSeq(c))
    BY <1>2, <1>3, <1>4, <1>5 DEF StepRun
  <1> QED BY <1>6 DEF n, c

\* The count of a series stands where it begins, and its elements behind it.
LEMMA CountStands ==
    ASSUME NEW n \in Nat, NEW rest \in Seq(Int), NEW g \in Seq(Int), NEW q \in Nat \ {0},
           Stands(<<n>> \o rest, g, q)
    PROVE  CountAt(g, q) = n /\ Stands(rest, g, q + 1)
  <1> DEFINE one == <<n>>
  <1>1. one \in Seq(Int) /\ Len(one) = 1 /\ one[1] = n
    OBVIOUS
  <1>2. Stands(one \o rest, g, q)
    OBVIOUS
  <1>3. q \in Nat
    OBVIOUS
  <1> HIDE DEF one
  <1>4. Stands(one, g, q) /\ Stands(rest, g, q + Len(one))
    BY <1>1, <1>2, <1>3, StandsBoth
  <1>5. g[q + 1 - 1] = one[1]
    BY <1>1, <1>4 DEF Stands
  <1>6. q + 1 - 1 = q
    BY <1>3
  <1> QED BY <1>1, <1>4, <1>5, <1>6 DEF CountAt

\* Coordinates of n numbers are as many cells as n times their number.
LEMMA CoordinatesLength ==
    ASSUME NEW n \in Nat, NEW els \in Seq(Coordinates(n))
    PROVE  Len(FlattenSeq(CellsOf(els))) = Len(els) * n
  <1> DEFINE c == CellsOf(els)
             S == Coordinates(n)
  <1>1. \A y \in S : Shaped(y) /\ Len(y.cells) = n
    <2> SUFFICES ASSUME NEW y \in Coordinates(n) PROVE Shaped(y) /\ Len(y.cells) = n
      OBVIOUS
    <2>1. PICK s \in [1 .. n -> Digit] : y = CoordinatePiece(s)
      BY Zenon DEF Coordinates
    <2> QED BY ZenonT(30), <2>1, CoordinateShape
  <1>2. els \in Seq(S)
    OBVIOUS
  <1> HIDE DEF S
  <1>3. c \in Seq(Seq(Int)) /\ Len(c) = Len(els) /\ \A i \in 1 .. Len(els) : els[i] \in S /\ c[i] = els[i].cells
    BY <1>1, <1>2, SeriesParts
  <1>4. \A i \in 1 .. Len(c) : Len(c[i]) = n
    BY <1>1, <1>3
  <1> HIDE DEF c
  <1>5. Len(FlattenSeq(c)) = Len(c) * n
    BY <1>3, <1>4, FlattenUniform
  <1> QED BY <1>3, <1>5 DEF c

\* A series is skipped by its counts.
LEMMA SeriesSkipped ==
    ASSUME NEW n \in Nat, NEW g \in Seq(Int), NEW level \in 0 .. 2
    PROVE  \A y \in Elements(level + 1, n) : \A q \in Nat \ {0} :
               Stands(y.cells, g, q) => AfterSeries(g, q, level, n) = q + Len(y.cells)
  <1>0. PICK f : SkipRun(f, g, n)
    BY SkipRuns
  <1>1. /\ \A at, l : AfterSeries(g, at, l, n) = f[l][at]
        /\ \A p \in Nat : f[0][p] = p + 1 + n * CountAt(g, p)
        /\ \A l \in Nat : \A p \in Nat : f[l + 1][p] = Iterated(f[l], p + 1, CountAt(g, p))
    BY <1>0 DEF SkipRun
  <1> DEFINE P(l) == Passes(f[l], Elements(l + 1, n), g)
  <1>2. ASSUME NEW l \in 0 .. 2, NEW y \in Elements(l + 1, n), NEW q \in Nat \ {0}, Stands(y.cells, g, q)
        PROVE  \E els \in Seq(Elements(l, n)) :
                   /\ Len(y.cells) = 1 + Len(FlattenSeq(CellsOf(els)))
                   /\ CountAt(g, q) = Len(els) /\ Len(els) \in Nat
                   /\ Stands(FlattenSeq(CellsOf(els)), g, q + 1)
                   /\ FlattenSeq(CellsOf(els)) \in Seq(Int)
    <2> DEFINE S == Elements(l, n)
    <2>1. y \in SeriesOf(S)
      BY ElementsBelow
    <2>2. \A x \in S : Shaped(x)
      <3>1. l \in 0 .. 3
        OBVIOUS
      <3> QED BY <3>1, ElementShape
    <2> HIDE DEF S
    <2>3. PICK els \in Seq(S) : y = SeriesPiece(els)
      BY <2>1 DEF SeriesOf
    <2>4. y.cells = <<Len(els)>> \o FlattenSeq(CellsOf(els)) /\ Len(y.cells) = 1 + Len(FlattenSeq(CellsOf(els)))
      BY <2>2, <2>3, SeriesShape
    <2>5. Len(els) \in Nat /\ FlattenSeq(CellsOf(els)) \in Seq(Int)
      BY <2>2, SeriesParts
    <2>6. Stands(<<Len(els)>> \o FlattenSeq(CellsOf(els)), g, q)
      BY <1>2, <2>4
    <2> DEFINE m == Len(els)
               rest == FlattenSeq(CellsOf(els))
    <2>7. m \in Nat /\ rest \in Seq(Int) /\ Stands(<<m>> \o rest, g, q)
      BY <2>5, <2>6
    <2> HIDE DEF m, rest
    <2>8. CountAt(g, q) = m /\ Stands(rest, g, q + 1)
      BY <2>7, CountStands
    <2>9. CountAt(g, q) = Len(els) /\ Stands(FlattenSeq(CellsOf(els)), g, q + 1)
      BY <2>8 DEF m, rest
    <2> QED BY <2>4, <2>5, <2>9 DEF S
  <1>3. P(0)
    <2> SUFFICES ASSUME NEW y \in Elements(0 + 1, n), NEW q \in Nat \ {0}, Stands(y.cells, g, q)
                 PROVE  f[0][q] = q + Len(y.cells)
      BY DEF Passes
    <2>1. PICK els \in Seq(Elements(0, n)) :
                   /\ Len(y.cells) = 1 + Len(FlattenSeq(CellsOf(els)))
                   /\ CountAt(g, q) = Len(els) /\ Len(els) \in Nat
      BY <1>2
    <2>2. Elements(0, n) = Coordinates(n)
      BY ElementsBelow
    <2>3. Len(FlattenSeq(CellsOf(els))) = Len(els) * n
      BY <2>2, CoordinatesLength
    <2>4. f[0][q] = q + 1 + n * Len(els)
      BY <1>1, <2>1
    <2> DEFINE a == Len(els)
               b == Len(FlattenSeq(CellsOf(els)))
    <2>5. a \in Nat /\ b = a * n /\ f[0][q] = q + 1 + n * a /\ Len(y.cells) = 1 + b
      BY <2>1, <2>3, <2>4
    <2> HIDE DEF a, b
    <2>6. a * n = n * a /\ n * a \in Nat
      BY <2>5
    <2> QED BY <2>5, <2>6
  <1>4. ASSUME NEW l \in 0 .. 1, P(l) PROVE P(l + 1)
    <2> DEFINE k == l + 1
    <2>0. k \in 0 .. 2 /\ l \in Nat /\ k \in 0 .. 3
      OBVIOUS
    <2> HIDE DEF k
    <2> SUFFICES ASSUME NEW y \in Elements(k + 1, n), NEW q \in Nat \ {0}, Stands(y.cells, g, q)
                 PROVE  f[k][q] = q + Len(y.cells)
      BY DEF Passes, k
    <2>1. PICK els \in Seq(Elements(k, n)) :
                   /\ Len(y.cells) = 1 + Len(FlattenSeq(CellsOf(els)))
                   /\ CountAt(g, q) = Len(els) /\ Len(els) \in Nat
                   /\ Stands(FlattenSeq(CellsOf(els)), g, q + 1)
                   /\ FlattenSeq(CellsOf(els)) \in Seq(Int)
      BY <1>2, <2>0
    <2> DEFINE S == Elements(k, n)
               r == q + 1
    <2>2. \A x \in S : Shaped(x)
      BY <2>0, ElementShape
    <2>3. Passes(f[l], S, g)
      BY <1>4 DEF k
    <2>4. els \in Seq(S) /\ Stands(FlattenSeq(CellsOf(els)), g, r) /\ r \in Nat \ {0}
      BY <2>1
    <2> HIDE DEF S, r
    <2>5. Iterated(f[l], r, Len(els)) = r + Len(FlattenSeq(CellsOf(els)))
      BY <2>2, <2>3, <2>4, PassedAll
    <2>6. f[k][q] = Iterated(f[l], q + 1, CountAt(g, q))
      <3>1. q \in Nat
        OBVIOUS
      <3>2. f[l + 1][q] = Iterated(f[l], q + 1, CountAt(g, q))
        BY <1>1, <2>0, <3>1, Zenon
      <3> QED BY <3>2 DEF k
    <2>7. f[k][q] = r + Len(FlattenSeq(CellsOf(els)))
      BY <2>1, <2>5, <2>6, Zenon DEF r
    <2> DEFINE b == Len(FlattenSeq(CellsOf(els)))
    <2>8. b \in Nat /\ f[k][q] = r + b /\ Len(y.cells) = 1 + b
      BY <2>1, <2>7
    <2> HIDE DEF b
    <2> QED BY <2>8 DEF r
  <1> HIDE DEF P
  <1>5. P(1) /\ P(2)
    <2>1. P(0 + 1)
      BY <1>3, <1>4
    <2>2. P(1)
      BY <2>1
    <2>3. P(1 + 1)
      BY <2>2, <1>4
    <2> QED BY <2>2, <2>3
  <1>6. P(level)
    <2>1. level = 0 \/ level = 1 \/ level = 2
      OBVIOUS
    <2> QED BY <2>1, <1>3, <1>5
  <1> QED BY <1>1, <1>6, Zenon DEF P, Passes

\* Where a leaf stands, its head is read and its body stands behind it.
LEMMA LeafStands ==
    ASSUME NEW h \in LeafHeads, NEW body \in Bodies(h), NEW g \in Seq(Int), NEW q \in Nat \ {0},
           Stands(HeadCells(h) \o body.cells, g, q)
    PROVE  /\ readhdr(g, q) = h /\ h.type # "GEOMETRYCOLLECTION"
           /\ h.type = "POINT" => Dims(h) = Len(body.cells)
           /\ h.type # "POINT" => AfterSeries(g, q + 2, Level(h.type), Dims(h)) = q + 2 + Len(body.cells)
           /\ Len(body.cells) \in Nat
  <1>0. h \in Heads /\ h.type # "GEOMETRYCOLLECTION" /\ h.type \in TypeNames
    BY HeadParts DEF LeafHeads
  <1>1. /\ Shaped(body)
        /\ h.type = "POINT" => body \in Coordinates(Dims(h))
        /\ h.type # "POINT" => body \in Elements(Level(h.type) + 1, Dims(h))
    BY BodyShape
  <1>2. body.cells \in Seq(Int) /\ Len(body.cells) \in Nat
    BY <1>1 DEF Shaped
  <1>3. readhdr(g, q) = h /\ Stands(body.cells, g, q + 2)
    BY <1>0, <1>2, HeadStands
  <1>4. Dims(h) \in Nat
    BY <1>0, HeadDims
  <1>5. CASE h.type = "POINT"
    <2>1. body \in Coordinates(Dims(h))
      BY <1>1, <1>5
    <2>2. PICK s \in [1 .. Dims(h) -> Digit] : body = CoordinatePiece(s)
      BY <2>1, Zenon DEF Coordinates
    <2>3. Len(body.cells) = Dims(h)
      BY ZenonT(30), <2>2, <1>4, CoordinateShape
    <2> QED BY <1>0, <1>2, <1>3, <1>5, <2>3
  <1>6. CASE h.type # "POINT"
    <2> DEFINE l == Level(h.type)
               p == q + 2
    <2>1. l \in 0 .. 2 /\ body \in Elements(l + 1, Dims(h))
      BY <1>0, <1>1, <1>6, Levels
    <2>2. p \in Nat \ {0} /\ Stands(body.cells, g, p)
      BY <1>3
    <2> HIDE DEF l, p
    <2>3. AfterSeries(g, p, l, Dims(h)) = p + Len(body.cells)
      BY <1>4, <2>1, <2>2, SeriesSkipped
    <2> QED BY <1>0, <1>2, <1>3, <1>6, <2>3 DEF l, p
  <1> QED BY <1>5, <1>6

\* Where a collection stands, its head and its count are read and its members stand behind.
LEMMA CollectionStands ==
    ASSUME NEW S, \A y \in S : Form(y), NEW members \in Seq(S), NEW h \in CollectionHeads,
           NEW x, x = Collection(h, members), NEW g \in Seq(Int), NEW q \in Nat \ {0},
           Stands(x.cells, g, q)
    PROVE  /\ readhdr(g, q) = h /\ h.type = "GEOMETRYCOLLECTION"
           /\ CountAt(g, q + 2) = Len(members) /\ Len(members) \in Nat
           /\ Stands(FlattenSeq(CellsOf(members)), g, q + 3)
           /\ Len(x.cells) = 3 + Len(FlattenSeq(CellsOf(members)))
           /\ FlattenSeq(CellsOf(members)) \in Seq(Int)
           /\ IsCollection(x, h, members)
  <1>0. h \in Heads /\ h.type = "GEOMETRYCOLLECTION"
    BY DEF CollectionHeads
  <1> DEFINE n == Len(members)
             flat == FlattenSeq(CellsOf(members))
             rest == <<n>> \o flat
  <1>1. IsCollection(x, h, members)
    BY CollectionShape
  <1>2. x.cells = HeadCells(h) \o rest /\ Len(x.cells) = 3 + Len(flat)
    BY <1>1 DEF IsCollection
  <1>3. \A y \in S : Shaped(y)
    BY MemberParts
  <1>4. n \in Nat /\ flat \in Seq(Int)
    BY <1>3, SeriesParts
  <1>5. rest \in Seq(Int)
    BY <1>4, Counted
  <1>6. readhdr(g, q) = h /\ Stands(rest, g, q + 2)
    <2> HIDE DEF rest
    <2> QED BY <1>0, <1>2, <1>5, HeadStands
  <1> HIDE DEF n, flat
  <1> DEFINE p == q + 2
  <1>7. p \in Nat \ {0} /\ Stands(rest, g, p) /\ p + 1 = q + 3
    BY <1>6
  <1> HIDE DEF p
  <1>8. CountAt(g, p) = n /\ Stands(flat, g, p + 1)
    BY <1>4, <1>7, CountStands
  <1> QED BY <1>0, <1>1, <1>2, <1>4, <1>6, <1>7, <1>8 DEF n, flat, p

\* The iterator of a collection begins behind its count, and ends where what it takes the
\* steps with has passed all members.
LEMMA Exhausting ==
    ASSUME NEW g, NEW p, NEW next
    PROVE  /\ Exhausted(next, geomGeometryCollectionIterator(g, p)) = Iterated(next, p + 3, CountAt(g, p + 2))
           /\ geomGeometryCollectionIterator(g, p).ptr = p + 3
  BY Zenon DEF Exhausted, geomGeometryCollectionIterator

\* A geometry that stands in g is not nested deeper than g has cells.
LEMMA StandingDepth ==
    ASSUME NEW d \in Nat, NEW x \in Trees[d], NEW g \in Seq(Int), NEW q \in Nat \ {0}, Stands(x.cells, g, q)
    PROVE  Len(g) \in Nat /\ x \in Trees[Len(g)]
  <1>1. Len(g) \in Nat /\ Len(x.cells) \in Nat /\ Len(x.cells) <= Len(g)
    <2>1. x.cells \in Seq(Int)
      BY TreeForm DEF Form, Shaped
    <2> QED BY <2>1 DEF Stands
  <1>2. x \in Trees[Len(x.cells)]
    BY TreeDepth
  <1> QED BY <1>1, <1>2, TreesMonotonic

\* A geometry is skipped, whatever is in it.
LEMMA GeometrySkipped ==
    ASSUME NEW d \in Nat, NEW g \in Seq(Int)
    PROVE  \A x \in Trees[d] : \A q \in Nat \ {0} :
               Stands(x.cells, g, q) => GeometryEnd(g, q) = q + Len(x.cells)
  <1>1. PICK f : EndRun(f, g)
    BY EndRuns
  <1> DEFINE U == {k \in Nat : Passes(f[k], Trees[k], g)}
  <1>2. 0 \in U
    BY TreesUnfolded DEF Passes
  <1>3. ASSUME NEW k \in Nat, k \in U PROVE k + 1 \in U
    <2> DEFINE j == k + 1
    <2>0. j \in Nat
      OBVIOUS
    <2>1. \A y \in Trees[k] : Form(y)
      BY TreeForm
    <2>2. Passes(f[k], Trees[k], g)
      BY <1>3
    <2>3. ASSUME NEW x \in Trees[k + 1], NEW q \in Nat \ {0}, Stands(x.cells, g, q)
          PROVE  f[k + 1][q] = q + Len(x.cells)
      <3>0. q \in Nat
        OBVIOUS
      <3>2. ASSUME \E h \in LeafHeads : \E body \in Bodies(h) : x = Leaf(h, body)
            PROVE  f[k + 1][q] = q + Len(x.cells)
        <4>1. PICK h \in LeafHeads : \E body \in Bodies(h) : x = Leaf(h, body)
          BY <3>2
        <4>2. PICK body \in Bodies(h) : x = Leaf(h, body)
          BY <4>1
        <4> DEFINE piece == LeafPiece(h, body)
        <4>3. piece = LeafPiece(h, body)
          OBVIOUS
        <4> HIDE DEF piece
        <4>4. IsLeaf(piece, h, body) /\ x.cells = piece.cells
          BY <4>2, <4>3, LeafForm
        <4>5. Len(piece.cells) = 2 + Len(body.cells)
          BY <4>3, LeafShape
        <4>6. x.cells = HeadCells(h) \o body.cells
          BY <4>4, Zenon DEF IsLeaf
        <4>7. Stands(HeadCells(h) \o body.cells, g, q)
          BY <2>3, <4>6, Zenon
        <4>8. /\ readhdr(g, q) = h /\ h.type # "GEOMETRYCOLLECTION"
              /\ h.type = "POINT" => Dims(h) = Len(body.cells)
              /\ h.type # "POINT" => AfterSeries(g, q + 2, Level(h.type), Dims(h)) = q + 2 + Len(body.cells)
              /\ Len(body.cells) \in Nat
          BY <4>7, LeafStands
        <4>9. Len(x.cells) = 2 + Len(body.cells)
          BY <4>4, <4>5, Zenon
        <4>10. /\ h.type = "POINT" => f[j][q] = q + 2 + Dims(h)
               /\ h.type # "POINT" => f[j][q] = AfterSeries(g, q + 2, Level(h.type), Dims(h))
          <5> HIDE DEF j
          <5> QED BY <1>1, <2>0, <3>0, <4>8 DEF EndRun
        <4> DEFINE l == Len(body.cells)
                   m == Len(x.cells)
        <4>11. f[j][q] = q + 2 + l
          <5> HIDE DEF j
          <5> QED BY <4>8, <4>10
        <4>12. l \in Nat /\ m = 2 + l
          BY <4>8, <4>9
        <4> HIDE DEF l, m, j
        <4>13. f[j][q] = q + m
          BY <4>11, <4>12
        <4> QED BY <4>13 DEF j, m
      <3>3. ASSUME \E h \in CollectionHeads : \E members \in Seq(Trees[k]) : x = Collection(h, members)
            PROVE  f[k + 1][q] = q + Len(x.cells)
        <4>1. PICK h \in CollectionHeads : \E members \in Seq(Trees[k]) : x = Collection(h, members)
          BY <3>3
        <4>2. PICK members \in Seq(Trees[k]) : x = Collection(h, members)
          BY <4>1
        <4> DEFINE S == Trees[k]
                   p == q + 3
                   flat == FlattenSeq(CellsOf(members))
        <4>3. /\ \A y \in S : Form(y)
              /\ members \in Seq(S) /\ Passes(f[k], S, g) /\ Stands(x.cells, g, q)
          BY <2>1, <2>2, <2>3
        <4> HIDE DEF S
        <4>4. /\ readhdr(g, q) = h /\ h.type = "GEOMETRYCOLLECTION"
              /\ CountAt(g, q + 2) = Len(members) /\ Stands(flat, g, p)
              /\ Len(x.cells) = 3 + Len(flat) /\ flat \in Seq(Int)
          BY SMTT(30), <4>2, <4>3, CollectionStands
        <4>5. \A y \in S : Shaped(y)
          BY <4>3, MemberParts
        <4>6. p \in Nat \ {0}
          OBVIOUS
        <4>7. Stands(FlattenSeq(CellsOf(members)), g, p)
          BY <4>4
        <4> HIDE DEF flat
        <4>8. Iterated(f[k], p, Len(members)) = p + Len(flat)
          <5> HIDE DEF p
          <5> QED BY <4>3, <4>5, <4>6, <4>7, PassedAll DEF flat
        <4>9. f[k + 1][q] = Exhausted(f[k], geomGeometryCollectionIterator(g, q))
          BY <1>1, <3>0, <4>4 DEF EndRun
        <4>10. Exhausted(f[k], geomGeometryCollectionIterator(g, q)) = Iterated(f[k], p, Len(members))
          BY <4>4, Exhausting
        <4>11. f[k + 1][q] = p + Len(flat)
          BY <4>8, <4>9, <4>10, Zenon
        <4> DEFINE l == Len(flat)
        <4>12. l \in Nat /\ Len(x.cells) = 3 + l /\ f[k + 1][q] = q + 3 + l
          BY <4>4, <4>11
        <4> HIDE DEF l
        <4> QED BY <4>12
      <3> QED BY <3>2, <3>3, TreeCases
    <2>4. Passes(f[k + 1], Trees[k + 1], g)
      BY <2>3 DEF Passes
    <2> QED BY <2>4
  <1>4. Nat \subseteq U
    <2> HIDE DEF U
    <2> QED BY <1>2, <1>3, NatSubset
  <1> SUFFICES ASSUME NEW x \in Trees[d], NEW q \in Nat \ {0}, Stands(x.cells, g, q)
               PROVE  GeometryEnd(g, q) = q + Len(x.cells)
    OBVIOUS
  <1>5. Len(g) \in Nat /\ x \in Trees[Len(g)]
    BY StandingDepth
  <1>6. Passes(f[Len(g)], Trees[Len(g)], g)
    BY <1>4, <1>5
  <1>7. f[Len(g)][q] = q + Len(x.cells)
    BY <1>5, <1>6, Zenon DEF Passes
  <1>8. GeometryEnd(g, q) = f[Len(g)][q]
    BY <1>1, Zenon DEF EndRun
  <1> QED BY <1>7, <1>8, Zenon

-----------------------------------------------------------------------------
(***************************************************************************)
(* The flattened array of a collection.                                    *)
(***************************************************************************)
\* The next geometry of a collection is where the iterator stands, which goes behind it.
LEMMA IteratorNext ==
    ASSUME NEW g, NEW itr
    PROVE  geomIteratorNext(g, itr).geom = itr.ptr /\ geomIteratorNext(g, itr).ptr = GeometryEnd(g, itr.ptr)
  BY Zenon DEF geomIteratorNext

\* The iterator gives each member where it stands.
LEMMA MembersStand ==
    ASSUME NEW d \in Nat, NEW members \in Seq(Trees[d]), NEW h \in CollectionHeads,
           NEW x, x = Collection(h, members), NEW g \in Seq(Int), NEW q \in Nat \ {0},
           Stands(x.cells, g, q)
    PROVE  MembersAt(g, q) = [i \in 1 .. Len(members) |-> q + 3 + End(CellsOf(members), i - 1)]
  <1> DEFINE S == Trees[d]
             n == Len(members)
             p == q + 3
             c == CellsOf(members)
  <1>1. \A y \in S : Form(y)
    BY TreeForm
  <1>2. \A y \in S : Shaped(y)
    BY <1>1 DEF Form
  <1>3. \A y \in S : \A r \in Nat \ {0} : Stands(y.cells, g, r) => GeometryEnd(g, r) = r + Len(y.cells)
    BY GeometrySkipped
  <1>4. members \in Seq(S)
    OBVIOUS
  <1>5. p \in Nat \ {0}
    OBVIOUS
  <1> HIDE DEF S
  <1>6. CountAt(g, q + 2) = n /\ n \in Nat /\ Stands(FlattenSeq(CellsOf(members)), g, q + 3)
    BY <1>1, <1>4, CollectionStands
  <1>7. PICK f : MembersRun(f, g, q)
    BY <1>6, MembersRuns
  <1>8. PICK e : EndRun(e, g)
    BY EndRuns
  <1> DEFINE step == e[Len(g)]
             r == [k \in 0 .. n |-> f[k].ptr]
  <1>9. \A at : GeometryEnd(g, at) = step[at]
    BY <1>8 DEF EndRun
  <1> HIDE DEF step
  <1>10. Passes(step, S, g)
    BY <1>3, <1>9 DEF Passes
  <1>11. f[0].ptr = p
    BY <1>7, Exhausting DEF MembersRun
  <1>12. \A k \in 1 .. n : f[k].geom = f[k - 1].ptr /\ f[k].ptr = step[f[k - 1].ptr]
    <2> SUFFICES ASSUME NEW k \in 1 .. n PROVE f[k].geom = f[k - 1].ptr /\ f[k].ptr = step[f[k - 1].ptr]
      OBVIOUS
    <2>1. f[k] = geomIteratorNext(g, f[k - 1])
      BY <1>6, <1>7 DEF MembersRun
    <2> QED BY <1>9, <2>1, IteratorNext
  <1>13. r[0] = p /\ \A k \in 1 .. n : r[k] = step[r[k - 1]] /\ f[k].geom = r[k - 1]
    <2>1. 0 \in 0 .. n /\ \A k \in 1 .. n : k \in 0 .. n /\ k - 1 \in 0 .. n
      BY <1>6
    <2>2. \A k \in 0 .. n : r[k] = f[k].ptr
      OBVIOUS
    <2> HIDE DEF r
    <2> QED BY <1>11, <1>12, <2>1, <2>2
  <1> HIDE DEF r
  <1>14. \A k \in 0 .. n : r[k] = p + End(c, k)
    <2>1. Stands(FlattenSeq(CellsOf(members)), g, p)
      BY <1>6
    <2>2. Walks(r, step, p, Len(members))
      BY <1>13 DEF Walks
    <2> HIDE DEF p
    <2>3. \A k \in 0 .. Len(members) : r[k] = p + End(CellsOf(members), k)
      BY <1>2, <1>4, <1>5, <1>10, <2>1, <2>2, Passing
    <2> QED BY <2>3
  <1>15. \A k \in 1 .. n : f[k].geom = p + End(c, k - 1)
    <2>1. \A k \in 1 .. n : k - 1 \in 0 .. n
      BY <1>6
    <2> QED BY <1>13, <1>14, <2>1
  <1>16. MembersAt(g, q) = [k \in 1 .. n |-> f[k].geom]
    BY <1>6, <1>7 DEF MembersRun
  <1> HIDE DEF p, c, n
  <1>17. [k \in 1 .. n |-> f[k].geom] = [i \in 1 .. n |-> p + End(c, i - 1)]
    BY <1>15
  <1> QED BY <1>16, <1>17, Zenon DEF p, c, n

\* The array has the places of the leaves, one after the other.
Locates(array, leaves, g) ==
    /\ array \in Seq(Nat \ {0})
    /\ Len(array) = Len(leaves)
    /\ \A n \in 1 .. Len(leaves) : Stands(leaves[n].cells, g, array[n])

\* a gives the arrays of the geometries of S.
Finds(a, S, g) ==
    \A y \in S : \A q \in Nat \ {0} : Stands(y.cells, g, q) => Locates(a[q], y.leaves, g)

\* The arrays of the members are put together as their leaves are.
LEMMA GatheredLeaves ==
    ASSUME NEW s \in Seq(Seq(LeafPieces)), NEW t, NEW g, NEW n \in Nat, Len(s) = n,
           t = [i \in 1 .. n |-> t[i]], \A i \in 1 .. n : Locates(t[i], s[i], g)
    PROVE  Locates(FlattenSeq(t), FlattenSeq(s), g)
  <1> DEFINE T == Nat \ {0}
  <1>1. \A i \in 1 .. n : /\ t[i] \in Seq(T) /\ Len(t[i]) = Len(s[i])
                          /\ \A j \in 1 .. Len(s[i]) : Stands(s[i][j].cells, g, t[i][j])
    BY DEF Locates
  <1> HIDE DEF T
  <1>2. t \in Seq(Seq(T)) /\ Len(t) = n
    <2> DEFINE M == Seq(T)
    <2>0. \A i \in 1 .. n : t[i] \in M
      BY <1>1
    <2> HIDE DEF M
    <2>1. [i \in 1 .. n |-> t[i]] \in Seq(M) /\ Len([i \in 1 .. n |-> t[i]]) = n
      <3>1. n \in Nat
        OBVIOUS
      <3> QED BY ONLY <2>0, <3>1
    <2> QED BY <2>1, Zenon DEF M
  <1>3. Len(t) = Len(s) /\ \A i \in 1 .. Len(t) : Len(t[i]) = Len(s[i])
    BY <1>1, <1>2
  <1>4. Len(FlattenSeq(t)) = Len(FlattenSeq(s)) /\ \A i \in 0 .. n : End(t, i) = End(s, i)
    BY ZenonT(30), <1>2, <1>3, SameLayout
  <1>5. FlattenSeq(t) \in Seq(T)
    BY <1>2, FlattenSteps
  <1>6. ASSUME NEW m \in 1 .. Len(FlattenSeq(s)) PROVE Stands(FlattenSeq(s)[m].cells, g, FlattenSeq(t)[m])
    <2>1. PICK i \in 1 .. Len(s) : \E j \in 1 .. Len(s[i]) : m = End(s, i - 1) + j
      BY FlattenPosition
    <2>2. PICK j \in 1 .. Len(s[i]) : m = End(s, i - 1) + j
      BY <2>1
    <2>3. FlattenSeq(s)[m] = s[i][j]
      BY <2>2, FlattenLayout
    <2>4. i \in 1 .. Len(t) /\ j \in 1 .. Len(t[i]) /\ i - 1 \in 0 .. n /\ i \in 1 .. n
      BY <1>2, <1>3
    <2>5. FlattenSeq(t)[End(t, i - 1) + j] = t[i][j]
      BY <1>2, <2>4, FlattenLayout
    <2>6. FlattenSeq(t)[m] = t[i][j]
      BY <1>4, <2>2, <2>4, <2>5
    <2> QED BY <1>1, <2>3, <2>4, <2>6
  <1> QED BY <1>4, <1>5, <1>6 DEF Locates, T

\* The array has the places of all leaves, from left to right.
LEMMA LeavesLocated ==
    ASSUME NEW d \in Nat, NEW g \in Seq(Int)
    PROVE  \A x \in Trees[d] : \A q \in Nat \ {0} :
               Stands(x.cells, g, q) => Locates(geomGeometryCollectionFlattenedArray(g, q), x.leaves, g)
  <1>1. PICK f : ArrayRun(f, g)
    BY ArrayRuns
  <1> DEFINE U == {k \in Nat : Finds(f[k], Trees[k], g)}
  <1>2. 0 \in U
    BY TreesUnfolded DEF Finds
  <1>3. ASSUME NEW k \in Nat, k \in U PROVE k + 1 \in U
    <2> DEFINE j == k + 1
    <2>0. j \in Nat
      OBVIOUS
    <2>1. \A y \in Trees[k] : Form(y)
      BY TreeForm
    <2>2. Finds(f[k], Trees[k], g)
      BY <1>3
    <2>3. ASSUME NEW x \in Trees[k + 1], NEW q \in Nat \ {0}, Stands(x.cells, g, q)
          PROVE  Locates(f[k + 1][q], x.leaves, g)
      <3>0. q \in Nat
        OBVIOUS
      <3>2. ASSUME \E h \in LeafHeads : \E body \in Bodies(h) : x = Leaf(h, body)
            PROVE  Locates(f[k + 1][q], x.leaves, g)
        <4>1. PICK h \in LeafHeads : \E body \in Bodies(h) : x = Leaf(h, body)
          BY <3>2
        <4>2. PICK body \in Bodies(h) : x = Leaf(h, body)
          BY <4>1
        <4> DEFINE piece == LeafPiece(h, body)
        <4>3. piece = LeafPiece(h, body)
          OBVIOUS
        <4> HIDE DEF piece
        <4>4. IsLeaf(piece, h, body) /\ x.cells = piece.cells /\ x.leaves = <<piece>>
          BY <4>2, <4>3, LeafForm
        <4>6. x.cells = HeadCells(h) \o body.cells
          BY <4>4, Zenon DEF IsLeaf
        <4>7. Stands(HeadCells(h) \o body.cells, g, q)
          BY <2>3, <4>6, Zenon
        <4>8. readhdr(g, q) = h /\ h.type # "GEOMETRYCOLLECTION"
          BY <4>7, LeafStands
        <4>9. f[j][q] = <<q>>
          <5> HIDE DEF j
          <5> QED BY <1>1, <2>0, <3>0, <4>8 DEF ArrayRun
        <4>10. Stands(piece.cells, g, q)
          BY <2>3, <4>4, Zenon
        <4>11. Locates(<<q>>, <<piece>>, g)
          BY <4>10 DEF Locates
        <4> QED BY <4>4, <4>9, <4>11, Zenon DEF j
      <3>3. ASSUME \E h \in CollectionHeads : \E members \in Seq(Trees[k]) : x = Collection(h, members)
            PROVE  Locates(f[k + 1][q], x.leaves, g)
        <4>1. PICK h \in CollectionHeads : \E members \in Seq(Trees[k]) : x = Collection(h, members)
          BY <3>3
        <4>2. PICK members \in Seq(Trees[k]) : x = Collection(h, members)
          BY <4>1
        <4>3. MembersAt(g, q) = [i \in 1 .. Len(members) |-> q + 3 + End(CellsOf(members), i - 1)]
          BY <2>3, <4>2, MembersStand
        <4> DEFINE S == Trees[k]
                   n == Len(members)
                   p == q + 3
                   c == CellsOf(members)
                   s == LeavesOf(members)
                   m == MembersAt(g, q)
                   t == [i \in 1 .. n |-> f[k][m[i]]]
        <4>4. /\ \A y \in S : Form(y)
              /\ members \in Seq(S) /\ Finds(f[k], S, g) /\ Stands(x.cells, g, q)
          BY <2>1, <2>2, <2>3
        <4> HIDE DEF S
        <4>5. /\ readhdr(g, q) = h /\ h.type = "GEOMETRYCOLLECTION" /\ Stands(FlattenSeq(CellsOf(members)), g, q + 3)
              /\ IsCollection(x, h, members)
          BY <4>2, <4>4, CollectionStands
        <4>6. /\ n \in Nat /\ \A y \in S : Shaped(y)
              /\ \A i \in 1 .. n : members[i] \in S
              /\ s \in Seq(Seq(LeafPieces)) /\ Len(s) = n /\ \A i \in 1 .. n : s[i] = members[i].leaves
          BY <4>4, MemberParts
        <4>7. c \in Seq(Seq(Int)) /\ Len(c) = n /\ \A i \in 1 .. n : c[i] = members[i].cells
          BY <4>4, <4>6, SeriesParts
        <4>8. p \in Nat \ {0} /\ Stands(FlattenSeq(c), g, p) /\ m = [i \in 1 .. n |-> p + End(c, i - 1)]
          <5>1. p \in Nat \ {0}
            OBVIOUS
          <5> QED BY <4>3, <4>5, <5>1, Zenon
        <4> HIDE DEF p, c, n, s, m
        <4>9. \A i \in 1 .. n : m[i] = p + End(c, i - 1) /\ m[i] \in Nat \ {0}
          <5>1. \A i \in 1 .. n : i - 1 \in 0 .. Len(c)
            BY <4>6, <4>7
          <5>2. \A i \in 1 .. n : End(c, i - 1) \in Nat
            BY <4>7, <5>1, FlattenLayout
          <5> QED BY <4>8, <5>2
        <4>10. \A i \in 1 .. n : Stands(c[i], g, m[i])
          <5> SUFFICES ASSUME NEW i \in 1 .. n PROVE Stands(c[i], g, m[i])
            OBVIOUS
          <5>1. i \in 1 .. Len(c) /\ p \in Nat
            BY <4>7, <4>8
          <5>2. Stands(c[i], g, p + End(c, i - 1))
            BY <4>7, <4>8, <5>1, StandsFlat
          <5> QED BY <4>9, <5>2
        <4>11. \A i \in 1 .. n : Locates(f[k][m[i]], s[i], g)
          BY <4>4, <4>6, <4>7, <4>9, <4>10 DEF Finds
        <4>12. t = [i \in 1 .. n |-> t[i]] /\ \A i \in 1 .. n : t[i] = f[k][m[i]]
          OBVIOUS
        <4>13. Gathered(f[k], m) = FlattenSeq(t)
          <5>1. DOMAIN m = 1 .. n
            BY <4>8
          <5> QED BY <5>1, Zenon DEF Gathered
        <4> HIDE DEF t
        <4>14. \A i \in 1 .. n : Locates(t[i], s[i], g)
          BY <4>11, <4>12
        <4>15. Locates(FlattenSeq(t), FlattenSeq(s), g)
          BY <4>6, <4>12, <4>14, GatheredLeaves
        <4>16. f[k + 1][q] = Gathered(f[k], MembersAt(g, q))
          BY <1>1, <3>0, <4>5 DEF ArrayRun
        <4>17. x.leaves = FlattenSeq(LeavesOf(members))
          BY <4>5 DEF IsCollection
        <4> QED BY <4>13, <4>15, <4>16, <4>17, Zenon DEF m, s
      <3> QED BY <3>2, <3>3, TreeCases
    <2>4. Finds(f[k + 1], Trees[k + 1], g)
      BY <2>3 DEF Finds
    <2> QED BY <2>4
  <1>4. Nat \subseteq U
    <2> HIDE DEF U
    <2> QED BY <1>2, <1>3, NatSubset
  <1> SUFFICES ASSUME NEW x \in Trees[d], NEW q \in Nat \ {0}, Stands(x.cells, g, q)
               PROVE  Locates(geomGeometryCollectionFlattenedArray(g, q), x.leaves, g)
    OBVIOUS
  <1>5. Len(g) \in Nat /\ x \in Trees[Len(g)]
    BY StandingDepth
  <1>6. Finds(f[Len(g)], Trees[Len(g)], g)
    BY <1>4, <1>5
  <1>7. Locates(f[Len(g)][q], x.leaves, g)
    BY <1>5, <1>6, Zenon DEF Finds
  <1>8. geomGeometryCollectionFlattenedArray(g, q) = f[Len(g)][q]
    BY <1>1, Zenon DEF ArrayRun
  <1> QED BY <1>7, <1>8, Zenon

-----------------------------------------------------------------------------
(***************************************************************************)
(* What is left of a text without the brackets and the names of            *)
(* collections.                                                            *)
(***************************************************************************)
\* Sequences of sequences that are put together are flattened together.
LEMMA FlattenJoint ==
    ASSUME NEW T, NEW a \in Seq(Seq(T)), NEW b \in Seq(Seq(T))
    PROVE  FlattenSeq(Joint(a, b)) = Joint(FlattenSeq(a), FlattenSeq(b))
  <1> DEFINE u == Joint(a, b)
             U == Seq(T)
             l == Len(a)
             n == Len(b)
             A == FlattenSeq(a)
             F(k) == FlattenSeq(SubSeq(b, 1, k))
             G(k) == FlattenSeq(SubSeq(u, 1, k))
             S == {k \in 0 .. n : G(l + k) = Joint(A, F(k))}
  <1>1. /\ u \in Seq(U) /\ Len(u) = l + n /\ l \in Nat /\ n \in Nat
        /\ SubSeq(u, 1, l) = a /\ \A k \in 1 .. n : u[l + k] = b[k]
    <2>1. a \in Seq(U) /\ b \in Seq(U) /\ u = a \o b
      BY Zenon DEF Joint
    <2> HIDE DEF U, u
    <2>2. /\ u \in Seq(U) /\ Len(u) = Len(a) + Len(b) /\ Len(a) \in Nat /\ Len(b) \in Nat
          /\ \A k \in 1 .. Len(a) : u[k] = a[k]
          /\ \A k \in 1 .. Len(b) : u[Len(a) + k] = b[k]
      BY ONLY <2>1, ConcatProperties
    <2>3. SubSeq(u, 1, Len(a)) = a
      <3>1. /\ SubSeq(u, 1, Len(a)) \in Seq(U) /\ Len(SubSeq(u, 1, Len(a))) = Len(a)
            /\ \A k \in 1 .. Len(a) : SubSeq(u, 1, Len(a))[k] = u[k]
        BY ONLY <2>2
      <3> QED BY ONLY <3>1, <2>1, <2>2, SeqEqual
    <2> QED BY <2>2, <2>3
  <1>2. /\ FlattenSeq(b) = F(n) /\ F(0) = <<>>
        /\ \A k \in 0 .. n : F(k) \in Seq(T)
        /\ \A k \in 1 .. n : F(k) = F(k - 1) \o b[k]
    BY FlattenSteps
  <1>3. /\ FlattenSeq(u) = G(Len(u))
        /\ \A k \in 1 .. Len(u) : G(k) = G(k - 1) \o u[k]
    BY <1>1, FlattenSteps
  <1>4. A \in Seq(T) /\ G(l) = A
    BY <1>1, FlattenSteps
  <1>5. \A k \in 1 .. n : b[k] \in Seq(T)
    <2>1. b \in Seq(U)
      OBVIOUS
    <2> HIDE DEF U
    <2>2. \A k \in 1 .. n : b[k] \in U
      BY <2>1
    <2> QED BY <2>2 DEF U
  <1> HIDE DEF F, G, A, u, l, n
  <1>6. 0 \in S
    <2>1. A \o <<>> = A
      BY <1>4
    <2>2. G(l + 0) = Joint(A, F(0))
      <3>1. l + 0 = l
        BY <1>1
      <3> QED BY <1>2, <1>4, <2>1, <3>1, Zenon DEF Joint
    <2>3. 0 \in 0 .. n
      BY <1>1
    <2> QED BY <2>2, <2>3
  <1>7. ASSUME NEW k \in 0 .. n - 1, k \in S PROVE k + 1 \in S
    <2> DEFINE j == k + 1
               c == b[j]
               f == F(k)
    <2>1. /\ j \in 1 .. n /\ j - 1 = k /\ l + j \in 1 .. Len(u) /\ (l + j) - 1 = l + k
          /\ j \in 0 .. n /\ k \in 0 .. n
      BY SMTT(30), <1>1
    <2> HIDE DEF j
    <2>2. G(l + j) = G(l + k) \o u[l + j] /\ F(j) = F(k) \o b[j] /\ u[l + j] = b[j]
      <3>1. G(l + j) = G((l + j) - 1) \o u[l + j]
        BY <1>3, <2>1
      <3>2. F(j) = F(j - 1) \o b[j]
        BY <1>2, <2>1
      <3> QED BY <1>1, <2>1, <3>1, <3>2, Zenon
    <2>3. c \in Seq(T) /\ f \in Seq(T)
      BY <1>2, <1>5, <2>1
    <2>4. G(l + k) = Joint(A, f)
      BY <1>7
    <2> HIDE DEF c, f
    <2>5. Joint(Joint(A, f), c) = Joint(A, Joint(f, c))
      BY ONLY <1>4, <2>3, ThreeTexts
    <2>6. G(l + j) = Joint(A, F(j))
      <3>1. G(l + j) = Joint(Joint(A, f), c) /\ F(j) = Joint(f, c)
        BY <2>2, <2>4, Zenon DEF Joint, c, f
      <3> QED BY <2>5, <3>1, Zenon
    <2> QED BY <2>1, <2>6 DEF j
  <1>8. 0 .. n \subseteq S
    <2> HIDE DEF S
    <2> QED BY <1>1, <1>6, <1>7, UpTo
  <1>9. G(l + n) = Joint(A, F(n))
    <2>1. n \in 0 .. n
      BY <1>1
    <2> QED BY <1>8, <2>1
  <1>10. FlattenSeq(u) = Joint(A, FlattenSeq(b))
    BY <1>1, <1>2, <1>3, <1>9, Zenon
  <1> QED BY <1>10 DEF u, A

\* What m gives for the elements of s, one after the other.
Images(m, s) == [i \in 1 .. Len(s) |-> m[s[i]]]
Mapped(m, s) == FlattenSeq(Images(m, s))

\* m gives a sequence for each element of S.
Maps(m, S, T) == m \in [S -> Seq(T)]

\* There is one image for each element.
LEMMA ImagesAre ==
    ASSUME NEW S, NEW T, NEW m, Maps(m, S, T), NEW s \in Seq(S)
    PROVE  /\ Images(m, s) \in Seq(Seq(T)) /\ Len(Images(m, s)) = Len(s) /\ Len(s) \in Nat
           /\ \A i \in 1 .. Len(s) : Images(m, s)[i] = m[s[i]] /\ s[i] \in S
           /\ Mapped(m, s) \in Seq(T)
  <1> DEFINE U == Seq(T)
             t == Images(m, s)
  <1>1. m \in [S -> U]
    BY DEF Maps
  <1> HIDE DEF U
  <1>2. \A i \in 1 .. Len(s) : s[i] \in S /\ m[s[i]] \in U
    BY <1>1
  <1>3. t = [i \in 1 .. Len(s) |-> m[s[i]]] /\ Len(s) \in Nat
    BY DEF Images
  <1> HIDE DEF t
  <1>4. t \in Seq(U) /\ Len(t) = Len(s) /\ \A i \in 1 .. Len(s) : t[i] = m[s[i]]
    BY ONLY <1>2, <1>3
  <1>5. t \in Seq(Seq(T))
    BY <1>4 DEF U
  <1>6. FlattenSeq(t) \in Seq(T)
    BY <1>5, FlattenSteps
  <1> QED BY <1>2, <1>3, <1>4, <1>5, <1>6 DEF Mapped, t

\* The images of what is put together are put together.
LEMMA MappedJoint ==
    ASSUME NEW S, NEW T, NEW m, Maps(m, S, T), NEW a \in Seq(S), NEW b \in Seq(S)
    PROVE  Joint(a, b) \in Seq(S) /\ Mapped(m, Joint(a, b)) = Joint(Mapped(m, a), Mapped(m, b))
  <1> DEFINE u == Joint(a, b)
             A == Images(m, a)
             B == Images(m, b)
             C == Images(m, u)
             U == Seq(T)
  <1>1. /\ u \in Seq(S) /\ Len(u) = Len(a) + Len(b)
        /\ \A k \in 1 .. Len(a) : u[k] = a[k]
        /\ \A k \in 1 .. Len(b) : u[Len(a) + k] = b[k]
    <2>1. a \in Seq(S) /\ b \in Seq(S) /\ u = a \o b
      BY Zenon DEF Joint
    <2> QED BY ONLY <2>1, ConcatProperties
  <1> HIDE DEF u
  <1>2. /\ A \in Seq(Seq(T)) /\ Len(A) = Len(a) /\ Len(a) \in Nat /\ \A i \in 1 .. Len(a) : A[i] = m[a[i]]
        /\ B \in Seq(Seq(T)) /\ Len(B) = Len(b) /\ Len(b) \in Nat /\ \A i \in 1 .. Len(b) : B[i] = m[b[i]]
    BY ImagesAre
  <1>3. C \in Seq(Seq(T)) /\ Len(C) = Len(u) /\ \A i \in 1 .. Len(u) : C[i] = m[u[i]]
    <2>1. u \in Seq(S)
      BY <1>1
    <2>2. Maps(m, S, T)
      OBVIOUS
    <2> QED BY ONLY <2>1, <2>2, ImagesAre
  <1>4. A \in Seq(U) /\ B \in Seq(U) /\ C \in Seq(U)
    BY <1>2, <1>3
  <1> HIDE DEF A, B, C, U
  <1>5. C = Joint(A, B)
    <2> DEFINE D == A \o B
    <2>1. /\ D \in Seq(U) /\ Len(D) = Len(A) + Len(B)
          /\ \A k \in 1 .. Len(A) : D[k] = A[k]
          /\ \A k \in 1 .. Len(B) : D[Len(A) + k] = B[k]
      BY ONLY <1>4, ConcatProperties
    <2> HIDE DEF D
    <2>2. Len(C) = Len(D)
      BY <1>1, <1>2, <1>3, <2>1
    <2>3. ASSUME NEW i \in 1 .. Len(C) PROVE C[i] = D[i]
      <3>0. i \in 1 .. Len(u) /\ C[i] = m[u[i]]
        BY <1>3
      <3>1. CASE i <= Len(a)
        <4>1. i \in 1 .. Len(a) /\ i \in 1 .. Len(A)
          BY <1>2, <3>1
        <4> QED BY <1>1, <1>2, <2>1, <3>0, <4>1
      <3>2. CASE ~(i <= Len(a))
        <4> DEFINE j == i - Len(a)
        <4>1. j \in 1 .. Len(b) /\ i = Len(a) + j
          BY <1>1, <1>2, <3>0, <3>2
        <4> HIDE DEF j
        <4>2. u[i] = b[j]
          BY <1>1, <4>1
        <4>3. D[i] = B[j]
          BY <1>2, <2>1, <4>1
        <4> QED BY <1>2, <3>0, <4>1, <4>2, <4>3
      <3> QED BY <3>1, <3>2
    <2>4. C = D
      BY <1>4, <2>1, <2>2, <2>3, SeqEqual
    <2> QED BY <2>4 DEF D, Joint
  <1>6. FlattenSeq(C) = Joint(FlattenSeq(A), FlattenSeq(B))
    BY <1>2, <1>5, FlattenJoint
  <1> QED BY <1>1, <1>6, Zenon DEF Mapped, A, B, C, u

\* Nothing has no images, and one element has its own.
LEMMA MappedFew ==
    ASSUME NEW S, NEW T, NEW m, Maps(m, S, T)
    PROVE  Mapped(m, <<>>) = <<>> /\ \A x \in S : Mapped(m, <<x>>) = m[x]
  <1>1. Mapped(m, <<>>) = <<>>
    <2> DEFINE none == <<>>
               t == Images(m, none)
    <2>1. none \in Seq(S) /\ Len(none) = 0
      OBVIOUS
    <2> HIDE DEF none
    <2>2. t \in Seq(Seq(T)) /\ Len(t) = Len(none)
      <3>1. Maps(m, S, T) /\ none \in Seq(S)
        BY <2>1
      <3> QED BY ONLY <3>1, ImagesAre
    <2> HIDE DEF t
    <2>3. t = <<>>
      BY <2>1, <2>2
    <2>4. FlattenSeq(<<>>) = <<>>
      BY DEF FlattenSeq
    <2> QED BY <2>3, <2>4, Zenon DEF Mapped, t, none
  <1>2. ASSUME NEW x \in S PROVE Mapped(m, <<x>>) = m[x]
    <2> DEFINE one == <<x>>
               t == Images(m, one)
    <2>1. one \in Seq(S) /\ Len(one) = 1 /\ one[1] = x
      OBVIOUS
    <2> HIDE DEF one
    <2>2. t \in Seq(Seq(T)) /\ Len(t) = 1 /\ t[1] = m[x] /\ m[x] \in Seq(T)
      <3>1. /\ t \in Seq(Seq(T)) /\ Len(t) = Len(one)
            /\ \A i \in 1 .. Len(one) : t[i] = m[one[i]]
        BY <2>1, ImagesAre
      <3> HIDE DEF t
      <3>2. 1 \in 1 .. Len(one)
        BY <2>1
      <3>3. t[1] = m[x]
        BY <2>1, <3>1, <3>2
      <3>4. m[x] \in Seq(T)
        BY DEF Maps
      <3> QED BY <2>1, <3>1, <3>3, <3>4
    <2> HIDE DEF t
    <2>3. /\ FlattenSeq(SubSeq(t, 1, Len(t))) = FlattenSeq(t) /\ FlattenSeq(SubSeq(t, 1, 0)) = <<>>
          /\ \A n \in 1 .. Len(t) : FlattenSeq(SubSeq(t, 1, n)) = FlattenSeq(SubSeq(t, 1, n - 1)) \o t[n]
      BY <2>2, FlattenSteps
    <2>4. FlattenSeq(SubSeq(t, 1, 1)) = FlattenSeq(SubSeq(t, 1, 1 - 1)) \o t[1] /\ 1 - 1 = 0
      <3>1. 1 \in 1 .. Len(t) /\ 1 - 1 = 0
        BY <2>2
      <3> QED BY <2>3, <3>1, Zenon
    <2>5. <<>> \o m[x] = m[x]
      BY <2>2
    <2>6. FlattenSeq(t) = m[x]
      BY <2>2, <2>3, <2>4, <2>5, Zenon
    <2> QED BY <2>6, Zenon DEF Mapped, t, one
  <1> QED BY <1>1, <1>2

\* The images of sequences that are flattened are flattened.
LEMMA MappedFlat ==
    ASSUME NEW S, NEW T, NEW m, Maps(m, S, T), NEW s \in Seq(Seq(S)), NEW t \in Seq(Seq(T)),
           Len(t) = Len(s), \A i \in 1 .. Len(s) : t[i] = Mapped(m, s[i])
    PROVE  Mapped(m, FlattenSeq(s)) = FlattenSeq(t)
  <1> DEFINE n == Len(s)
             F(k) == FlattenSeq(SubSeq(s, 1, k))
             G(k) == FlattenSeq(SubSeq(t, 1, k))
             K == {k \in 0 .. n : Mapped(m, F(k)) = G(k)}
  <1>1. n \in Nat /\ \A k \in 1 .. n : s[k] \in Seq(S)
    <2> DEFINE U == Seq(S)
    <2>1. s \in Seq(U)
      OBVIOUS
    <2> HIDE DEF U
    <2>2. n \in Nat /\ \A k \in 1 .. n : s[k] \in U
      BY <2>1
    <2> QED BY <2>2 DEF U
  <1>2. /\ FlattenSeq(s) = F(n) /\ F(0) = <<>>
        /\ \A k \in 0 .. n : F(k) \in Seq(S)
        /\ \A k \in 1 .. n : F(k) = F(k - 1) \o s[k]
    BY FlattenSteps
  <1>3. /\ FlattenSeq(t) = G(n) /\ G(0) = <<>>
        /\ \A k \in 1 .. n : G(k) = G(k - 1) \o t[k]
    <2>1. /\ FlattenSeq(t) = G(Len(t)) /\ G(0) = <<>>
          /\ \A k \in 1 .. Len(t) : G(k) = G(k - 1) \o t[k]
      BY FlattenSteps
    <2> QED BY <2>1
  <1>4. \A k \in 1 .. n : t[k] = Mapped(m, s[k])
    OBVIOUS
  <1> HIDE DEF F, G, n
  <1>5. 0 \in K
    <2>1. 0 \in 0 .. n
      BY <1>1
    <2>2. Mapped(m, <<>>) = <<>>
      BY MappedFew
    <2> QED BY <1>2, <1>3, <2>1, <2>2
  <1>6. ASSUME NEW k \in 0 .. n - 1, k \in K PROVE k + 1 \in K
    <2> DEFINE j == k + 1
               a == F(k)
               b == s[j]
    <2>1. j \in 1 .. n /\ j - 1 = k /\ j \in 0 .. n /\ k \in 0 .. n
      BY <1>1
    <2> HIDE DEF j
    <2>2. F(j) = Joint(a, b) /\ G(j) = G(k) \o t[j]
      <3>1. F(j) = F(j - 1) \o s[j] /\ G(j) = G(j - 1) \o t[j]
        BY <1>2, <1>3, <2>1
      <3> QED BY <2>1, <3>1, Zenon DEF Joint
    <2>3. a \in Seq(S) /\ b \in Seq(S)
      BY <1>1, <1>2, <2>1
    <2>4. Mapped(m, a) = G(k) /\ t[j] = Mapped(m, b)
      BY <1>4, <1>6, <2>1
    <2> HIDE DEF a, b
    <2>5. Mapped(m, Joint(a, b)) = Joint(Mapped(m, a), Mapped(m, b))
      BY <2>3, MappedJoint
    <2>6. Mapped(m, F(j)) = G(j)
      BY <2>2, <2>4, <2>5, Zenon DEF Joint
    <2> QED BY <2>1, <2>6 DEF j
  <1>7. 0 .. n \subseteq K
    <2> HIDE DEF K
    <2> QED BY <1>1, <1>5, <1>6, UpTo
  <1>8. Mapped(m, F(n)) = G(n)
    <2>1. n \in 0 .. n
      BY <1>1
    <2> QED BY <1>7, <2>1
  <1> QED BY <1>2, <1>3, <1>8, Zenon

\* What is left of a token.
Hidden == {"GEOMETRYCOLLECTION", "M", "(", ")", ","}
BareToken == [t \in Tokens |-> IF t \in Hidden THEN <<>> ELSE <<t>>]

\* Of each token a text is left.
LEMMA BareTokens ==
    /\ Maps(BareToken, Tokens, Tokens)
    /\ Hidden \subseteq Tokens
    /\ \A t \in Hidden : BareToken[t] = <<>>
  <1> DEFINE U == Seq(Tokens)
  <1>1. \A t \in Tokens : <<t>> \in U
    OBVIOUS
  <1>2. <<>> \in U
    OBVIOUS
  <1>3. Hidden \subseteq Tokens
    BY TokensKnown DEF Hidden, TypeNames
  <1> HIDE DEF U
  <1>4. \A t \in Tokens : BareToken[t] = IF t \in Hidden THEN <<>> ELSE <<t>>
    BY DEF BareToken
  <1>5. \A t \in Tokens : BareToken[t] \in U
    BY <1>1, <1>2, <1>4, Zenon
  <1>6. BareToken = [t \in Tokens |-> BareToken[t]]
    BY DEF BareToken
  <1>7. BareToken \in [Tokens -> U]
    BY <1>5, <1>6
  <1>8. \A t \in Hidden : BareToken[t] = <<>>
    BY <1>3, <1>4, Zenon
  <1> QED BY <1>3, <1>7, <1>8 DEF Maps, U

\* What is left of a text is what is left of its tokens.
LEMMA BareIs ==
    ASSUME NEW s \in Seq(Tokens)
    PROVE  Bare(s) = Mapped(BareToken, s) /\ Bare(s) \in Seq(Tokens)
  <1>1. DOMAIN s = 1 .. Len(s) /\ \A i \in 1 .. Len(s) : s[i] \in Tokens
    OBVIOUS
  <1>2. \A i \in 1 .. Len(s) : BareToken[s[i]] = IF s[i] \in Hidden THEN <<>> ELSE <<s[i]>>
    BY <1>1 DEF BareToken
  <1>3. [i \in DOMAIN s |-> IF s[i] \in Hidden THEN <<>> ELSE <<s[i]>>] = [i \in 1 .. Len(s) |-> BareToken[s[i]]]
    BY <1>1, <1>2, Zenon
  <1>4. Bare(s) = FlattenSeq([i \in DOMAIN s |-> IF s[i] \in Hidden THEN <<>> ELSE <<s[i]>>])
    BY Zenon DEF Bare, Hidden
  <1>5. Bare(s) = Mapped(BareToken, s)
    BY <1>3, <1>4, Zenon DEF Mapped, Images
  <1>6. Maps(BareToken, Tokens, Tokens)
    BY BareTokens
  <1>7. Mapped(BareToken, s) \in Seq(Tokens)
    BY ONLY <1>6, ImagesAre, s \in Seq(Tokens)
  <1> QED BY <1>5, <1>7

\* What is left of two texts is put together, and hidden tokens leave nothing.
LEMMA BareJoint ==
    ASSUME NEW a \in Seq(Tokens), NEW b \in Seq(Tokens)
    PROVE  Joint(a, b) \in Seq(Tokens) /\ Bare(Joint(a, b)) = Joint(Bare(a), Bare(b))
  <1>1. Maps(BareToken, Tokens, Tokens)
    BY BareTokens
  <1>2. a \in Seq(Tokens) /\ b \in Seq(Tokens)
    OBVIOUS
  <1>3. Joint(a, b) \in Seq(Tokens) /\ Mapped(BareToken, Joint(a, b)) = Joint(Mapped(BareToken, a), Mapped(BareToken, b))
    BY ONLY <1>1, <1>2, MappedJoint
  <1>4. Bare(a) = Mapped(BareToken, a) /\ Bare(b) = Mapped(BareToken, b)
    BY BareIs
  <1> DEFINE c == Joint(a, b)
  <1>5. c \in Seq(Tokens)
    BY <1>3
  <1> HIDE DEF c
  <1>6. Bare(c) = Mapped(BareToken, c)
    BY <1>5, BareIs
  <1> QED BY <1>3, <1>4, <1>6, Zenon DEF c

\* A hidden token leaves nothing.
LEMMA BareHidden ==
    ASSUME NEW t \in Hidden
    PROVE  <<t>> \in Seq(Tokens) /\ Bare(<<t>>) = <<>>
  <1>1. t \in Tokens /\ BareToken[t] = <<>> /\ Maps(BareToken, Tokens, Tokens)
    BY BareTokens
  <1>2. Mapped(BareToken, <<t>>) = BareToken[t]
    BY <1>1, MappedFew
  <1> DEFINE one == <<t>>
  <1>3. one \in Seq(Tokens)
    BY <1>1
  <1> HIDE DEF one
  <1>4. Bare(one) = Mapped(BareToken, one)
    BY <1>3, BareIs
  <1> QED BY <1>1, <1>2, <1>3, <1>4, Zenon DEF one

\* Nothing before a text, and nothing behind it.
LEMMA JointNone ==
    ASSUME NEW T, NEW a \in Seq(T)
    PROVE  Joint(<<>>, a) = a /\ Joint(a, <<>>) = a
  BY DEF Joint

\* A list without its brackets.
LEMMA BareList ==
    ASSUME NEW s \in Seq(Tokens)
    PROVE  Bare(Append(Opened(s), ")")) = Bare(s) /\ Append(Opened(s), ")") \in Seq(Tokens)
  <1> DEFINE a == <<"(">>
             b == <<")">>
             u == Joint(a, s)
  <1>1. a \in Seq(Tokens) /\ Bare(a) = <<>> /\ b \in Seq(Tokens) /\ Bare(b) = <<>>
    <2>1. "(" \in Hidden /\ ")" \in Hidden
      BY DEF Hidden
    <2> QED BY <2>1, BareHidden
  <1>2. Append(Opened(s), ")") = Joint(u, b)
    <2>1. Append(<<"(">> \o s, ")") = (<<"(">> \o s) \o <<")">>
      <3> DEFINE v == <<"(">> \o s
      <3>1. v \in Seq(Tokens) /\ ")" \in Tokens
        <4>1. a \in Seq(Tokens) /\ s \in Seq(Tokens) /\ v = a \o s
          BY <1>1
        <4>2. v \in Seq(Tokens)
          <5> HIDE DEF a, v
          <5> QED BY ONLY <4>1, ConcatProperties
        <4> QED BY <4>2, TokensKnown
      <3> HIDE DEF v
      <3>2. Append(v, ")") = v \o <<")">>
        BY <3>1, AppendIsConcat
      <3> QED BY <3>2 DEF v
    <2> QED BY <2>1, Zenon DEF Opened, Joint
  <1> HIDE DEF a, b
  <1>3. u \in Seq(Tokens) /\ Bare(u) = Joint(Bare(a), Bare(s))
    <2>1. a \in Seq(Tokens) /\ s \in Seq(Tokens)
      BY <1>1
    <2> QED BY ONLY <2>1, BareJoint
  <1>4. Bare(s) \in Seq(Tokens)
    BY BareIs
  <1> DEFINE w == Bare(s)
  <1>5. w \in Seq(Tokens)
    BY <1>4
  <1> HIDE DEF w
  <1>6. Joint(<<>>, w) = w /\ Joint(w, <<>>) = w
    BY <1>5, JointNone
  <1>7. Bare(u) = w
    BY <1>1, <1>3, <1>6, Zenon DEF w
  <1> HIDE DEF u
  <1>8. Joint(u, b) \in Seq(Tokens) /\ Bare(Joint(u, b)) = Joint(Bare(u), Bare(b))
    BY ONLY <1>1, <1>3, BareJoint
  <1> QED BY <1>1, <1>2, <1>6, <1>7, <1>8, Zenon DEF w

\* An element without its comma.
LEMMA BareSeparated ==
    ASSUME NEW s \in Seq(Tokens), NEW i
    PROVE  Bare(Separated(i, s)) = Bare(s)
  <1> DEFINE a == IF i = 1 THEN <<>> ELSE <<",">>
  <1>1. a \in Seq(Tokens) /\ Bare(a) = <<>>
    <2>1. "," \in Hidden
      BY DEF Hidden
    <2>2. <<",">> \in Seq(Tokens) /\ Bare(<<",">>) = <<>>
      BY <2>1, BareHidden
    <2>3. <<>> \in Seq(Tokens) /\ Bare(<<>>) = <<>>
      <3>1. <<>> \in Seq(Tokens)
        OBVIOUS
      <3>2. Mapped(BareToken, <<>>) = <<>>
        BY BareTokens, MappedFew
      <3> DEFINE none == <<>>
      <3>3. none \in Seq(Tokens)
        BY <3>1
      <3> HIDE DEF none
      <3>4. Bare(none) = Mapped(BareToken, none)
        BY <3>3, BareIs
      <3> QED BY <3>1, <3>2, <3>4, Zenon DEF none
    <2> QED BY <2>2, <2>3, Zenon
  <1>2. Separated(i, s) = Joint(a, s)
    BY Zenon DEF Separated, Joint
  <1> HIDE DEF a
  <1>3. Bare(Joint(a, s)) = Joint(Bare(a), Bare(s))
    BY <1>1, BareJoint
  <1> DEFINE w == Bare(s)
  <1>4. w \in Seq(Tokens)
    BY BareIs
  <1> HIDE DEF w
  <1>5. Joint(<<>>, w) = w
    BY <1>4, JointNone
  <1> QED BY <1>1, <1>2, <1>3, <1>5, Zenon DEF w

\* The words of a collection leave nothing.
LEMMA BareWords ==
    ASSUME NEW h \in CollectionHeads
    PROVE  TypeWords(h) \in Seq(Tokens) /\ Bare(TypeWords(h)) = <<>>
  <1> DEFINE a == <<"GEOMETRYCOLLECTION">>
             b == <<"M">>
  <1>1. h.type = "GEOMETRYCOLLECTION"
    BY DEF CollectionHeads
  <1>2. a \in Seq(Tokens) /\ Bare(a) = <<>> /\ b \in Seq(Tokens) /\ Bare(b) = <<>>
    <2>1. "GEOMETRYCOLLECTION" \in Hidden /\ "M" \in Hidden
      BY DEF Hidden
    <2> QED BY <2>1, BareHidden
  <1>3. TypeWords(h) = a \/ TypeWords(h) = Joint(a, b)
    <2>1. <<"GEOMETRYCOLLECTION", "M">> = a \o b
      OBVIOUS
    <2> QED BY <1>1, <2>1, Zenon DEF TypeWords, Joint
  <1> HIDE DEF a, b
  <1>4. Joint(a, b) \in Seq(Tokens) /\ Bare(Joint(a, b)) = Joint(Bare(a), Bare(b))
    BY ONLY <1>2, BareJoint
  <1>5. Joint(<<>>, <<>>) = <<>>
    <2>1. <<>> \in Seq(Tokens)
      OBVIOUS
    <2> QED BY <2>1, JointNone
  <1>6. Bare(Joint(a, b)) = <<>>
    BY <1>2, <1>4, <1>5, Zenon
  <1> QED BY <1>2, <1>3, <1>4, <1>6, Zenon

\* What is left of the text of a leaf.
BareLeaf == [p \in LeafPieces |-> Bare(p.text)]

\* Of each leaf a text is left.
LEMMA BareLeaves ==
    /\ Maps(BareLeaf, LeafPieces, Tokens)
    /\ \A p \in LeafPieces : p.text \in Seq(Tokens) /\ BareLeaf[p] = Bare(p.text)
  <1> DEFINE U == Seq(Tokens)
  <1>1. \A p \in LeafPieces : p.text \in U
    <2> SUFFICES ASSUME NEW p \in LeafPieces PROVE p.text \in U
      OBVIOUS
    <2>1. PICK h \in LeafHeads : \E body \in Bodies(h) : p = LeafPiece(h, body)
      BY LeafPiecesAre
    <2>2. PICK body \in Bodies(h) : p = LeafPiece(h, body)
      BY <2>1
    <2>3. Shaped(p)
      BY <2>2, LeafShape
    <2> QED BY <2>3 DEF Shaped
  <1>2. \A p \in LeafPieces : BareLeaf[p] = Bare(p.text)
    BY DEF BareLeaf
  <1>3. \A w \in U : Bare(w) \in U
    BY BareIs
  <1> HIDE DEF U
  <1>4. \A p \in LeafPieces : BareLeaf[p] \in U
    BY <1>1, <1>2, <1>3, Zenon
  <1>5. BareLeaf = [p \in LeafPieces |-> BareLeaf[p]]
    BY DEF BareLeaf
  <1>6. BareLeaf \in [LeafPieces -> U]
    BY <1>4, <1>5
  <1> QED BY <1>1, <1>2, <1>6 DEF Maps, U

\* What is left of a geometry is what is left of its leaves.
Bared(x) == Bare(x.text) = Mapped(BareLeaf, x.leaves)

\* It is so for a collection if it is so for the geometries in it.
LEMMA CollectionBared ==
    ASSUME NEW S, \A y \in S : Form(y), \A y \in S : Bared(y), NEW members \in Seq(S),
           NEW h \in CollectionHeads, NEW x, x = Collection(h, members)
    PROVE  Bared(x)
  <1> DEFINE n == Len(members)
             s == TextsOf(members)
             l == LeavesOf(members)
             u == [i \in 1 .. n |-> Bare(members[i].text)]
             F == FlattenSeq(s)
             a == TypeWords(h)
             b == ListText(members)
             M == Seq(Tokens)
  <1>1. x.text = Joint(a, b) /\ x.leaves = FlattenSeq(l)
    <2>1. IsCollection(x, h, members)
      BY CollectionShape
    <2> QED BY <2>1, Zenon DEF IsCollection, Joint
  <1>2. /\ n \in Nat /\ \A y \in S : Shaped(y)
        /\ \A i \in 1 .. n : members[i] \in S
        /\ l \in Seq(Seq(LeafPieces)) /\ Len(l) = n /\ \A i \in 1 .. n : l[i] = members[i].leaves
    BY MemberParts
  <1>3. /\ s \in Seq(Seq(Tokens)) /\ Len(s) = n /\ F \in Seq(Tokens)
        /\ \A i \in 1 .. n : s[i] = Separated(i, members[i].text) /\ members[i].text \in Seq(Tokens)
    <2>1. /\ s \in Seq(Seq(Tokens)) /\ Len(s) = n /\ F \in Seq(Tokens)
          /\ \A i \in 1 .. n : s[i] = Separated(i, members[i].text)
      BY <1>2, SeriesParts
    <2>2. \A i \in 1 .. n : members[i].text \in Seq(Tokens)
      BY <1>2 DEF Shaped
    <2> QED BY <2>1, <2>2
  <1>4. \A i \in 1 .. n : Bared(members[i])
    BY <1>2
  <1>5. b = Append(Opened(F), ")")
    BY Zenon DEF ListText
  <1>6. u = [i \in 1 .. n |-> u[i]] /\ \A i \in 1 .. n : u[i] = Bare(members[i].text)
    OBVIOUS
  <1> HIDE DEF n, s, l, u, F, b, a
  <1>7. u \in Seq(Seq(Tokens)) /\ Len(u) = n
    <2>1. \A i \in 1 .. n : u[i] \in Seq(Tokens)
      BY <1>3, <1>6, BareIs
    <2>2. \A i \in 1 .. n : u[i] \in M
      BY <2>1
    <2> HIDE DEF M
    <2>3. [i \in 1 .. n |-> u[i]] \in Seq(M) /\ Len([i \in 1 .. n |-> u[i]]) = n
      <3>1. n \in Nat
        BY <1>2
      <3> QED BY ONLY <2>2, <3>1
    <2>4. u \in Seq(M) /\ Len(u) = n
      BY <1>6, <2>3, Zenon
    <2> QED BY <2>4 DEF M
  <1>8. \A i \in 1 .. n : u[i] = Mapped(BareToken, s[i])
    <2> SUFFICES ASSUME NEW i \in 1 .. n PROVE u[i] = Mapped(BareToken, s[i])
      OBVIOUS
    <2>1. Bare(s[i]) = u[i]
      <3> DEFINE w == members[i].text
      <3>1. s[i] = Separated(i, w) /\ w \in Seq(Tokens) /\ u[i] = Bare(w)
        BY <1>3, <1>6
      <3> HIDE DEF w
      <3>2. Bare(Separated(i, w)) = Bare(w)
        BY <3>1, BareSeparated
      <3> QED BY <3>1, <3>2, Zenon
    <2>2. s[i] \in Seq(Tokens)
      <3>1. s \in Seq(M)
        BY <1>3
      <3> HIDE DEF M
      <3>2. s[i] \in M
        BY <1>3, <3>1
      <3> QED BY <3>2 DEF M
    <2> QED BY <2>1, <2>2, BareIs
  <1>9. \A i \in 1 .. n : u[i] = Mapped(BareLeaf, l[i])
    BY <1>2, <1>4, <1>6, Zenon DEF Bared
  <1>10. Mapped(BareToken, F) = FlattenSeq(u)
    <2>1. Maps(BareToken, Tokens, Tokens)
      BY BareTokens
    <2>2. Mapped(BareToken, FlattenSeq(s)) = FlattenSeq(u)
      BY SMTT(30), <1>3, <1>7, <1>8, <2>1, MappedFlat
    <2> QED BY <2>2 DEF F
  <1>11. Mapped(BareLeaf, FlattenSeq(l)) = FlattenSeq(u)
    <2>1. Maps(BareLeaf, LeafPieces, Tokens)
      BY BareLeaves
    <2> QED BY <1>2, <1>7, <1>9, <2>1, MappedFlat
  <1>12. b \in Seq(Tokens) /\ Bare(b) = Mapped(BareToken, F)
    <2>1. b \in Seq(Tokens) /\ Bare(b) = Bare(F)
      BY <1>3, <1>5, BareList
    <2>2. Bare(F) = Mapped(BareToken, F)
      BY <1>3, BareIs
    <2> QED BY <2>1, <2>2
  <1>13. a \in Seq(Tokens) /\ Bare(a) = <<>>
    BY BareWords DEF a
  <1>14. Bare(Joint(a, b)) = Joint(Bare(a), Bare(b))
    BY ONLY <1>12, <1>13, BareJoint
  <1>15. Joint(<<>>, Bare(b)) = Bare(b)
    <2>1. Bare(b) \in Seq(Tokens)
      BY <1>12, BareIs
    <2> QED BY <2>1, JointNone
  <1> QED BY <1>1, <1>10, <1>11, <1>12, <1>13, <1>14, <1>15, Zenon DEF Bared

\* It is so for every geometry.
LEMMA TreeBared ==
    ASSUME NEW d \in Nat
    PROVE  \A x \in Trees[d] : Bared(x)
  <1> DEFINE U == {k \in Nat : \A x \in Trees[k] : Bared(x)}
  <1>1. 0 \in U
    BY TreesUnfolded
  <1>2. ASSUME NEW k \in Nat, k \in U PROVE k + 1 \in U
    <2>1. ASSUME NEW x \in Trees[k + 1] PROVE Bared(x)
      <3>1. ASSUME \E h \in LeafHeads : \E body \in Bodies(h) : x = Leaf(h, body) PROVE Bared(x)
        <4>1. PICK h \in LeafHeads : \E body \in Bodies(h) : x = Leaf(h, body)
          BY <3>1
        <4>2. PICK body \in Bodies(h) : x = Leaf(h, body)
          BY <4>1
        <4> DEFINE piece == LeafPiece(h, body)
        <4>3. piece \in LeafPieces /\ piece = LeafPiece(h, body)
          BY LeafPiecesAre
        <4> HIDE DEF piece
        <4>4. x.text = piece.text /\ x.leaves = <<piece>>
          BY <4>2, <4>3, LeafForm
        <4>5. Maps(BareLeaf, LeafPieces, Tokens) /\ BareLeaf[piece] = Bare(piece.text)
          BY <4>3, BareLeaves
        <4>6. Mapped(BareLeaf, <<piece>>) = BareLeaf[piece]
          BY <4>3, <4>5, MappedFew
        <4> QED BY <4>4, <4>5, <4>6, Zenon DEF Bared
      <3>2. ASSUME \E h \in CollectionHeads : \E members \in Seq(Trees[k]) : x = Collection(h, members)
            PROVE  Bared(x)
        <4>1. PICK h \in CollectionHeads : \E members \in Seq(Trees[k]) : x = Collection(h, members)
          BY <3>2
        <4>2. PICK members \in Seq(Trees[k]) : x = Collection(h, members)
          BY <4>1
        <4> DEFINE S == Trees[k]
        <4>3. members \in Seq(S) /\ (\A y \in S : Form(y)) /\ (\A y \in S : Bared(y))
          BY <1>2, TreeForm
        <4> HIDE DEF S
        <4> QED BY <4>2, <4>3, CollectionBared
      <3> QED BY <3>1, <3>2, TreeCases
    <2> QED BY <2>1
  <1>3. Nat \subseteq U
    <2> HIDE DEF U
    <2> QED BY <1>1, <1>2, NatSubset
  <1> QED BY <1>3

\* The first token of a leaf is the name of its type.
LEMMA LeafNamed ==
    ASSUME NEW p \in LeafPieces
    PROVE  p.text[1] # "GEOMETRYCOLLECTION"
  <1>1. PICK h \in LeafHeads : \E body \in Bodies(h) : p = LeafPiece(h, body)
    BY LeafPiecesAre
  <1>2. PICK body \in Bodies(h) : p = LeafPiece(h, body)
    BY <1>1
  <1> DEFINE a == TypeWords(h)
             b == BodyText(h, body)
  <1>3. p.text = a \o b
    <2>1. IsLeaf(p, h, body)
      BY <1>2, LeafShape
    <2> QED BY <2>1, Zenon DEF IsLeaf
  <1>4. b \in Seq(Tokens)
    BY BodyShape
  <1>5. h.type \in Tokens /\ "M" \in Tokens /\ h.type # "GEOMETRYCOLLECTION"
    BY TokensKnown DEF LeafHeads, Heads
  <1>6. a \in Seq(Tokens) /\ Len(a) >= 1 /\ a[1] = h.type
    <2>1. a = <<h.type, "M">> \/ a = <<h.type>>
      BY Zenon DEF TypeWords
    <2> DEFINE w == h.type
    <2>2. w \in Tokens /\ "M" \in Tokens
      BY <1>5
    <2>3. a = <<w, "M">> \/ a = <<w>>
      BY <2>1
    <2> HIDE DEF a, w
    <2>4. a \in Seq(Tokens) /\ Len(a) >= 1 /\ a[1] = w
      <3>1. CASE a = <<w, "M">>
        BY <2>2, <3>1
      <3>2. CASE a = <<w>>
        BY <2>2, <3>2
      <3> QED BY <2>3, <3>1, <3>2
    <2> QED BY <2>4 DEF w
  <1> HIDE DEF a, b
  <1>7. (a \o b)[1] = a[1]
    <2>1. \A k \in 1 .. Len(a) : (a \o b)[k] = a[k]
      BY <1>4, <1>6, ConcatProperties
    <2>2. 1 \in 1 .. Len(a)
      BY <1>6
    <2> QED BY <2>1, <2>2
  <1> QED BY <1>3, <1>5, <1>6, <1>7, Zenon

\* A leaf is written where it stands.
LEMMA PieceWritten ==
    ASSUME NEW p \in LeafPieces, NEW g \in Seq(Int), NEW q \in Nat \ {0}, Stands(p.cells, g, q)
    PROVE  geomEncodeWKTInner(g, q).text = p.text
  <1>1. PICK h \in LeafHeads : \E body \in Bodies(h) : p = LeafPiece(h, body)
    BY LeafPiecesAre
  <1>2. PICK body \in Bodies(h) : p = LeafPiece(h, body)
    BY <1>1
  <1> DEFINE x == Leaf(h, body)
  <1>3. x = Leaf(h, body)
    OBVIOUS
  <1>4. x \in Trees[0 + 1]
    BY TreeCases
  <1> HIDE DEF x
  <1>5. x.cells = p.cells /\ x.text = p.text
    BY <1>2, <1>3, LeafForm
  <1>6. x \in Trees[1] /\ 1 \in Nat
    BY <1>4
  <1>7. Stands(x.cells, g, q)
    BY <1>5, Zenon
  <1>8. geomEncodeWKTInner(g, q) = Written(x.text, q + Len(x.cells))
    BY <1>6, <1>7, GeometryWritten
  <1> QED BY <1>5, <1>8, WrittenParts

\* The flattened array of a collection has all of it, and nothing else, from left to right
\* (geom.c:geomGeometryCollectionFlattenedArray), however deep collections are nested.
THEOREM ArrayWhole == Spec => []FlattenedWhole
  <1>1. Holds => FlattenedWhole
    <2> SUFFICES ASSUME Holds, value # NoValue, Verified, readhdr(value, 1).type = "GEOMETRYCOLLECTION"
                 PROVE  FlattenedWhole
      BY DEF FlattenedWhole
    <2>1. Geometry(value)
      BY DEF Holds
    <2>2. PICK d \in Nat : \E x \in Trees[d] : value = x.cells
      BY <2>1 DEF Geometry
    <2>3. PICK x \in Trees[d] : value = x.cells
      BY <2>2
    <2>4. value \in Seq(Int) /\ geomEncodeWKTInner(value, 1) = Written(x.text, 1 + Len(x.cells))
      BY <2>3, WholeWritten
    <2>5. Stands(x.cells, value, 1)
      BY <2>3, <2>4, StandsWhole
    <2> DEFINE array == Leaves(value)
               leaves == x.leaves
               parts == [n \in DOMAIN array |-> geomEncodeWKTInner(value, array[n]).text]
               bare == [n \in DOMAIN parts |-> Bare(parts[n])]
    <2>6. array = geomGeometryCollectionFlattenedArray(value, 1)
      BY Zenon DEF Leaves
    <2>7. Locates(array, leaves, value)
      <3>1. 1 \in Nat \ {0}
        OBVIOUS
      <3>2. Locates(geomGeometryCollectionFlattenedArray(value, 1), x.leaves, value)
        BY <2>4, <2>5, <3>1, LeavesLocated
      <3> QED BY <2>6, <3>2, Zenon
    <2>8. leaves \in Seq(LeafPieces)
      BY TreeForm DEF Form
    <2>9. Bared(x)
      BY TreeBared
    <2> HIDE DEF array, leaves
    <2>10. /\ DOMAIN array = 1 .. Len(leaves) /\ Len(leaves) \in Nat
           /\ \A n \in 1 .. Len(leaves) :
                 /\ leaves[n] \in LeafPieces /\ array[n] \in Nat \ {0}
                 /\ Stands(leaves[n].cells, value, array[n])
      <3>1. array \in Seq(Nat \ {0}) /\ Len(array) = Len(leaves)
        BY <2>7 DEF Locates
      <3> DEFINE P == Nat \ {0}
      <3>2. array \in Seq(P)
        BY <3>1
      <3> HIDE DEF P
      <3>3. \A n \in 1 .. Len(leaves) : array[n] \in P /\ leaves[n] \in LeafPieces
        BY <2>8, <3>1, <3>2
      <3>4. \A n \in 1 .. Len(leaves) : Stands(leaves[n].cells, value, array[n])
        BY <2>7 DEF Locates
      <3>5. DOMAIN array = 1 .. Len(leaves) /\ Len(leaves) \in Nat
        BY <2>8, <3>1, <3>2
      <3> QED BY <3>3, <3>4, <3>5 DEF P
    <2>11. \A n \in 1 .. Len(leaves) : parts[n] = leaves[n].text
      <3> SUFFICES ASSUME NEW n \in 1 .. Len(leaves) PROVE parts[n] = leaves[n].text
        OBVIOUS
      <3>1. parts[n] = geomEncodeWKTInner(value, array[n]).text
        BY <2>10
      <3> DEFINE p == leaves[n]
                 q == array[n]
      <3>2. p \in LeafPieces /\ q \in Nat \ {0} /\ Stands(p.cells, value, q)
        BY <2>10
      <3> HIDE DEF p, q
      <3>3. geomEncodeWKTInner(value, q).text = p.text
        BY <2>4, <3>2, PieceWritten
      <3> QED BY <3>1, <3>3, Zenon DEF p, q
    <2>12. DOMAIN parts = 1 .. Len(leaves)
      BY <2>10
    <2> HIDE DEF parts
    <2>13. \A n \in DOMAIN parts : parts[n][1] # "GEOMETRYCOLLECTION"
      BY <2>10, <2>11, <2>12, LeafNamed
    <2>14. bare = [n \in 1 .. Len(leaves) |-> BareLeaf[leaves[n]]]
      <3>1. \A n \in 1 .. Len(leaves) : Bare(parts[n]) = BareLeaf[leaves[n]]
        BY <2>10, <2>11, BareLeaves
      <3> QED BY <2>12, <3>1, Zenon
    <2> HIDE DEF bare
    <2>15. Bare(geomEncodeWKT(value)) = FlattenSeq(bare)
      <3>1. geomEncodeWKT(value) = x.text
        BY <2>4, WrittenParts DEF geomEncodeWKT
      <3>2. FlattenSeq(bare) = Mapped(BareLeaf, leaves)
        BY <2>14, Zenon DEF Mapped, Images
      <3> QED BY <2>9, <3>1, <3>2, Zenon DEF Bared, leaves
    <2> QED BY <2>13, <2>15, Zenon DEF FlattenedWhole, array, parts, bare
  <1> QED BY <1>1, HoldsAlways, PTL

=============================================================================
