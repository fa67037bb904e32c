------------------------------- MODULE Binary -------------------------------
(***************************************************************************)
(* The binary form of a geometry, which a key stores and geom.c reads: a   *)
(* sequence of cells, each of which is the mark of the byte order, a type  *)
(* with its dimensions, a count or a number of a coordinate.  Positions    *)
(* are those of cells, where the code counts bytes; a geometry may begin   *)
(* at any of them.                                                         *)
(***************************************************************************)
EXTENDS Integers, SequencesExt

LittleEndian == 1

GeomTypes == <<"POINT", "LINESTRING", "POLYGON", "MULTIPOINT", "MULTILINESTRING",
               "MULTIPOLYGON", "GEOMETRYCOLLECTION">>

TypeCode(type) == CHOOSE code \in DOMAIN GeomTypes : GeomTypes[code] = type

\* How deep the counts of a type are nested, or -1 if geometries are.
Level(type) ==
    CASE type \in {"LINESTRING", "MULTIPOINT"} -> 0
      [] type \in {"POLYGON", "MULTILINESTRING"} -> 1
      [] type = "MULTIPOLYGON" -> 2
      [] type = "GEOMETRYCOLLECTION" -> -1

\* The type cell for the dimensions Z and M.
TypeCell(code, z, m) == code + (IF z THEN 1000 ELSE 0) + (IF m THEN 2000 ELSE 0)

readhdr(g, at) ==
    LET cell == g[at + 1]
    IN  [z |-> (cell \div 1000) % 2 = 1, m |-> cell >= 2000, type |-> GeomTypes[cell % 1000]]

Dims(h) == 2 + (IF h.z THEN 1 ELSE 0) + (IF h.m THEN 1 ELSE 0)

CountAt(g, at) == g[at]

-----------------------------------------------------------------------------
(***************************************************************************)
(* The iterator of a collection.  What is not a collection is skipped by   *)
(* its counts, a nested collection by an iterator of its own.              *)
(***************************************************************************)
\* A step that is a function, taken n times.
Iterated(step, start, n) ==
    LET after[k \in 0 .. n] == IF k = 0 THEN start ELSE step[after[k - 1]]
    IN  after[n]

\* Mutant: the numbers of a coordinate are taken to be two.
AfterSeriesFlat(g, at, level, dims) ==
    LET after[l \in Nat] == [p \in Nat |->
            IF l = 0 THEN p + 1 + 2 * CountAt(g, p)
            ELSE Iterated(after[l - 1], p + 1, CountAt(g, p))]
    IN  after[level][at]

AfterSeries(g, at, level, dims) ==
    LET after[l \in Nat] == [p \in Nat |->
            IF l = 0 THEN p + 1 + dims * CountAt(g, p)
            ELSE Iterated(after[l - 1], p + 1, CountAt(g, p))]
    IN  after[level][at]

geomGeometryCollectionIterator(g, at) == [geom |-> 0, ptr |-> at + 3, count |-> CountAt(g, at + 2)]

\* Where the iterator of a collection ends; next gives the end of each geometry in it.
Exhausted(next, itr) == Iterated(next, itr.ptr, itr.count)

\* The end of a geometry, by how deep others are nested in it: never deeper than g has cells.
GeometryEnd(g, at) ==
    LET end[depth \in Nat] == [p \in Nat |->
            LET h == readhdr(g, p)
            IN  CASE h.type = "GEOMETRYCOLLECTION" ->
                         IF depth = 0 THEN p
                         ELSE Exhausted(end[depth - 1], geomGeometryCollectionIterator(g, p))
                  [] h.type = "POINT" -> p + 2 + Dims(h)
                  [] OTHER -> AfterSeries(g, p + 2, Level(h.type), Dims(h))]
    IN  end[Len(g)][at]

geomIteratorNext(g, itr) ==
    [geom |-> itr.ptr, ptr |-> GeometryEnd(g, itr.ptr), count |-> itr.count - 1]

\* The positions of the geometries that the iterator of a collection gives.
MembersAt(g, at) ==
    LET itr[k \in 0 .. CountAt(g, at + 2)] ==
            IF k = 0 THEN geomGeometryCollectionIterator(g, at) ELSE geomIteratorNext(g, itr[k - 1])
    IN  [k \in 1 .. CountAt(g, at + 2) |-> itr[k].geom]

Gathered(array, members) == FlattenSeq([k \in DOMAIN members |-> array[members[k]]])

\* The positions of the geometries in a collection that are none themselves.
geomGeometryCollectionFlattenedArray(g, at) ==
    LET flattened[depth \in Nat] == [p \in Nat |->
            CASE readhdr(g, p).type # "GEOMETRYCOLLECTION" -> <<p>>
              [] readhdr(g, p).type = "GEOMETRYCOLLECTION" /\ depth = 0 -> <<>>
              [] OTHER -> Gathered(flattened[depth - 1], MembersAt(g, p))]
    IN  flattened[Len(g)][at]
=============================================================================
