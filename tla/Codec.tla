------------------------------- MODULE Codec --------------------------------
(***************************************************************************)
(* A geometry on its way through a key: GIS.ADD decodes a text and stores  *)
(* what it gets, GIS.GET writes it as WKT, a rewrite of the AOF writes it  *)
(* as WKT and loading the AOF decodes that again, GIS.DEL decodes what is  *)
(* stored.  Spatial and Server take geometries for values that survive all *)
(* of this; here is why they may.                                          *)
(***************************************************************************)
EXTENDS Wkt, GeoJson

CONSTANT Texts  \* the texts that clients send

(***************************************************************************)
(* They are words, JSON values that are nested as deep as they say, or     *)
(* anything that begins with the byte of the binary form.  That byte is    *)
(* all that is looked at; what follows has no byte of 0, where a command's *)
(* string ends, so that it is hardly ever what a geometry should be.       *)
(***************************************************************************)
ASSUME TextsAssumption ==
    \A t \in Texts :
        \/ t.format = "wkt" /\ t.tokens \in Seq(Tokens)
        \/ t.format = "json" /\ t.blank \in BOOLEAN /\ t.depth \in Nat /\ t.json \in Json[t.depth]
        \/ t.format = "wkb" /\ t.cells \in Seq(Int) /\ t.cells # <<>> /\ t.cells[1] = LittleEndian

VARIABLES
    text,       \* the text of the last GIS.ADD
    value,      \* what the field holds, or NoValue
    reply,      \* the last reply: a WKT, or a word
    heap        \* the blocks that the commands so far have left behind

vars == <<text, value, reply, heap>>

NoValue == <<>>

WktText(tokens) == [format |-> "wkt", tokens |-> tokens]
JsonText(blank, depth, json) == [format |-> "json", blank |-> blank, depth |-> depth, json |-> json]
StoredText(cells) == [format |-> "wkb", cells |-> cells]

-----------------------------------------------------------------------------
(***************************************************************************)
(* The first byte of a text decides on its format.  A text that begins     *)
(* with blanks is WKT at best.                                             *)
(***************************************************************************)
\* The binary form is copied as it is: "verify that the binary is correct" is still to be done.
geomDecodeWKB(cells) == Outcome("none", cells, Len(cells), 1)

\* The parsed value is freed on both ways out.
geomDecodeJSON(depth, json) ==
    LET decoded == jsonDecodeAny[depth][json]
    IN  IF decoded.ok THEN Outcome("none", decoded.b, 0, decoded.heap)
        ELSE Outcome("input", <<>>, 0, decoded.heap)

geomDecode(t) ==
    CASE t.format = "wkb" -> geomDecodeWKB(t.cells)
      [] t.format = "json" -> IF t.blank THEN Outcome("unsupported", <<>>, 0, 0)
                              ELSE geomDecodeJSON(t.depth, t.json)
      [] t.format = "wkt" -> geomDecodeWKT(t.tokens)

-----------------------------------------------------------------------------
Init ==
    /\ text \in Texts
    /\ value = NoValue
    /\ reply = <<"none">>
    /\ heap = 0

\* decodeOrReply: the value is copied into a string, and freed.
GisAdd ==
    /\ reply = <<"none">>
    /\ LET decoded == geomDecode(text)
       IN  IF decoded.err = "none"
           THEN value' = decoded.g /\ reply' = <<"OK">> /\ heap' = heap + decoded.heap - 1
           ELSE value' = value /\ reply' = <<"ERR">> /\ heap' = heap + decoded.heap
    /\ UNCHANGED text

\* Whether the text was read before it was stored.
Verified == text.format # "wkb"

GisGet ==
    /\ value # NoValue /\ Verified
    /\ reply' = geomEncodeWKT(value)
    /\ UNCHANGED <<text, value, heap>>

\* A rewrite of the AOF and a restart from it.
Reload ==
    /\ value # NoValue /\ Verified
    /\ LET decoded == geomDecode(WktText(geomEncodeWKT(value)))
       IN  /\ value' = IF decoded.err = "none" THEN decoded.g ELSE NoValue
           /\ heap' = heap + decoded.heap - (IF decoded.err = "none" THEN 1 ELSE 0)
    /\ reply' = <<"reloaded">>
    /\ UNCHANGED text

\* What was not read is taken for a geometry all the same: by GIS.ADD itself for its bounds, by
\* GIS.GET, by GIS.DEL and by a rewrite of the AOF.  They read on as its counts say, which may
\* be past its end: what they do then is undefined, and the model ends there.
Undefined == <<"undefined">>

ReadUnverified ==
    /\ value # NoValue /\ ~Verified
    /\ reply # Undefined
    /\ reply' = Undefined
    /\ UNCHANGED <<text, value, heap>>

\* GIS.DEL looks for the entry of the field under the bounds of a decoded copy.  Bounds are zero
\* if its type is none, so that what was not read may be deleted, too.
GisDel ==
    /\ value # NoValue /\ reply # Undefined
    /\ LET decoded == geomDecode(StoredText(value))
       IN  /\ reply' = IF decoded.err = "none" THEN <<"deleted">> ELSE <<"ERR">>
           /\ value' = IF decoded.err = "none" THEN NoValue ELSE value
           /\ heap' = heap + decoded.heap - (IF decoded.err = "none" THEN 1 ELSE 0)
    /\ UNCHANGED text

Next == GisAdd \/ GisGet \/ Reload \/ ReadUnverified \/ GisDel

Spec == Init /\ [][Next]_vars

-----------------------------------------------------------------------------
(***************************************************************************)
(* Types of the variables: what a field holds is a geometry from its first *)
(* cell to its last, by its own counts, if its text was read at all.       *)
(***************************************************************************)
TypeOK ==
    /\ value \in Seq(Int)
    /\ value # NoValue /\ Verified => geomEncodeWKTInner(value, 1).at = Len(value) + 1
    /\ heap \in Nat

(***************************************************************************)
(* What a text was read as survives a rewrite of the AOF and a load, however *)
(* often: no value is refused by the reader of what the writer writes, the *)
(* reply of GIS.GET stays the same, and the coordinates that searches use  *)
(* are the same numbers.                                                   *)
(***************************************************************************)
Stored == geomDecode(text).g

Leaves(g) ==
    IF readhdr(g, 1).type # "GEOMETRYCOLLECTION" THEN <<1>>
    ELSE geomGeometryCollectionFlattenedArray(g, 1)

\* A geometry without coordinates may lose its Z: nothing shows it.
SameLeaf(g, at, h, there) ==
    LET written == geomEncodeWKTInner(g, at)
    IN  \/ SubSeq(g, at, written.at - 1) = SubSeq(h, there, there + written.at - at - 1)
        \/ \A i \in DOMAIN written.text : ~IsNumber(written.text[i])

ReloadKeeps ==
    reply = <<"reloaded">> =>
        /\ value # NoValue
        /\ geomEncodeWKT(value) = geomEncodeWKT(Stored)
        /\ Len(Leaves(value)) = Len(Leaves(Stored))
        /\ \A n \in DOMAIN Leaves(value) :
              SameLeaf(Stored, Leaves(Stored)[n], value, Leaves(value)[n])

(***************************************************************************)
(* The flattened array of a collection, which its bounds and its poly map  *)
(* are taken from, has the geometries in it, those of nested collections   *)
(* included, from left to right: writing each where the array says gives   *)
(* the text of the whole without the names of collections and their        *)
(* brackets (all brackets and each M are left out on both sides).          *)
(***************************************************************************)
Bare(tokens) ==
    FlattenSeq([i \in DOMAIN tokens |->
                   IF tokens[i] \in {"GEOMETRYCOLLECTION", "M", "(", ")", ","} THEN <<>> ELSE <<tokens[i]>>])

FlattenedWhole ==
    value # NoValue /\ Verified /\ readhdr(value, 1).type = "GEOMETRYCOLLECTION" =>
        LET parts == [n \in DOMAIN Leaves(value) |-> geomEncodeWKTInner(value, Leaves(value)[n]).text]
        IN  /\ \A n \in DOMAIN parts : parts[n][1] # "GEOMETRYCOLLECTION"
            /\ LET bare == [n \in DOMAIN parts |-> Bare(parts[n])]
               IN  Bare(geomEncodeWKT(value)) = FlattenSeq(bare)

(***************************************************************************)
(* What is stored, written as GeoJSON and decoded again, is what it was,   *)
(* if nothing in it has an M.                                              *)
(***************************************************************************)
HasM(g) == "M" \in Range(geomEncodeWKT(g)) \/ \E n \in DOMAIN Leaves(g) : readhdr(g, Leaves(g)[n]).m

JsonKeeps ==
    value # NoValue /\ Verified /\ ~HasM(value) =>
        LET again == geomDecode(JsonText(FALSE, Len(value), geomEncodeJSON(value)))
        IN  again.err = "none" /\ geomEncodeWKT(again.g) = geomEncodeWKT(value)

(***************************************************************************)
(* A command leaves no block behind, whether its text is taken or refused, *)
(* and at whatever depth of nested collections it is refused.              *)
(***************************************************************************)
NothingLeaks == heap = 0
=============================================================================
