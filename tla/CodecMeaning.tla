---------------------------- MODULE CodecMeaning ----------------------------
(***************************************************************************)
(* What the texts of Codec mean, by a grammar that is read in another way  *)
(* than the code reads them.                                               *)
(***************************************************************************)
EXTENDS Codec

Ref == INSTANCE Grammar

(***************************************************************************)
(* GIS.ADD takes the WKT that the grammar allows and no other text: a text *)
(* with a token too many, too few or out of place is refused at whatever   *)
(* depth.  And what it stores is what the text means: every number is in   *)
(* its place, with the dimensions of the geometry's first coordinate or of *)
(* the word after its name, whatever the geometries around it have.  Only  *)
(* the m of a coordinate that gives two numbers where the first one gave   *)
(* four is not said by the text.                                           *)
(***************************************************************************)
Fresh == reply = <<"OK">> \/ reply = <<"ERR">>

WktAsMeant ==
    Fresh /\ text.format = "wkt" =>
        /\ reply = <<"OK">> <=> Ref!IsGeometry(text.tokens)
        /\ reply = <<"OK">> => Ref!Means(value, Ref!Meaning(text.tokens))

(***************************************************************************)
(* GeoJSON is stored as the WKT of the same geometry would be, but for m:  *)
(* objects with members of other names, kinds and numbers included.  Mixed *)
(* dimensions and anything else that is no geometry are refused.           *)
(***************************************************************************)
JsonAsMeant ==
    Fresh /\ text.format = "json" =>
        /\ reply = <<"OK">> <=> ~text.blank /\ Ref!IsGeoJson(text.json)
        /\ reply = <<"OK">> => Ref!Means(value, Ref!Meaning(Ref!WktOf(text.json)))
=============================================================================
