------------------------------ MODULE MCSearch ------------------------------
(***************************************************************************)
(* Instances of Search for TLC.  asc is a point whose name is an option.   *)
(***************************************************************************)
EXTENDS Search

asc == <<"word", "ASC">>
b == <<"field", "b">>
c == <<"field", "c">>

MCPoints == {asc, c}
MCShapes == {b}

\* From Zero, asc is far away; from elsewhere, b and c are close, and so are c and asc, but not b and asc.
MCDistanceFrom(origin, f) ==
    CASE f = asc -> IF origin = Zero THEN 30 ELSE 5
      [] f = b -> IF origin = Zero THEN 2 ELSE 3
      [] f = c -> IF origin = Zero THEN 1 ELSE 4

W(word) == <<"word", word>>
N(number) == <<"number", number>>
Meter == <<"unit", 1>>
Km == <<"unit", 1000>>
Wkt == <<"wkt", "polygon">>
Junk == <<"word", "CURSOR">>

Radius == <<W("RADIUS"), N(15), N(37), N(2), Meter>>
Member == <<W("MEMBER"), asc, N(1), Km>>
Geom == <<W("GEOM"), <<"wkt", "point">>>>

Good == {Radius, Member, Geom, <<Junk>>, <<W("WITHDIST")>>, <<W("WITHOUTWKT")>>, <<W("WITHVALUE")>>,
         <<W("COUNT"), N(1)>>, <<W("LIMIT"), N(2)>>, <<W("ASC")>>, <<W("DESC")>>}

Unusable == {[Radius EXCEPT ![2] = N(181)], [Radius EXCEPT ![3] = N(-91)], [Radius EXCEPT ![5] = Junk],
             [Member EXCEPT ![2] = b], [Member EXCEPT ![2] = Junk], <<W("GEOM"), Junk>>,
             <<W("COUNT"), N(0)>>, <<W("COUNT"), Junk>>, <<W("LIMIT"), N(0)>>}

Truncated == {SubSeq(phrase, 1, n) : phrase \in {Radius}, n \in 1 .. 4}
                \union {SubSeq(phrase, 1, n) : phrase \in {Member}, n \in 1 .. 3}
                \union {<<W("GEOM")>>, <<W("COUNT")>>, <<W("LIMIT")>>}

First == {<<>>, <<<<Wkt>>>>, <<<<Junk>>>>}

\* An option that can be used, and any other one.
MCParseRequests ==
    First \union {first \o <<x>> : first \in First, x \in Good \union Unusable \union Truncated}
          \union {first \o <<x, y>> : first \in First \ {<<<<Junk>>>>}, x \in Good,
                                     y \in Good \union Unusable \union Truncated}

Counts == {<<>>} \union {<<<<W("COUNT"), N(n)>>>> : n \in 1 .. 3}
Limits == {<<>>} \union {<<<<W("LIMIT"), N(n)>>>> : n \in {2, 3}}
Orders == {<<>>, <<<<W("ASC")>>>>, <<<<W("DESC")>>>>}
Withs == {<<>>, <<<<W("WITHDIST")>>>>, <<<<W("WITHOUTWKT")>>>>, <<<<W("WITHOUTWKT")>>, <<W("WITHDIST")>>>>}

\* A target with every combination of the options for results.
MCResultRequests ==
    {target \o count \o limit \o order \o with :
        target \in {<<Radius>>, <<<<Wkt>>>>}, count \in Counts, limit \in Limits, order \in Orders, with \in Withs}
        \union Withs

MCRequests == MCParseRequests \union MCResultRequests
=============================================================================
