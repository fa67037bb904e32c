------------------------------- MODULE GisMap -------------------------------
(***************************************************************************)
(* What one TairGis key promises to its clients: a map from fields to      *)
(* geometries, with no index, no private ids and no loading in it.         *)
(* Spatial is shown to implement this specification.                       *)
(***************************************************************************)
EXTENDS Rect, FiniteSets

CONSTANTS
    Fields,         \* the field names of a key
    Geoms,          \* the geometries that decode
    Queries,        \* what a search may ask for
    Limits,         \* the values of the LIMIT option; 0 is no limit
    Bounds(_),      \* the bounding rectangle of a geometry
    Window(_),      \* the rectangle a query searches the tree with
    Match(_, _)     \* whether a geometry satisfies a query

VARIABLES
    exists,         \* whether the key is in the keyspace
    map,            \* the geometry of every field
    saved,          \* what a restart brings back
    found,          \* the fields of the last search
    reply           \* the reply to the last command

vars == <<exists, map, saved, found, reply>>

NoFields == [f \in {} |-> f]

Maps == UNION {[fs -> Geoms] : fs \in SUBSET Fields}

TypeOK ==
    /\ exists \in BOOLEAN
    /\ map \in Maps
    /\ saved \in [exists : BOOLEAN, map : Maps]
    /\ found \subseteq Fields
    /\ reply \in {"none", "count", "ok", "null", "invalid", "array"}

Init ==
    /\ exists = FALSE
    /\ map = NoFields
    /\ saved = [exists |-> FALSE, map |-> NoFields]
    /\ found = {}
    /\ reply = "none"

\* The fields a query asks for, wherever they are stored.
Answers(q) == {f \in DOMAIN map : Overlap(Window(q), Bounds(map[f])) /\ Match(map[f], q)}

\* What a client receives: a status, or the fields of a search.
Reply(r) == reply' = r /\ found' = {}

\* One pair of a GIS.ADD.
Put(f, g) ==
    /\ exists' = TRUE
    /\ map' = [x \in DOMAIN map \union {f} |-> IF x = f THEN g ELSE map[x]]
    /\ Reply("none")
    /\ UNCHANGED saved

\* The first thing a GIS.ADD does, whatever it is given.
Create ==
    /\ exists' = TRUE
    /\ Reply("none")
    /\ UNCHANGED <<map, saved>>

\* The end of a GIS.ADD: all its pairs are stored, or one did not decode.
AddReply(r) ==
    /\ exists
    /\ r \in {"count", "invalid"}
    /\ Reply(r)
    /\ UNCHANGED <<exists, map, saved>>

\* A key that loses its last field is deleted.
Del(f) ==
    /\ UNCHANGED saved
    /\ \/ /\ f \in DOMAIN map
          /\ map' = [x \in DOMAIN map \ {f} |-> map[x]]
          /\ exists' = (DOMAIN map # {f})
          /\ Reply("ok")
       \/ /\ f \notin DOMAIN map
          /\ Reply("null")
          /\ UNCHANGED <<exists, map>>

\* With a limit, as many of the answers as it allows.
Search(q, limit) ==
    /\ found' \in SUBSET Answers(q)
    /\ limit = 0 => found' = Answers(q)
    /\ limit > 0 => Cardinality(found') = lesser(limit, Cardinality(Answers(q)))
    /\ reply' = "array"
    /\ UNCHANGED <<exists, map, saved>>

Save ==
    /\ saved' = [exists |-> exists, map |-> map]
    /\ UNCHANGED <<exists, map, found, reply>>

Restart ==
    /\ exists' = saved.exists
    /\ map' = saved.map
    /\ Reply("none")
    /\ UNCHANGED saved

\* DEL, an expiry or FLUSHALL: the key goes as a whole.
Drop ==
    /\ exists' = FALSE
    /\ map' = NoFields
    /\ Reply("none")
    /\ UNCHANGED saved

Next ==
    \/ \E f \in Fields, g \in Geoms : Put(f, g)
    \/ Create
    \/ \E r \in {"count", "invalid"} : AddReply(r)
    \/ \E f \in Fields : Del(f)
    \/ \E q \in Queries, limit \in Limits : Search(q, limit)
    \/ Save
    \/ Restart
    \/ Drop

Spec == Init /\ [][Next]_vars

=============================================================================
