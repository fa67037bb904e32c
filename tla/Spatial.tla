------------------------------ MODULE Spatial -------------------------------
(***************************************************************************)
(* One TairGis key: the object of src/spatial.h that its value is, the     *)
(* functions of src/spatial.c that change and search it, and the command   *)
(* handlers and RDB callbacks of src/tairgis.c that call them.             *)
(*                                                                         *)
(* Redis runs one command at a time.  A loop over pairs (GIS.ADD, RDB      *)
(* load) is a step per pair, and no other command starts before it ends;   *)
(* only a crash may fall between two pairs.                                *)
(***************************************************************************)
EXTENDS RTreeIndex, Sequences

CONSTANTS
    Fields,         \* the field names of a key
    Geoms,          \* the geometries that decode
    Bad,            \* a text that does not decode
    Queries,        \* what a search may ask for
    Limits,         \* the values of the LIMIT option; 0 is no limit
    Bounds(_),      \* geomBounds: the bounding rectangle of a geometry
    Window(_),      \* the rectangle a query searches the tree with
    Match(_, _),    \* matchSearch: whether a geometry satisfies a query
    IdxMod,         \* how many values the private id has: 2^64 in the code
    MaxSets,        \* bound of the model: calls of spatialTypeSet per object
    MaxPairs        \* bound of the model: pairs of a GIS.ADD

ASSUME BoundsAssumption ==
    \A g \in Geoms : Bounds(g) \in RectType /\ Ordered(Bounds(g))

ASSUME BadAssumption == Bad \notin Geoms

ASSUME LimitsAssumption == Limits \subseteq Nat

\* An object does not live long enough for its private ids to come round.
ASSUME IdxAssumption ==
    /\ IdxMod \in Nat \ {0}
    /\ MaxSets \in Nat
    /\ MaxSets <= IdxMod
    /\ MaxPairs \in Nat

VARIABLES
    exists,         \* whether the key is in the keyspace
    s,              \* the struct spatial of the key
    sets,           \* ghost: the calls of spatialTypeSet since spatialNew
    mode,           \* the loop that is running: "idle", "add" or "load"
    todo,           \* the pairs it has left
    rdb,            \* the RDB file: whether the key is there, and its pairs
    results,        \* ctx.results of the last search: private id -> field
    reply           \* the reply to the last command

vars == <<exists, s, sets, mode, todo, rdb, results, reply>>

Idx == 0 .. IdxMod - 1

\* A Redis dictionary.
Dict(keys, values) == UNION {[ks -> values] : ks \in SUBSET keys}

NoEntries == [x \in {} |-> x]

DictDel(d, k) == [x \in DOMAIN d \ {k} |-> d[x]]

GisModule_DictInsertOrUpdate(d, k, v) ==
    [x \in DOMAIN d \union {k} |-> IF x = k THEN v ELSE d[x]]

SpatialType ==
    [h : Dict(Fields, Geoms), keyhash : Dict(Fields, Idx), idxhash : Dict(Idx, Fields),
     tr : SUBSET [item : Idx, rect : RectType], idx : Idx]

-----------------------------------------------------------------------------
(***************************************************************************)
(* src/spatial.c                                                           *)
(***************************************************************************)
\* RedisModule_Alloc does not clear memory and spatialNew does not set idx: the first
\* private id is whatever was there.
SpatialNew(start) ==
    [h |-> NoEntries, keyhash |-> NoEntries, idxhash |-> NoEntries, tr |-> {}, idx |-> start]

\* Mutant: the id does not wrap around.
NextIdxUnbounded(i) == i + 1

NextIdx(i) == IF i = IdxMod - 1 THEN 0 ELSE i + 1

\* The three deletions of spatialTypeDelete, which stop at the first that fails.
\* Mutant: the id keeps leading to the field.
DelEntriesKeepId(o, f) == [o EXCEPT !.h = DictDel(@, f), !.keyhash = DictDel(@, f)]

DelEntries(o, f) ==
    LET i == o.keyhash[f]
    IN  IF f \notin DOMAIN o.h THEN o
        ELSE IF i \notin DOMAIN o.idxhash THEN [o EXCEPT !.h = DictDel(@, f)]
        ELSE [o EXCEPT !.h = DictDel(@, f),
                       !.idxhash = DictDel(@, i),
                       !.keyhash = DictDel(@, f)]

\* spatialTypeDelete(o, f, &r): the objects it may leave.
SpatialTypeDelete(o, f, r) ==
    IF f \notin DOMAIN o.keyhash THEN {o}
    ELSE {DelEntries([o EXCEPT !.tr = t], f) : t \in RemoveOutcomes(o.tr, o.keyhash[f], r)}

\* The result of spatialTypeDelete: 1 when the field was there and all its entries went.
DeleteSucceeds(o, f) ==
    /\ f \in DOMAIN o.keyhash
    /\ f \in DOMAIN o.h
    /\ o.keyhash[f] \in DOMAIN o.idxhash

\* The new entries of spatialTypeSet, under the next private id.
\* Mutant: the tree gets the id of the entry before.
AddEntriesOldId(o, f, g) ==
    LET i == NextIdx(o.idx)
    IN  [h |-> GisModule_DictInsertOrUpdate(o.h, f, g),
         keyhash |-> GisModule_DictInsertOrUpdate(o.keyhash, f, i),
         idxhash |-> GisModule_DictInsertOrUpdate(o.idxhash, i, f),
         tr |-> Inserted(o.tr, o.idx, Bounds(g)),
         idx |-> i]

\* Mutant: the id of the field is not recorded.
AddEntriesNoKey(o, f, g) ==
    LET i == NextIdx(o.idx)
    IN  [o EXCEPT !.h = GisModule_DictInsertOrUpdate(@, f, g),
                  !.idxhash = GisModule_DictInsertOrUpdate(@, i, f),
                  !.tr = Inserted(@, i, Bounds(g)),
                  !.idx = i]

AddEntries(o, f, g) ==
    LET i == NextIdx(o.idx)
    IN  [h |-> GisModule_DictInsertOrUpdate(o.h, f, g),
         keyhash |-> GisModule_DictInsertOrUpdate(o.keyhash, f, i),
         idxhash |-> GisModule_DictInsertOrUpdate(o.idxhash, i, f),
         tr |-> Inserted(o.tr, i, Bounds(g)),
         idx |-> i]

\* spatialTypeSet(o, f, g): the old value goes with the rectangle of the new one.
\* Mutant: an update does not delete first.
SpatialTypeSetOver(o, f, g) == {AddEntries(o, f, g)}

\* Mutant: an update keeps the private id of the field.
SpatialTypeSetSameId(o, f, g) ==
    IF f \in DOMAIN o.keyhash
    THEN {[o EXCEPT !.h = GisModule_DictInsertOrUpdate(@, f, g),
                    !.tr = Inserted(t, o.keyhash[f], Bounds(g))] :
             t \in RemoveOutcomes(o.tr, o.keyhash[f], Bounds(g))}
    ELSE {AddEntries(o, f, g)}

SpatialTypeSet(o, f, g) ==
    {AddEntries(d, f, g) : d \in SpatialTypeDelete(o, f, Bounds(g))}

\* The private ids that rtreeSearch reports and that searchIterator accepts.
Hits(o, q) ==
    {i \in Found(o.tr, Window(q)) \intersect DOMAIN o.idxhash :
        /\ o.idxhash[i] \in DOMAIN o.h
        /\ Match(o.h[o.idxhash[i]], q)}

\* searchIterator over the tree, in whatever order the tree has, until the limit.
\* Mutant: left-over entries count against the limit.
SearchResultsCountAll(o, q, limit) ==
    LET visited == {is \in SUBSET Found(o.tr, Window(q)) :
                       limit > 0 => Cardinality(is) = lesser(limit, Cardinality(Found(o.tr, Window(q))))}
    IN  {[i \in is \intersect Hits(o, q) |-> o.idxhash[i]] : is \in visited}

SearchResults(o, q, limit) ==
    LET hits == Hits(o, q)
        kept == {is \in SUBSET hits :
                    /\ limit = 0 => is = hits
                    /\ limit > 0 => Cardinality(is) = lesser(limit, Cardinality(hits))}
    IN  {[i \in is |-> o.idxhash[i]] : is \in kept}

-----------------------------------------------------------------------------
(***************************************************************************)
(* src/tairgis.c                                                           *)
(***************************************************************************)
NoObject == SpatialNew(0)

Reply(r) == reply' = r /\ results' = NoEntries

Init ==
    /\ exists = FALSE
    /\ s = NoObject
    /\ sets = 0
    /\ mode = "idle"
    /\ todo = <<>>
    /\ rdb = [exists |-> FALSE, pairs |-> <<>>]
    /\ results = NoEntries
    /\ reply = "none"

\* GIS.ADD: the key is created before any of the pairs is looked at.
GisAdd(pairs) ==
    /\ mode = "idle"
    /\ sets + Len(pairs) <= MaxSets
    /\ mode' = "add"
    /\ todo' = pairs
    /\ Reply("none")
    /\ exists' = TRUE
    /\ IF exists THEN UNCHANGED <<s, sets>>
       ELSE /\ \E start \in Idx : s' = SpatialNew(start)
            /\ sets' = 0
    /\ UNCHANGED rdb

\* One round of the loop of GIS.ADD or of RDB load, on a pair that decodes.
StorePair ==
    /\ mode # "idle"
    /\ todo # <<>>
    /\ Head(todo)[2] # Bad
    /\ sets < MaxSets
    /\ s' \in SpatialTypeSet(s, Head(todo)[1], Head(todo)[2])
    /\ sets' = sets + 1
    /\ todo' = Tail(todo)
    /\ UNCHANGED <<exists, mode, rdb, results, reply>>

\* A pair that does not decode ends the command; what was stored stays.
AddInvalid ==
    /\ mode = "add"
    /\ todo # <<>>
    /\ Head(todo)[2] = Bad
    /\ mode' = "idle"
    /\ todo' = <<>>
    /\ Reply("invalid")
    /\ UNCHANGED <<exists, s, sets, rdb>>

AddDone ==
    /\ mode = "add"
    /\ todo = <<>>
    /\ mode' = "idle"
    /\ Reply("count")
    /\ UNCHANGED <<exists, s, sets, todo, rdb>>

\* GIS.DEL: the stored value gives the rectangle; the last field takes the key with it.
GisDel(f) ==
    /\ mode = "idle"
    /\ IF f \notin DOMAIN s.h
       THEN Reply("null") /\ UNCHANGED <<exists, s, sets>>
       ELSE \E o \in SpatialTypeDelete(s, f, Bounds(s.h[f])) :
              IF ~DeleteSucceeds(s, f)
              THEN Reply("fail") /\ s' = o /\ UNCHANGED <<exists, sets>>
              ELSE /\ Reply("ok")
                   /\ IF o.keyhash = NoEntries
                      THEN exists' = FALSE /\ s' = NoObject /\ sets' = 0
                      ELSE s' = o /\ UNCHANGED <<exists, sets>>
    /\ UNCHANGED <<mode, todo, rdb>>

\* GIS.SEARCH, GIS.CONTAINS, GIS.WITHIN, GIS.INTERSECTS.
GisSearch(q, limit) ==
    /\ mode = "idle"
    /\ results' \in SearchResults(s, q, limit)
    /\ reply' = "array"
    /\ UNCHANGED <<exists, s, sets, mode, todo, rdb>>

\* The pairs of a dictionary one after the other, in any order.
Listings(d) ==
    LET pairs == {<<f, d[f]>> : f \in DOMAIN d}
    IN  {l \in UNION {[1 .. n -> pairs] : n \in 0 .. MaxSets} :
            /\ {l[n] : n \in DOMAIN l} = pairs
            /\ \A m, n \in DOMAIN l : l[m] = l[n] => m = n}

\* ExGisTypeRdbSave, in a child process that sees the key as it is between two commands.
RdbSave ==
    /\ mode = "idle"
    /\ \E pairs \in Listings(s.h) : rdb' = [exists |-> exists, pairs |-> pairs]
    /\ UNCHANGED <<exists, s, sets, mode, todo, results, reply>>

\* The process dies, at any point, and a new one starts to load the file.
Restart ==
    /\ exists' = rdb.exists
    /\ IF rdb.exists
       THEN mode' = "load" /\ \E start \in Idx : s' = SpatialNew(start)
       ELSE mode' = "idle" /\ s' = NoObject
    /\ sets' = 0
    /\ todo' = rdb.pairs
    /\ Reply("none")
    /\ UNCHANGED rdb

LoadDone ==
    /\ mode = "load"
    /\ todo = <<>>
    /\ mode' = "idle"
    /\ UNCHANGED <<exists, s, sets, todo, rdb, results, reply>>

\* ExGisTypeFree, when Redis itself removes the key: DEL, an expiry, FLUSHALL.
DropKey ==
    /\ mode = "idle"
    /\ exists' = FALSE
    /\ s' = NoObject
    /\ sets' = 0
    /\ Reply("none")
    /\ UNCHANGED <<mode, todo, rdb>>

Arguments == UNION {[1 .. n -> Fields \X (Geoms \union {Bad})] : n \in 1 .. MaxPairs}

Next ==
    \/ \E pairs \in Arguments : GisAdd(pairs)
    \/ StorePair
    \/ AddInvalid
    \/ AddDone
    \/ \E f \in Fields : GisDel(f)
    \/ \E q \in Queries, limit \in Limits : GisSearch(q, limit)
    \/ RdbSave
    \/ Restart
    \/ LoadDone
    \/ DropKey

Spec == Init /\ [][Next]_vars

-----------------------------------------------------------------------------
(***************************************************************************)
(* Properties.                                                             *)
(***************************************************************************)
TypeOK ==
    /\ exists \in BOOLEAN
    /\ s \in SpatialType
    /\ sets \in 0 .. MaxSets
    /\ mode \in {"idle", "add", "load"}
    /\ todo \in Seq(Fields \X (Geoms \union {Bad}))
    /\ rdb \in [exists : BOOLEAN, pairs : Seq(Fields \X Geoms)]
    /\ results \in Dict(Idx, Fields)
    /\ reply \in {"none", "count", "ok", "null", "invalid", "fail", "array"}

DictsAgree(o) ==
    /\ DOMAIN o.h = DOMAIN o.keyhash
    /\ \A f \in DOMAIN o.keyhash :
          o.keyhash[f] \in DOMAIN o.idxhash /\ o.idxhash[o.keyhash[f]] = f
    /\ \A i \in DOMAIN o.idxhash :
          o.idxhash[i] \in DOMAIN o.keyhash /\ o.keyhash[o.idxhash[i]] = i

FieldsIndexed(o) ==
    \A f \in DOMAIN o.h : [item |-> o.keyhash[f], rect |-> Bounds(o.h[f])] \in o.tr

\* How many calls of spatialTypeSet ago the id i was given out.
Age(o, i) == IF i <= o.idx THEN o.idx - i ELSE o.idx - i + IdxMod

IdsRecent(o, n) == \A i \in ItemsOf(o.tr) \union DOMAIN o.idxhash : Age(o, i) < n

IdsUnique(o) == \A d, e \in o.tr : d.item = e.item => d = e

\* The three dictionaries of an object describe the same fields: keyhash and idxhash are
\* inverse to each other, and every field with an id has a value.  Setting and deleting a
\* field touch all three in sequence, and an update reuses neither the id nor the entries
\* of the value it replaces.
DictionariesAgree == DictsAgree(s)

\* Every field is in the tree under its current id and the bounds of its current value,
\* whatever updates, deletions and reloads came before: a search that starts from the
\* tree can reach it.
EveryFieldIndexed == FieldsIndexed(s)

\* The ids in the tree and in the dictionaries were all given out by the last calls of
\* spatialTypeSet on this object, wherever the uninitialised idx started and even if it
\* wrapped around: so the next id is free.
IdsAreRecent == IdsRecent(s, sets)

\* No two entries of the tree carry the same id, entries left behind by updates included,
\* so that a left-over entry never stands for a live field.
IdsAreUnique == IdsUnique(s)

\* A deletion of a field that is there never ends half-way ("ERR delete geo fail!").
DeleteNeverFails == reply # "fail"

\* A search lists each field once, although the tree may hold several entries that were
\* stored for it.
EachFieldOnce ==
    \A i, j \in DOMAIN results : results[i] = results[j] => i = j

\* The map that a sequence of pairs stands for.
Names(pairs) == {pairs[n][1] : n \in DOMAIN pairs}

ValueIn(pairs, f) == (CHOOSE p \in {pairs[n] : n \in DOMAIN pairs} : p[1] = f)[2]

SavedMap == [f \in Names(rdb.pairs) |-> ValueIn(rdb.pairs, f)]

\* What the pairs still to be loaded will make of the object's fields.
Loaded ==
    [f \in DOMAIN s.h \union Names(todo) |->
        IF f \in Names(todo) THEN ValueIn(todo, f) ELSE s.h[f]]

\* What a client sees: while the RDB file is loaded no command runs, and the key already
\* counts as what it will be.
ClientMap == IF mode = "load" THEN Loaded ELSE s.h

ClientFound == {results[i] : i \in DOMAIN results}

Client == INSTANCE GisMap WITH
    map <- ClientMap,
    saved <- [exists |-> rdb.exists, map |-> SavedMap],
    found <- ClientFound

\* To its clients the key is a map from fields to geometries: a search finds exactly the
\* fields whose current value qualifies, LIMIT drops answers only when there are more of
\* them than it allows (entries left over in the tree do not count), the key disappears
\* with its last field, and a reload from the RDB file brings back the saved map.
ImplementsGisMap == Client!Spec

=============================================================================
