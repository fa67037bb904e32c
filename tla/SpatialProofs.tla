--------------------------- MODULE SpatialProofs ----------------------------
(***************************************************************************)
(* Proofs about Spatial, for any fields, geometries and queries and any    *)
(* width of the private id: types and consistency first, then that Spatial *)
(* implements GisMap, which is the proof behind ImplementsGisMap, for any  *)
(* limits and bounds.                                                      *)
(***************************************************************************)
EXTENDS Spatial, TLAPS, FiniteSetTheorems

-----------------------------------------------------------------------------
(***************************************************************************)
(* Dictionaries.                                                           *)
(***************************************************************************)
\* A dictionary from K to V is a function on a part of K with values in V.
LEMMA DictMembers ==
    ASSUME NEW K, NEW V, NEW d
    PROVE  d \in Dict(K, V) <=> DOMAIN d \subseteq K /\ d \in [DOMAIN d -> V]
  BY DEF Dict

\* Deleting a key leaves a dictionary of the same type.
LEMMA DictDelType ==
    ASSUME NEW K, NEW V, NEW d \in Dict(K, V), NEW k
    PROVE  DictDel(d, k) \in Dict(K, V)
  <1>1. DOMAIN d \subseteq K /\ d \in [DOMAIN d -> V]
    BY DictMembers
  <1>2. DOMAIN DictDel(d, k) \subseteq K /\ DictDel(d, k) \in [DOMAIN DictDel(d, k) -> V]
    BY <1>1 DEF DictDel
  <1> QED BY <1>2, DictMembers

\* Setting a key leaves a dictionary of the same type.
LEMMA DictSetType ==
    ASSUME NEW K, NEW V, NEW d \in Dict(K, V), NEW k \in K, NEW v \in V
    PROVE  GisModule_DictInsertOrUpdate(d, k, v) \in Dict(K, V)
  <1> DEFINE e == GisModule_DictInsertOrUpdate(d, k, v)
  <1>1. DOMAIN d \subseteq K /\ d \in [DOMAIN d -> V]
    BY DictMembers
  <1>2. DOMAIN e \subseteq K /\ e \in [DOMAIN e -> V]
    BY <1>1 DEF GisModule_DictInsertOrUpdate
  <1> HIDE DEF e
  <1> QED BY <1>2, DictMembers DEF e

-----------------------------------------------------------------------------
(***************************************************************************)
(* The invariant of an object on which spatialTypeSet was called n times.  *)
(***************************************************************************)
ObjectInv(o, n) ==
    /\ o \in SpatialType
    /\ DictsAgree(o)
    /\ FieldsIndexed(o)
    /\ IdsRecent(o, n)
    /\ IdsUnique(o)

\* A new object satisfies it, whatever its first id.
LEMMA NewObject ==
    ASSUME NEW start \in Idx
    PROVE  ObjectInv(SpatialNew(start), 0)
  <1> DEFINE o == SpatialNew(start)
  <1>1. NoEntries \in Dict(Fields, Geoms) /\ NoEntries \in Dict(Fields, Idx) /\ NoEntries \in Dict(Idx, Fields)
    BY DictMembers DEF NoEntries
  <1>2. o \in SpatialType
    BY <1>1 DEF SpatialNew, SpatialType
  <1>3. DictsAgree(o) /\ FieldsIndexed(o) /\ IdsRecent(o, 0) /\ IdsUnique(o)
    BY DEF SpatialNew, NoEntries, DictsAgree, FieldsIndexed, IdsRecent, IdsUnique, ItemsOf
  <1> QED BY <1>2, <1>3 DEF ObjectInv

\* What a removal leaves of the tree: a part of it, with every entry of another item.
LEMMA Removals ==
    ASSUME NEW es, NEW i, NEW r, NEW t \in RemoveOutcomes(es, i, r)
    PROVE  /\ t \subseteq es
           /\ \A e \in es : e.item # i => e \in t
  BY DEF RemoveOutcomes

\* spatialTypeDelete keeps the invariant, takes the field out of all dictionaries and
\* leaves the other fields and the id counter alone.
LEMMA DeleteKeeps ==
    ASSUME NEW o, NEW n \in Nat, ObjectInv(o, n), NEW f \in Fields, NEW r,
           NEW d \in SpatialTypeDelete(o, f, r)
    PROVE  /\ ObjectInv(d, n)
           /\ d.idx = o.idx
           /\ f \notin DOMAIN d.keyhash
           /\ d.h = DictDel(o.h, f)
  <1>a. o \in SpatialType /\ DictsAgree(o) /\ FieldsIndexed(o) /\ IdsRecent(o, n) /\ IdsUnique(o)
    BY DEF ObjectInv
  <1>1. CASE f \notin DOMAIN o.keyhash
    <2>1. d = o
      BY <1>1 DEF SpatialTypeDelete
    <2>2. f \notin DOMAIN o.h
      BY <1>1, <1>a DEF DictsAgree
    <2>3. o.h \in [DOMAIN o.h -> Geoms]
      BY <1>a, DictMembers DEF SpatialType
    <2>4. o.h = DictDel(o.h, f)
      BY <2>2, <2>3 DEF DictDel
    <2> QED BY <1>1, <2>1, <2>4
  <1>2. CASE f \in DOMAIN o.keyhash
    <2> DEFINE i == o.keyhash[f]
    <2>1. f \in DOMAIN o.h /\ i \in DOMAIN o.idxhash /\ o.idxhash[i] = f
      BY <1>2, <1>a DEF DictsAgree
    <2>2. PICK t \in RemoveOutcomes(o.tr, i, r) : d = DelEntries([o EXCEPT !.tr = t], f)
      BY <1>2 DEF SpatialTypeDelete
    <2>3. d = [h |-> DictDel(o.h, f), keyhash |-> DictDel(o.keyhash, f),
               idxhash |-> DictDel(o.idxhash, i), tr |-> t, idx |-> o.idx]
      BY <2>1, <2>2, <1>a DEF DelEntries, SpatialType
    <2>4. t \subseteq o.tr /\ \A e \in o.tr : e.item # i => e \in t
      BY <2>2, Removals
    <2>5. d \in SpatialType
      BY <2>3, <2>4, <1>a, DictDelType DEF SpatialType
    <2>6. DictsAgree(d)
      BY <2>1, <2>3, <1>a DEF DictsAgree, DictDel
    <2>7. FieldsIndexed(d)
      <3> SUFFICES ASSUME NEW x \in DOMAIN d.h
                   PROVE  [item |-> d.keyhash[x], rect |-> Bounds(d.h[x])] \in t
        BY <2>3 DEF FieldsIndexed
      <3>1. x # f /\ x \in DOMAIN o.h /\ x \in DOMAIN o.keyhash
        BY <2>3, <1>a DEF DictDel, DictsAgree
      <3>2. d.h[x] = o.h[x] /\ d.keyhash[x] = o.keyhash[x]
        BY <2>3, <3>1 DEF DictDel
      <3>3. [item |-> o.keyhash[x], rect |-> Bounds(o.h[x])] \in o.tr
        BY <3>1, <1>a DEF FieldsIndexed
      <3>4. o.keyhash[x] # i
        BY <3>1, <1>2, <1>a DEF DictsAgree
      <3> QED BY <3>2, <3>3, <3>4, <2>4
    <2>8. IdsRecent(d, n)
      <3>1. ItemsOf(d.tr) \union DOMAIN d.idxhash \subseteq ItemsOf(o.tr) \union DOMAIN o.idxhash
        BY <2>3, <2>4 DEF ItemsOf, DictDel
      <3>2. d.idx = o.idx
        BY <2>3
      <3> QED BY <3>1, <3>2, <1>a DEF IdsRecent, Age
    <2>9. IdsUnique(d)
      BY <2>3, <2>4, <1>a DEF IdsUnique
    <2> QED BY <2>3, <2>5, <2>6, <2>7, <2>8, <2>9 DEF ObjectInv, DictDel
  <1> QED BY <1>1, <1>2

\* The next id lies within the range and no id in use equals it; those in use get one older.
LEMMA NextIdxIsFresh ==
    ASSUME NEW o, o.idx \in Idx, NEW i \in Idx, NEW n \in Nat, n < IdxMod, Age(o, i) < n,
           NEW p, p.idx = NextIdx(o.idx)
    PROVE  /\ NextIdx(o.idx) \in Idx
           /\ i # NextIdx(o.idx)
           /\ Age(p, i) < n + 1
  BY IdxAssumption DEF Idx, NextIdx, Age

\* The new entries of spatialTypeSet keep the invariant when the field has none.
LEMMA AddKeeps ==
    ASSUME NEW d, NEW n \in Nat, n < IdxMod, ObjectInv(d, n), NEW f \in Fields, NEW g \in Geoms,
           f \notin DOMAIN d.keyhash
    PROVE  ObjectInv(AddEntries(d, f, g), n + 1)
  <1> DEFINE i == NextIdx(d.idx)
             o == AddEntries(d, f, g)
  <1>a. d \in SpatialType /\ DictsAgree(d) /\ FieldsIndexed(d) /\ IdsRecent(d, n) /\ IdsUnique(d)
    BY DEF ObjectInv
  <1>b. d.idx \in Idx
    BY <1>a DEF SpatialType
  <1>1. o = [h |-> GisModule_DictInsertOrUpdate(d.h, f, g),
             keyhash |-> GisModule_DictInsertOrUpdate(d.keyhash, f, i),
             idxhash |-> GisModule_DictInsertOrUpdate(d.idxhash, i, f),
             tr |-> d.tr \union {[item |-> i, rect |-> Bounds(g)]},
             idx |-> i]
    BY DEF AddEntries, Inserted
  <1>2. i \in Idx
    BY <1>b, IdxAssumption DEF Idx, NextIdx
  <1>3. \A e \in d.tr : e.item # i /\ e.item \in Idx
    <2> SUFFICES ASSUME NEW e \in d.tr PROVE e.item # i /\ e.item \in Idx
      OBVIOUS
    <2>1. e.item \in Idx
      BY <1>a DEF SpatialType
    <2>2. Age(d, e.item) < n
      BY <1>a DEF IdsRecent, ItemsOf
    <2> QED BY <2>1, <2>2, <1>b, <1>1, NextIdxIsFresh
  <1>4. \A x \in DOMAIN d.idxhash : x # i /\ x \in Idx
    <2> SUFFICES ASSUME NEW x \in DOMAIN d.idxhash PROVE x # i /\ x \in Idx
      OBVIOUS
    <2>1. x \in Idx
      BY <1>a, DictMembers DEF SpatialType
    <2>2. Age(d, x) < n
      BY <1>a DEF IdsRecent
    <2> QED BY <2>1, <2>2, <1>b, <1>1, NextIdxIsFresh
  <1>5. o \in SpatialType
    <2>1. /\ o.h \in Dict(Fields, Geoms)
          /\ o.keyhash \in Dict(Fields, Idx)
          /\ o.idxhash \in Dict(Idx, Fields)
      BY <1>1, <1>2, <1>a, DictSetType DEF SpatialType
    <2>2. o.tr \subseteq [item : Idx, rect : RectType]
      BY <1>1, <1>2, <1>a, BoundsAssumption DEF SpatialType
    <2> QED BY <1>1, <1>2, <2>1, <2>2 DEF SpatialType
  <1>6. DictsAgree(o)
    BY <1>1, <1>4, <1>a DEF DictsAgree, GisModule_DictInsertOrUpdate
  <1>7. FieldsIndexed(o)
    <2> SUFFICES ASSUME NEW x \in DOMAIN o.h
                 PROVE  [item |-> o.keyhash[x], rect |-> Bounds(o.h[x])] \in o.tr
      BY DEF FieldsIndexed
    <2>1. CASE x = f
      BY <1>1, <2>1 DEF GisModule_DictInsertOrUpdate
    <2>2. CASE x # f
      <3>1. x \in DOMAIN d.h /\ x \in DOMAIN d.keyhash
        BY <1>1, <2>2, <1>a DEF GisModule_DictInsertOrUpdate, DictsAgree
      <3>2. o.h[x] = d.h[x] /\ o.keyhash[x] = d.keyhash[x]
        BY <1>1, <2>2, <3>1 DEF GisModule_DictInsertOrUpdate
      <3> QED BY <3>1, <3>2, <1>1, <1>a DEF FieldsIndexed
    <2> QED BY <2>1, <2>2
  <1>8. IdsRecent(o, n + 1)
    <2> SUFFICES ASSUME NEW x \in ItemsOf(o.tr) \union DOMAIN o.idxhash
                 PROVE  Age(o, x) < n + 1
      BY DEF IdsRecent
    <2>1. CASE x = i
      BY <2>1, <1>1, <1>2 DEF Age, Idx
    <2>2. CASE x # i
      <3>1. x \in ItemsOf(d.tr) \union DOMAIN d.idxhash
        BY <2>2, <1>1 DEF ItemsOf, GisModule_DictInsertOrUpdate
      <3>2. x \in Idx
        BY <3>1, <1>3, <1>4 DEF ItemsOf
      <3>3. Age(d, x) < n
        BY <3>1, <1>a DEF IdsRecent
      <3> QED BY <3>2, <3>3, <1>b, <1>1, NextIdxIsFresh
    <2> QED BY <2>1, <2>2
  <1>9. IdsUnique(o)
    BY <1>1, <1>3, <1>a DEF IdsUnique
  <1> QED BY <1>5, <1>6, <1>7, <1>8, <1>9 DEF ObjectInv

\* spatialTypeSet keeps the invariant of an object, one call later.
LEMMA SetKeeps ==
    ASSUME NEW o, NEW n \in Nat, n < IdxMod, ObjectInv(o, n), NEW f \in Fields, NEW g \in Geoms,
           NEW p \in SpatialTypeSet(o, f, g)
    PROVE  ObjectInv(p, n + 1)
  <1>1. PICK d \in SpatialTypeDelete(o, f, Bounds(g)) : p = AddEntries(d, f, g)
    BY DEF SpatialTypeSet
  <1>2. ObjectInv(d, n) /\ f \notin DOMAIN d.keyhash
    BY DeleteKeeps
  <1> QED BY <1>1, <1>2, AddKeeps

-----------------------------------------------------------------------------
(***************************************************************************)
(* The specification.                                                      *)
(***************************************************************************)
\* The inductive invariant: types, the consistency of the object, and the two facts about
\* replies, which follow from it when the command runs.
IInv ==
    /\ TypeOK
    /\ ObjectInv(s, sets)
    /\ DeleteNeverFails
    /\ EachFieldOnce

\* Results of a search are well typed and injective.
LEMMA SearchOnce ==
    ASSUME NEW o, NEW n \in Nat, ObjectInv(o, n), NEW q, NEW limit,
           NEW res \in SearchResults(o, q, limit)
    PROVE  /\ res \in Dict(Idx, Fields)
           /\ \A i, j \in DOMAIN res : res[i] = res[j] => i = j
  <1>1. o.idxhash \in Dict(Idx, Fields) /\ DictsAgree(o)
    BY DEF ObjectInv, SpatialType
  <1>2. DOMAIN o.idxhash \subseteq Idx /\ o.idxhash \in [DOMAIN o.idxhash -> Fields]
    BY <1>1, DictMembers
  <1>3. PICK is \in SUBSET Hits(o, q) : res = [i \in is |-> o.idxhash[i]]
    BY DEF SearchResults
  <1>4. is \subseteq DOMAIN o.idxhash
    BY <1>3 DEF Hits
  <1>5. DOMAIN res \subseteq Idx /\ res \in [DOMAIN res -> Fields]
    BY <1>2, <1>3, <1>4
  <1>6. \A i, j \in DOMAIN res : res[i] = res[j] => i = j
    BY <1>1, <1>3, <1>4 DEF DictsAgree
  <1> QED BY <1>5, <1>6, DictMembers

\* No results at all are well typed and injective too.
LEMMA NoResults == /\ NoEntries \in Dict(Idx, Fields)
                   /\ \A i, j \in DOMAIN NoEntries : NoEntries[i] = NoEntries[j] => i = j
  BY DictMembers DEF NoEntries

\* What RDB save writes of an object's values is a sequence of its pairs.
LEMMA ListingType ==
    ASSUME NEW d \in Dict(Fields, Geoms), NEW l \in Listings(d)
    PROVE  l \in Seq(Fields \X Geoms)
  <1>1. DOMAIN d \subseteq Fields /\ d \in [DOMAIN d -> Geoms]
    BY DictMembers
  <1>2. PICK n \in 0 .. MaxSets : l \in [1 .. n -> {<<f, d[f]>> : f \in DOMAIN d}]
    BY DEF Listings
  <1>3. {<<f, d[f]>> : f \in DOMAIN d} \subseteq Fields \X Geoms
    BY <1>1
  <1>4. n \in Nat
    BY <1>2, IdxAssumption
  <1>5. l \in [1 .. n -> Fields \X Geoms]
    BY <1>2, <1>3
  <1> QED BY <1>4, <1>5

\* A server without the key, and an RDB file without it, satisfy the invariant.
LEMMA InitInvariant == Init => IInv
  <1> SUFFICES ASSUME Init PROVE IInv
    OBVIOUS
  <1>1. 0 \in Idx /\ 0 \in 0 .. MaxSets
    BY IdxAssumption DEF Idx
  <1>2. ObjectInv(s, sets)
    BY <1>1, NewObject DEF Init, NoObject
  <1>3. s \in SpatialType
    BY <1>2 DEF ObjectInv
  <1>4. rdb \in [exists : BOOLEAN, pairs : Seq(Fields \X Geoms)]
    BY DEF Init
  <1>5. results \in Dict(Idx, Fields) /\ todo \in Seq(Fields \X (Geoms \union {Bad}))
    BY NoResults DEF Init
  <1>6. TypeOK
    BY <1>1, <1>3, <1>4, <1>5 DEF Init, TypeOK
  <1> QED BY <1>2, <1>6, NoResults DEF Init, IInv, DeleteNeverFails, EachFieldOnce

\* Every command, every round of a loop, a save, a crash and a reload keep the invariant.
LEMMA NextInvariant == IInv /\ [Next]_vars => IInv'
  <1> SUFFICES ASSUME IInv, [Next]_vars PROVE IInv'
    OBVIOUS
  <1>a. TypeOK /\ ObjectInv(s, sets) /\ DeleteNeverFails /\ EachFieldOnce
    BY DEF IInv
  <1>b. 0 \in Idx /\ 0 \in 0 .. MaxSets /\ sets \in Nat /\ IdxMod \in Nat /\ MaxSets \in Nat
    BY <1>a, IdxAssumption DEF Idx, TypeOK
  <1>c. ObjectInv(NoObject, 0)
    BY <1>b, NewObject DEF NoObject
  \* A step that leaves an object with the invariant and sets its replies as Reply does.
  <1>d. ASSUME ObjectInv(s, sets)', TypeOK', results' = NoEntries, reply' # "fail"
        PROVE  IInv'
    BY <1>d, NoResults DEF IInv, DeleteNeverFails, EachFieldOnce
  <1>1. ASSUME NEW pairs \in Arguments, GisAdd(pairs) PROVE IInv'
    <2>1. pairs \in Seq(Fields \X (Geoms \union {Bad}))
      BY <1>b, IdxAssumption DEF Arguments
    <2>2. ObjectInv(s, sets)'
      BY <1>1, <1>a, NewObject DEF GisAdd
    <2>3. TypeOK'
      BY <1>1, <1>a, <1>b, <2>1, <2>2, NoResults DEF GisAdd, Reply, TypeOK, ObjectInv
    <2> QED BY <1>1, <1>d, <2>2, <2>3 DEF GisAdd, Reply
  <1>2. CASE StorePair
    <2>1. Head(todo) \in Fields \X (Geoms \union {Bad}) /\ Tail(todo) \in Seq(Fields \X (Geoms \union {Bad}))
      BY <1>2, <1>a DEF StorePair, TypeOK
    <2>2. Head(todo)[1] \in Fields /\ Head(todo)[2] \in Geoms
      BY <1>2, <2>1 DEF StorePair
    <2>3. sets < MaxSets /\ sets < IdxMod
      BY <1>2, <1>b, IdxAssumption DEF StorePair
    <2>4. s' \in SpatialTypeSet(s, Head(todo)[1], Head(todo)[2]) /\ sets' = sets + 1
      BY <1>2 DEF StorePair
    <2>5. ObjectInv(s', sets + 1)
      BY <1>a, <1>b, <2>2, <2>3, <2>4, SetKeeps
    <2>6. ObjectInv(s, sets)'
      BY <2>4, <2>5
    <2>7. TypeOK'
      BY <1>2, <1>a, <1>b, <2>1, <2>3, <2>6 DEF StorePair, TypeOK, ObjectInv
    <2>8. DeleteNeverFails' /\ EachFieldOnce'
      BY <1>2, <1>a DEF StorePair, DeleteNeverFails, EachFieldOnce
    <2> QED BY <2>6, <2>7, <2>8 DEF IInv
  <1>3. CASE AddInvalid
    <2>1. TypeOK' /\ ObjectInv(s, sets)'
      BY <1>3, <1>a, NoResults DEF AddInvalid, Reply, TypeOK, ObjectInv
    <2> QED BY <1>3, <1>d, <2>1 DEF AddInvalid, Reply
  <1>4. CASE AddDone
    <2>1. TypeOK' /\ ObjectInv(s, sets)'
      BY <1>4, <1>a, NoResults DEF AddDone, Reply, TypeOK, ObjectInv
    <2> QED BY <1>4, <1>d, <2>1 DEF AddDone, Reply
  <1>5. ASSUME NEW f \in Fields, GisDel(f) PROVE IInv'
    <2>1. CASE f \notin DOMAIN s.h
      <3>1. TypeOK' /\ ObjectInv(s, sets)'
        BY <1>5, <2>1, <1>a, NoResults DEF GisDel, Reply, TypeOK
      <3> QED BY <1>5, <2>1, <1>d, <3>1 DEF GisDel, Reply
    <2>2. CASE f \in DOMAIN s.h
      <3>1. DeleteSucceeds(s, f)
        BY <1>a, <2>2 DEF ObjectInv, DictsAgree, DeleteSucceeds
      <3>2. PICK o \in SpatialTypeDelete(s, f, Bounds(s.h[f])) :
              /\ Reply("ok")
              /\ \/ exists' = FALSE /\ s' = NoObject /\ sets' = 0
                 \/ s' = o /\ UNCHANGED <<exists, sets>>
        BY <1>5, <2>2, <3>1 DEF GisDel
      <3>3. ObjectInv(o, sets)
        BY <1>a, <1>b, DeleteKeeps
      <3>4. ObjectInv(s, sets)'
        BY <3>2, <3>3, <1>c
      <3>5. TypeOK'
        BY <1>5, <1>a, <1>b, <3>2, <3>4, NoResults DEF GisDel, Reply, TypeOK, ObjectInv
      <3> QED BY <1>d, <3>2, <3>4, <3>5 DEF Reply
    <2> QED BY <2>1, <2>2
  <1>6. ASSUME NEW q \in Queries, NEW limit \in Limits, GisSearch(q, limit) PROVE IInv'
    <2>1. results' \in SearchResults(s, q, limit) /\ reply' = "array"
      BY <1>6 DEF GisSearch
    <2>2. results' \in Dict(Idx, Fields) /\ EachFieldOnce'
      BY <2>1, <1>a, <1>b, SearchOnce DEF EachFieldOnce
    <2>3. TypeOK' /\ ObjectInv(s, sets)'
      BY <1>6, <1>a, <2>2 DEF GisSearch, TypeOK, ObjectInv
    <2> QED BY <2>1, <2>2, <2>3 DEF IInv, DeleteNeverFails
  <1>7. CASE RdbSave
    <2>1. PICK pairs \in Listings(s.h) : rdb' = [exists |-> exists, pairs |-> pairs]
      BY <1>7 DEF RdbSave
    <2>2. pairs \in Seq(Fields \X Geoms)
      BY <1>a, ListingType DEF ObjectInv, SpatialType
    <2>3. TypeOK' /\ ObjectInv(s, sets)'
      BY <1>7, <1>a, <2>1, <2>2 DEF RdbSave, TypeOK, ObjectInv
    <2>4. DeleteNeverFails' /\ EachFieldOnce'
      BY <1>7, <1>a DEF RdbSave, DeleteNeverFails, EachFieldOnce
    <2> QED BY <2>3, <2>4 DEF IInv
  <1>8. CASE Restart
    <2>1. ObjectInv(s, sets)'
      BY <1>8, <1>c, NewObject DEF Restart
    <2>2. rdb.exists \in BOOLEAN /\ rdb.pairs \in Seq(Fields \X Geoms)
      BY <1>a DEF TypeOK
    <2>3. rdb.pairs \in Seq(Fields \X (Geoms \union {Bad}))
      BY <2>2
    <2>4. mode' \in {"idle", "load"}
      BY <1>8 DEF Restart
    <2>5. TypeOK'
      BY <1>8, <1>a, <1>b, <2>1, <2>2, <2>3, <2>4, NoResults DEF Restart, Reply, TypeOK, ObjectInv
    <2> QED BY <1>8, <1>d, <2>1, <2>5 DEF Restart, Reply
  <1>9. CASE LoadDone
    <2>1. TypeOK' /\ ObjectInv(s, sets)'
      BY <1>9, <1>a DEF LoadDone, TypeOK, ObjectInv
    <2>2. DeleteNeverFails' /\ EachFieldOnce'
      BY <1>9, <1>a DEF LoadDone, DeleteNeverFails, EachFieldOnce
    <2> QED BY <2>1, <2>2 DEF IInv
  <1>10. CASE DropKey
    <2>1. ObjectInv(s, sets)'
      BY <1>10, <1>c DEF DropKey
    <2>2. TypeOK'
      BY <1>10, <1>a, <1>b, <2>1, NoResults DEF DropKey, Reply, TypeOK, ObjectInv
    <2> QED BY <1>10, <1>d, <2>1, <2>2 DEF DropKey, Reply
  <1>11. CASE UNCHANGED vars
    BY <1>11, <1>a DEF vars, IInv, TypeOK, DeleteNeverFails, EachFieldOnce
  <1> QED
    BY <1>1, <1>2, <1>3, <1>4, <1>5, <1>6, <1>7, <1>8, <1>9, <1>10, <1>11 DEF Next

\* The inductive invariant holds throughout every behaviour of a key: its object is always
\* one that spatialTypeSet and spatialTypeDelete can work on.
THEOREM Invariant == Spec => []IInv
  BY InitInvariant, NextInvariant, PTL DEF Spec

\* Every variable keeps its type: no command, crash or reload leaves a value the code does
\* not expect.
THEOREM TypeCorrect == Spec => []TypeOK
  <1>1. IInv => TypeOK
    BY DEF IInv
  <1> QED BY <1>1, Invariant, PTL

\* The three dictionaries of a key describe the same fields at all times, also when a crash
\* or a deletion follows an update.
THEOREM DictionariesConsistent == Spec => []DictionariesAgree
  <1>1. IInv => DictionariesAgree
    BY DEF IInv, ObjectInv, DictionariesAgree
  <1> QED BY <1>1, Invariant, PTL

\* Every field of a key is in the tree under its current id and bounds at all times.
THEOREM IndexComplete == Spec => []EveryFieldIndexed
  <1>1. IInv => EveryFieldIndexed
    BY DEF IInv, ObjectInv, EveryFieldIndexed
  <1> QED BY <1>1, Invariant, PTL

\* No private id is in use twice: every id in use was given out by one of the last calls of
\* spatialTypeSet, fewer than there are ids.
THEOREM IdsNeverRepeat == Spec => [](IdsAreRecent /\ IdsAreUnique)
  <1>1. IInv => IdsAreRecent /\ IdsAreUnique
    BY DEF IInv, ObjectInv, IdsAreRecent, IdsAreUnique
  <1> QED BY <1>1, Invariant, PTL

\* GIS.DEL of a field that is there never replies "ERR delete geo fail!".
THEOREM DeletionComplete == Spec => []DeleteNeverFails
  <1>1. IInv => DeleteNeverFails
    BY DEF IInv
  <1> QED BY <1>1, Invariant, PTL

\* A search never lists a field twice, left-over entries of the tree notwithstanding.
THEOREM SearchListsOnce == Spec => []EachFieldOnce
  <1>1. IInv => EachFieldOnce
    BY DEF IInv
  <1> QED BY <1>1, Invariant, PTL

-----------------------------------------------------------------------------
(***************************************************************************)
(* Sequences of pairs that give each field one value.                      *)
(***************************************************************************)
OneValue(pairs) == \A m, n \in DOMAIN pairs : pairs[m][1] = pairs[n][1] => m = n

MapOf(pairs) == [f \in Names(pairs) |-> ValueIn(pairs, f)]

\* The value of a field is that of the only pair that names it.
LEMMA ValueAt ==
    ASSUME NEW pairs, OneValue(pairs), NEW n \in DOMAIN pairs
    PROVE  /\ pairs[n][1] \in Names(pairs)
           /\ ValueIn(pairs, pairs[n][1]) = pairs[n][2]
  <1> DEFINE ps == {pairs[m] : m \in DOMAIN pairs}
             f == pairs[n][1]
  <1>1. pairs[n] \in ps /\ pairs[n][1] = f
    OBVIOUS
  <1>2. \A p \in ps : p[1] = f => p = pairs[n]
    BY DEF OneValue
  <1>3. (CHOOSE p \in ps : p[1] = f) = pairs[n]
    <2> HIDE DEF ps, f
    <2> QED BY <1>1, <1>2
  <1> QED BY <1>3 DEF Names, ValueIn

\* What RDB save writes stands for the dictionary it walks.
LEMMA ListingMap ==
    ASSUME NEW d \in Dict(Fields, Geoms), NEW l \in Listings(d)
    PROVE  OneValue(l) /\ MapOf(l) = d
  <1>1. d \in [DOMAIN d -> Geoms]
    BY DictMembers
  <1>2. /\ {l[n] : n \in DOMAIN l} = {<<f, d[f]>> : f \in DOMAIN d}
        /\ \A m, n \in DOMAIN l : l[m] = l[n] => m = n
    BY DEF Listings
  <1>3. \A n \in DOMAIN l : l[n][1] \in DOMAIN d /\ l[n] = <<l[n][1], d[l[n][1]]>>
    <2> TAKE n \in DOMAIN l
    <2>1. l[n] \in {<<f, d[f]>> : f \in DOMAIN d}
      BY <1>2
    <2> QED BY <2>1
  <1>4. OneValue(l)
    BY <1>2, <1>3 DEF OneValue
  <1>5. Names(l) = DOMAIN d
    <2>1. Names(l) \subseteq DOMAIN d
      BY <1>3 DEF Names
    <2>2. ASSUME NEW f \in DOMAIN d PROVE f \in Names(l)
      <3>1. <<f, d[f]>> \in {l[n] : n \in DOMAIN l}
        BY <1>2
      <3>2. PICK n \in DOMAIN l : l[n] = <<f, d[f]>>
        BY <3>1
      <3> QED BY <3>2 DEF Names
    <2> QED BY <2>1, <2>2
  <1>6. ASSUME NEW f \in DOMAIN d PROVE ValueIn(l, f) = d[f]
    <2>1. PICK n \in DOMAIN l : l[n][1] = f
      BY <1>5 DEF Names
    <2>2. ValueIn(l, f) = l[n][2]
      BY <1>4, <2>1, ValueAt
    <2> QED BY <2>1, <2>2, <1>3
  <1> QED BY <1>1, <1>4, <1>5, <1>6 DEF MapOf

\* Taking the first pair off takes its field out of the map and changes no other.
LEMMA TailMap ==
    ASSUME NEW T, NEW pairs \in Seq(T), pairs # <<>>, OneValue(pairs)
    PROVE  /\ OneValue(Tail(pairs))
           /\ Names(pairs) = Names(Tail(pairs)) \union {Head(pairs)[1]}
           /\ Head(pairs)[1] \notin Names(Tail(pairs))
           /\ ValueIn(pairs, Head(pairs)[1]) = Head(pairs)[2]
           /\ \A f \in Names(Tail(pairs)) : ValueIn(Tail(pairs), f) = ValueIn(pairs, f)
  <1>1. /\ Len(pairs) \in Nat \ {0}
        /\ DOMAIN pairs = 1 .. Len(pairs)
        /\ DOMAIN Tail(pairs) = 1 .. Len(pairs) - 1
        /\ \A n \in 1 .. Len(pairs) - 1 : Tail(pairs)[n] = pairs[n + 1]
        /\ Head(pairs) = pairs[1]
    OBVIOUS
  <1>2. \A n \in DOMAIN Tail(pairs) : n + 1 \in DOMAIN pairs /\ Tail(pairs)[n] = pairs[n + 1] /\ n \in Nat \ {0}
    BY <1>1
  <1>3. OneValue(Tail(pairs))
    <2> SUFFICES ASSUME NEW m \in DOMAIN Tail(pairs), NEW n \in DOMAIN Tail(pairs),
                        Tail(pairs)[m][1] = Tail(pairs)[n][1]
                 PROVE  m = n
      BY DEF OneValue
    <2>1. m + 1 = n + 1
      BY <1>2 DEF OneValue
    <2> QED BY <2>1, <1>2
  <1>4. ASSUME NEW n \in DOMAIN pairs, n # 1
        PROVE  n - 1 \in DOMAIN Tail(pairs) /\ Tail(pairs)[n - 1] = pairs[n]
    BY <1>1, <1>4
  <1>5. Names(pairs) = Names(Tail(pairs)) \union {Head(pairs)[1]}
    <2>1. ASSUME NEW n \in DOMAIN pairs
          PROVE  pairs[n][1] \in Names(Tail(pairs)) \union {Head(pairs)[1]}
      BY <1>1, <1>4 DEF Names
    <2>2. Names(Tail(pairs)) \subseteq Names(pairs)
      BY <1>2 DEF Names
    <2>3. Head(pairs)[1] \in Names(pairs)
      BY <1>1 DEF Names
    <2> QED BY <2>1, <2>2, <2>3 DEF Names
  <1>6. Head(pairs)[1] \notin Names(Tail(pairs))
    <2> SUFFICES ASSUME NEW n \in DOMAIN Tail(pairs), Tail(pairs)[n][1] = Head(pairs)[1] PROVE FALSE
      BY DEF Names
    <2>1. n + 1 = 1
      BY <1>1, <1>2 DEF OneValue
    <2> QED BY <2>1, <1>2
  <1>7. ValueIn(pairs, Head(pairs)[1]) = Head(pairs)[2]
    BY <1>1, ValueAt
  <1>8. ASSUME NEW f \in Names(Tail(pairs)) PROVE ValueIn(Tail(pairs), f) = ValueIn(pairs, f)
    <2>1. PICK n \in DOMAIN Tail(pairs) : Tail(pairs)[n][1] = f
      BY DEF Names
    <2>2. ValueIn(Tail(pairs), f) = Tail(pairs)[n][2]
      BY <1>3, <2>1, ValueAt
    <2>3. pairs[n + 1][1] = f /\ n + 1 \in DOMAIN pairs
      BY <1>2, <2>1
    <2>4. ValueIn(pairs, f) = pairs[n + 1][2]
      BY <2>3, ValueAt
    <2> QED BY <2>2, <2>4, <1>2
  <1> QED BY <1>3, <1>5, <1>6, <1>7, <1>8

-----------------------------------------------------------------------------
(***************************************************************************)
(* What setting, deleting and searching do to the map of an object.        *)
(***************************************************************************)
\* spatialTypeSet puts the pair into the map, whether or not the field was there.
LEMMA SetMap ==
    ASSUME NEW o, NEW n \in Nat, ObjectInv(o, n), NEW f \in Fields, NEW g,
           NEW p \in SpatialTypeSet(o, f, g)
    PROVE  p.h = GisModule_DictInsertOrUpdate(o.h, f, g)
  <1>1. PICK d \in SpatialTypeDelete(o, f, Bounds(g)) : p = AddEntries(d, f, g)
    BY DEF SpatialTypeSet
  <1>2. d.h = DictDel(o.h, f)
    BY DeleteKeeps
  <1>3. p.h = GisModule_DictInsertOrUpdate(d.h, f, g)
    BY <1>1 DEF AddEntries
  <1> QED BY <1>2, <1>3 DEF DictDel, GisModule_DictInsertOrUpdate

AnswersOf(d, q) == {f \in DOMAIN d : Overlap(Window(q), Bounds(d[f])) /\ Match(d[f], q)}

\* The ids a search may report stand for the answers, one for one: an entry that an update
\* left behind has no field, and the entry of a field has the bounds of its value.
LEMMA HitsAreAnswers ==
    ASSUME NEW o, NEW n \in Nat, ObjectInv(o, n), NEW q
    PROVE  /\ Hits(o, q) \subseteq DOMAIN o.idxhash
           /\ {o.idxhash[i] : i \in Hits(o, q)} = AnswersOf(o.h, q)
  <1>a. DictsAgree(o) /\ FieldsIndexed(o) /\ IdsUnique(o)
    BY DEF ObjectInv
  <1>1. ASSUME NEW i \in Hits(o, q) PROVE o.idxhash[i] \in AnswersOf(o.h, q)
    <2> DEFINE f == o.idxhash[i]
    <2>1. i \in DOMAIN o.idxhash /\ f \in DOMAIN o.h /\ Match(o.h[f], q) /\ i \in Found(o.tr, Window(q))
      BY <1>1 DEF Hits
    <2>2. PICK e \in o.tr : e.item = i /\ Overlap(Window(q), e.rect)
      BY <2>1 DEF Found
    <2>3. o.keyhash[f] = i
      BY <2>1, <1>a DEF DictsAgree
    <2>4. [item |-> i, rect |-> Bounds(o.h[f])] \in o.tr
      BY <2>1, <2>3, <1>a DEF FieldsIndexed
    <2>5. e = [item |-> i, rect |-> Bounds(o.h[f])]
      BY <2>2, <2>4, <1>a DEF IdsUnique
    <2> QED BY <2>1, <2>2, <2>5 DEF AnswersOf
  <1>2. ASSUME NEW f \in AnswersOf(o.h, q) PROVE \E i \in Hits(o, q) : o.idxhash[i] = f
    <2> DEFINE i == o.keyhash[f]
    <2>1. f \in DOMAIN o.h /\ Overlap(Window(q), Bounds(o.h[f])) /\ Match(o.h[f], q)
      BY <1>2 DEF AnswersOf
    <2>2. i \in DOMAIN o.idxhash /\ o.idxhash[i] = f
      BY <2>1, <1>a DEF DictsAgree
    <2>3. [item |-> i, rect |-> Bounds(o.h[f])] \in o.tr
      BY <2>1, <1>a DEF FieldsIndexed
    <2>4. i \in Found(o.tr, Window(q))
      BY <2>1, <2>3 DEF Found
    <2> QED BY <2>1, <2>2, <2>4 DEF Hits
  <1>3. Hits(o, q) \subseteq DOMAIN o.idxhash
    BY DEF Hits
  <1> QED BY <1>1, <1>2, <1>3

\* A set of ids and the set of their fields are equally large.
LEMMA FieldsOfIds ==
    ASSUME NEW o, NEW n \in Nat, ObjectInv(o, n), NEW is \in SUBSET DOMAIN o.idxhash
    PROVE  /\ IsFiniteSet(is)
           /\ IsFiniteSet({o.idxhash[i] : i \in is})
           /\ Cardinality({o.idxhash[i] : i \in is}) = Cardinality(is)
  <1> DEFINE fs == {o.idxhash[i] : i \in is}
             name == [i \in is |-> o.idxhash[i]]
  <1>1. is \subseteq 0 .. IdxMod - 1
    BY DictMembers DEF ObjectInv, SpatialType, Idx
  <1>2. IsFiniteSet(is)
    <2>1. 0 \in Int /\ IdxMod - 1 \in Int
      BY IdxAssumption
    <2>2. IsFiniteSet(0 .. IdxMod - 1)
      BY <2>1, FS_Interval
    <2> QED BY <2>2, <1>1, FS_Subset
  <1>3. \A i, j \in is : o.idxhash[i] = o.idxhash[j] => i = j
    BY DEF ObjectInv, DictsAgree
  <1>4. name \in Bijection(is, fs)
    BY <1>3 DEF Bijection, Injection, IsInjective, Surjection
  <1>5. ExistsBijection(is, fs)
    BY <1>4 DEF ExistsBijection
  <1> HIDE DEF fs
  <1>6. IsFiniteSet(fs) /\ Cardinality(fs) = Cardinality(is)
    BY <1>2, <1>5, FS_Bijection
  <1> QED BY <1>2, <1>6 DEF fs

\* A search returns the answers: all of them, or with a limit as many as it allows.
LEMMA SearchAnswers ==
    ASSUME NEW o, NEW n \in Nat, ObjectInv(o, n), NEW q, NEW limit,
           NEW res \in SearchResults(o, q, limit)
    PROVE  LET fields == {res[i] : i \in DOMAIN res}
           IN  /\ fields \in SUBSET AnswersOf(o.h, q)
               /\ limit = 0 => fields = AnswersOf(o.h, q)
               /\ limit > 0 => Cardinality(fields) = lesser(limit, Cardinality(AnswersOf(o.h, q)))
  <1>1. PICK is \in SUBSET Hits(o, q) :
           /\ res = [i \in is |-> o.idxhash[i]]
           /\ limit = 0 => is = Hits(o, q)
           /\ limit > 0 => Cardinality(is) = lesser(limit, Cardinality(Hits(o, q)))
    BY DEF SearchResults
  <1>2. {res[i] : i \in DOMAIN res} = {o.idxhash[i] : i \in is}
    BY <1>1
  <1>3. /\ Hits(o, q) \in SUBSET DOMAIN o.idxhash
        /\ {o.idxhash[i] : i \in Hits(o, q)} = AnswersOf(o.h, q)
    BY HitsAreAnswers
  <1>4. is \in SUBSET DOMAIN o.idxhash
    BY <1>3
  <1>5. Cardinality({o.idxhash[i] : i \in is}) = Cardinality(is)
    BY <1>4, FieldsOfIds
  <1>6. Cardinality(AnswersOf(o.h, q)) = Cardinality(Hits(o, q))
    BY <1>3, FieldsOfIds
  <1> QED BY <1>1, <1>2, <1>3, <1>5, <1>6

-----------------------------------------------------------------------------
(***************************************************************************)
(* The specification.                                                      *)
(***************************************************************************)
\* What the map of a client needs besides IInv: a key that does not exist has no fields, a
\* file names each field once, and the pairs still to be loaded are those of fields that
\* the object does not have yet.
LoadInv ==
    /\ ~exists => s.h = NoEntries
    /\ ~rdb.exists => rdb.pairs = <<>>
    /\ OneValue(rdb.pairs)
    /\ mode # "idle" => exists /\ reply = "none" /\ results = NoEntries
    /\ mode = "load" => /\ OneValue(todo)
                        /\ todo \in Seq(Fields \X Geoms)
                        /\ Names(todo) \intersect DOMAIN s.h = {}

\* The steps of the abstract specification, its stuttering included.
ClientStep == [Client!Next]_(Client!vars)

\* A server without the key starts as the abstract one does.
LEMMA InitImplements == Init => LoadInv /\ Client!Init
  <1> SUFFICES ASSUME Init PROVE LoadInv /\ Client!Init
    OBVIOUS
  <1>1. /\ ~exists /\ s.h = NoEntries /\ rdb = [exists |-> FALSE, pairs |-> <<>>]
        /\ mode = "idle" /\ results = NoEntries /\ reply = "none"
    BY DEF Init, NoObject, SpatialNew
  <1>2. Names(rdb.pairs) = {} /\ OneValue(rdb.pairs)
    BY <1>1 DEF Names, OneValue
  <1>3. SavedMap = Client!NoFields
    BY <1>2 DEF SavedMap, Client!NoFields
  <1>4. ClientMap = Client!NoFields
    BY <1>1 DEF ClientMap, NoEntries, Client!NoFields
  <1>5. ClientFound = {}
    BY <1>1 DEF ClientFound, NoEntries
  <1> QED BY <1>1, <1>2, <1>3, <1>4, <1>5 DEF LoadInv, Client!Init

\* The beginning of a GIS.ADD: no field changes, whether or not the key is new.
LEMMA GisAddImplements ==
    ASSUME IInv, LoadInv, NEW pairs, GisAdd(pairs)
    PROVE  LoadInv' /\ ClientStep
  <1>1. /\ mode = "idle" /\ mode' = "add" /\ exists' /\ rdb' = rdb
        /\ results' = NoEntries /\ reply' = "none"
    BY DEF GisAdd, Reply
  <1>2. s'.h = s.h
    <2>1. CASE exists
      BY <2>1 DEF GisAdd
    <2>2. CASE ~exists
      BY <2>2 DEF GisAdd, SpatialNew, LoadInv
    <2> QED BY <2>1, <2>2
  <1>3. LoadInv'
    BY <1>1 DEF LoadInv
  <1>4. ClientMap' = ClientMap /\ SavedMap' = SavedMap
    BY <1>1, <1>2 DEF ClientMap, SavedMap
  <1>5. ClientFound' = {} /\ exists' = TRUE
    BY <1>1 DEF ClientFound, NoEntries, GisAdd
  <1>6. Client!Create
    BY <1>1, <1>4, <1>5 DEF Client!Create, Client!Reply
  <1> QED BY <1>3, <1>6 DEF ClientStep, Client!Next

\* A pair of a GIS.ADD is stored: the client sees it.
LEMMA StoreAddImplements ==
    ASSUME IInv, LoadInv, StorePair, mode = "add"
    PROVE  LoadInv' /\ ClientStep
  <1> DEFINE f == Head(todo)[1]
             g == Head(todo)[2]
  <1>1. f \in Fields /\ g \in Geoms
    BY DEF StorePair, IInv, TypeOK
  <1>2. s' \in SpatialTypeSet(s, f, g) /\ UNCHANGED <<exists, mode, rdb, results, reply>>
    BY DEF StorePair
  <1>3. ObjectInv(s, sets) /\ sets \in Nat /\ exists \in BOOLEAN
    BY IdxAssumption DEF IInv, TypeOK
  <1>4. s'.h = GisModule_DictInsertOrUpdate(s.h, f, g)
    BY <1>1, <1>2, <1>3, SetMap
  <1>5. exists /\ reply = "none" /\ results = NoEntries
    BY DEF LoadInv
  <1>6. LoadInv'
    BY <1>2, <1>5 DEF LoadInv
  <1>7. ClientMap' = [x \in DOMAIN ClientMap \union {f} |-> IF x = f THEN g ELSE ClientMap[x]]
    BY <1>2, <1>4 DEF ClientMap, GisModule_DictInsertOrUpdate
  <1>8. SavedMap' = SavedMap
    BY <1>2 DEF SavedMap
  <1>9. ClientFound' = {} /\ exists' = TRUE
    BY <1>2, <1>3, <1>5 DEF ClientFound, NoEntries
  <1>10. Client!Put(f, g)
    BY <1>2, <1>5, <1>7, <1>8, <1>9 DEF Client!Put, Client!Reply
  <1> QED BY <1>1, <1>6, <1>10 DEF ClientStep, Client!Next

\* A pair of the RDB file is stored: the client saw it all along.
LEMMA StoreLoadImplements ==
    ASSUME IInv, LoadInv, StorePair, mode = "load"
    PROVE  LoadInv' /\ ClientStep
  <1> DEFINE f == Head(todo)[1]
             g == Head(todo)[2]
  <1>1. f \in Fields /\ g \in Geoms
    BY DEF StorePair, IInv, TypeOK
  <1>2. /\ s' \in SpatialTypeSet(s, f, g) /\ todo' = Tail(todo) /\ todo # <<>>
        /\ UNCHANGED <<exists, mode, rdb, results, reply>>
    BY DEF StorePair
  <1>3. ObjectInv(s, sets) /\ sets \in Nat
    BY IdxAssumption DEF IInv, TypeOK
  <1>4. s'.h = GisModule_DictInsertOrUpdate(s.h, f, g)
    BY <1>1, <1>2, <1>3, SetMap
  <1>5. todo \in Seq(Fields \X Geoms) /\ OneValue(todo) /\ Names(todo) \intersect DOMAIN s.h = {}
    BY DEF LoadInv
  <1>6. /\ OneValue(todo')
        /\ Names(todo) = Names(todo') \union {f}
        /\ f \notin Names(todo')
        /\ ValueIn(todo, f) = g
        /\ \A x \in Names(todo') : ValueIn(todo', x) = ValueIn(todo, x)
    BY <1>2, <1>5, TailMap
  <1>7. DOMAIN s'.h = DOMAIN s.h \union {f}
    BY <1>4 DEF GisModule_DictInsertOrUpdate
  <1>8. todo' \in Seq(Fields \X Geoms) /\ Names(todo') \intersect DOMAIN s'.h = {}
    BY <1>2, <1>5, <1>6, <1>7
  <1>9. LoadInv'
    BY <1>2, <1>6, <1>8 DEF LoadInv
  <1>10. Loaded' = Loaded
    <2>1. DOMAIN s'.h \union Names(todo') = DOMAIN s.h \union Names(todo)
      BY <1>6, <1>7
    <2>2. ASSUME NEW x \in DOMAIN s.h \union Names(todo)
          PROVE  (IF x \in Names(todo') THEN ValueIn(todo', x) ELSE s'.h[x])
                    = (IF x \in Names(todo) THEN ValueIn(todo, x) ELSE s.h[x])
      BY <1>4, <1>5, <1>6 DEF GisModule_DictInsertOrUpdate
    <2>3. Loaded' = [x \in DOMAIN s'.h \union Names(todo') |->
                        IF x \in Names(todo') THEN ValueIn(todo', x) ELSE s'.h[x]]
      BY DEF Loaded, Names, ValueIn
    <2> QED BY <2>1, <2>2, <2>3 DEF Loaded
  <1>11. ClientMap' = ClientMap /\ SavedMap' = SavedMap /\ ClientFound' = ClientFound
    BY <1>2, <1>10 DEF ClientMap, SavedMap, ClientFound
  <1> QED BY <1>2, <1>9, <1>11 DEF ClientStep, Client!vars

\* The end of a GIS.ADD, of its own or at a pair that does not decode.
LEMMA AddEndImplements ==
    ASSUME IInv, LoadInv, AddInvalid \/ AddDone
    PROVE  LoadInv' /\ ClientStep
  <1>1. /\ mode = "add" /\ mode' = "idle" /\ UNCHANGED <<exists, s, rdb>>
        /\ results' = NoEntries /\ reply' \in {"count", "invalid"}
    BY DEF AddInvalid, AddDone, Reply
  <1>2. LoadInv'
    BY <1>1 DEF LoadInv
  <1>3. ClientMap' = ClientMap /\ SavedMap' = SavedMap /\ ClientFound' = {}
    BY <1>1 DEF ClientMap, SavedMap, ClientFound, NoEntries
  <1>4. exists
    BY <1>1 DEF LoadInv
  <1>5. Client!AddReply(reply')
    BY <1>1, <1>3, <1>4 DEF Client!AddReply, Client!Reply
  <1> QED BY <1>1, <1>2, <1>5 DEF ClientStep, Client!Next

\* A GIS.DEL takes the field out of the map, and the key with the last one.
LEMMA GisDelImplements ==
    ASSUME IInv, LoadInv, NEW f \in Fields, GisDel(f)
    PROVE  LoadInv' /\ ClientStep
  <1>1. ObjectInv(s, sets) /\ sets \in Nat /\ exists \in BOOLEAN
    BY IdxAssumption DEF IInv, TypeOK
  <1>2. mode = "idle" /\ mode' = "idle" /\ UNCHANGED <<todo, rdb>>
    BY DEF GisDel
  <1>3. SavedMap' = SavedMap /\ ClientMap = s.h /\ ClientMap' = s'.h
    BY <1>2 DEF SavedMap, ClientMap
  <1>4. CASE f \notin DOMAIN s.h
    <2>1. UNCHANGED <<exists, s>> /\ reply' = "null" /\ results' = NoEntries
      BY <1>4 DEF GisDel, Reply
    <2>2. LoadInv'
      BY <2>1, <1>2 DEF LoadInv
    <2>3. ClientFound' = {}
      BY <2>1 DEF ClientFound, NoEntries
    <2>4. Client!Del(f)
      BY <2>1, <2>3, <1>2, <1>3, <1>4 DEF Client!Del, Client!Reply
    <2> QED BY <2>2, <2>4 DEF ClientStep, Client!Next
  <1>5. CASE f \in DOMAIN s.h
    <2>1. DeleteSucceeds(s, f)
      BY <1>1, <1>5 DEF ObjectInv, DictsAgree, DeleteSucceeds
    <2>2. PICK o \in SpatialTypeDelete(s, f, Bounds(s.h[f])) :
            /\ reply' = "ok" /\ results' = NoEntries
            /\ IF o.keyhash = NoEntries THEN exists' = FALSE /\ s' = NoObject
               ELSE s' = o /\ exists' = exists
      BY <1>5, <2>1 DEF GisDel, Reply
    <2>3. o.h = DictDel(s.h, f) /\ ObjectInv(o, sets)
      BY <1>1, DeleteKeeps
    <2>4. o.keyhash = NoEntries <=> DOMAIN s.h = {f}
      <3>1. DOMAIN o.keyhash = DOMAIN s.h \ {f}
        BY <2>3 DEF ObjectInv, DictsAgree, DictDel
      <3>2. o.keyhash \in [DOMAIN o.keyhash -> Idx]
        BY <2>3, DictMembers DEF ObjectInv, SpatialType
      <3>3. o.keyhash = NoEntries <=> DOMAIN o.keyhash = {}
        BY <3>2 DEF NoEntries
      <3> QED BY <3>1, <3>3, <1>5
    <2>5. s'.h = [x \in DOMAIN s.h \ {f} |-> s.h[x]]
      <3>1. CASE o.keyhash = NoEntries
        <4>1. DOMAIN s.h \ {f} = {}
          BY <3>1, <2>4
        <4>2. s'.h = [x \in {} |-> x]
          BY <3>1, <2>2 DEF NoObject, SpatialNew, NoEntries
        <4> QED BY <4>1, <4>2
      <3>2. CASE o.keyhash # NoEntries
        BY <3>2, <2>2, <2>3 DEF DictDel
      <3> QED BY <3>1, <3>2
    <2>6. exists
      BY <1>5 DEF LoadInv, NoEntries
    <2>7. exists' = (DOMAIN s.h # {f})
      BY <2>2, <2>4, <2>6, <1>1
    <2>8. LoadInv'
      <3>1. ~exists' => s'.h = NoEntries
        BY <2>5, <2>7 DEF NoEntries
      <3> QED BY <3>1, <1>2 DEF LoadInv
    <2>9. ClientFound' = {}
      BY <2>2 DEF ClientFound, NoEntries
    <2>10. Client!Del(f)
      BY <2>2, <2>5, <2>7, <2>9, <1>2, <1>3, <1>5 DEF Client!Del, Client!Reply
    <2> QED BY <2>8, <2>10 DEF ClientStep, Client!Next
  <1> QED BY <1>4, <1>5

\* A search answers from the map.
LEMMA SearchImplements ==
    ASSUME IInv, LoadInv, NEW q \in Queries, NEW limit \in Limits, GisSearch(q, limit)
    PROVE  LoadInv' /\ ClientStep
  <1>1. ObjectInv(s, sets) /\ sets \in Nat
    BY IdxAssumption DEF IInv, TypeOK
  <1>2. /\ mode = "idle" /\ UNCHANGED <<exists, s, mode, todo, rdb>> /\ reply' = "array"
        /\ results' \in SearchResults(s, q, limit)
    BY DEF GisSearch
  <1>3. LoadInv'
    BY <1>2 DEF LoadInv
  <1>4. SavedMap' = SavedMap /\ ClientMap' = ClientMap /\ ClientMap = s.h
    BY <1>2 DEF SavedMap, ClientMap
  <1>5. /\ ClientFound' \in SUBSET AnswersOf(s.h, q)
        /\ limit = 0 => ClientFound' = AnswersOf(s.h, q)
        /\ limit > 0 => Cardinality(ClientFound') = lesser(limit, Cardinality(AnswersOf(s.h, q)))
    BY <1>1, <1>2, SearchAnswers DEF ClientFound
  <1>6. Client!Answers(q) = AnswersOf(s.h, q)
    BY <1>4 DEF Client!Answers, AnswersOf, Client!Overlap, Overlap, Client!Dims, Dims
  <1>7. \A a, b : Client!lesser(a, b) = lesser(a, b)
    BY DEF Client!lesser, lesser
  <1>8. \A S : Client!Cardinality(S) = Cardinality(S)
    BY DEF Client!Cardinality, Cardinality
  <1>9. Client!Search(q, limit)
    BY <1>2, <1>4, <1>5, <1>6, <1>7, <1>8 DEF Client!Search
  <1> QED BY <1>3, <1>9 DEF ClientStep, Client!Next

\* The RDB file is written from the map.
LEMMA RdbSaveImplements ==
    ASSUME IInv, LoadInv, RdbSave
    PROVE  LoadInv' /\ ClientStep
  <1>1. s.h \in Dict(Fields, Geoms)
    BY DEF IInv, TypeOK, SpatialType
  <1>2. mode = "idle" /\ UNCHANGED <<exists, s, mode, todo, results, reply>>
    BY DEF RdbSave
  <1>3. PICK pairs \in Listings(s.h) : rdb' = [exists |-> exists, pairs |-> pairs]
    BY DEF RdbSave
  <1>4. OneValue(pairs) /\ MapOf(pairs) = s.h
    BY <1>1, ListingMap
  <1>5. SavedMap' = s.h
    BY <1>3, <1>4 DEF SavedMap, MapOf
  <1>6. ASSUME ~exists PROVE pairs = <<>>
    <2>1. {pairs[n] : n \in DOMAIN pairs} = {}
      BY <1>6 DEF LoadInv, Listings, NoEntries
    <2>2. pairs \in Seq(Fields \X Geoms)
      BY <1>1, ListingType
    <2> QED BY <2>1, <2>2
  <1>7. LoadInv'
    BY <1>2, <1>3, <1>4, <1>6 DEF LoadInv
  <1>8. ClientMap = s.h /\ ClientMap' = ClientMap /\ ClientFound' = ClientFound
    BY <1>2 DEF ClientMap, ClientFound
  <1>9. Client!Save
    BY <1>2, <1>3, <1>5, <1>8 DEF Client!Save
  <1> QED BY <1>7, <1>9 DEF ClientStep, Client!Next

\* A restart, be it in the middle of a GIS.ADD or of a load, brings back the file's map.
LEMMA RestartImplements ==
    ASSUME IInv, LoadInv, Restart
    PROVE  LoadInv' /\ ClientStep
  <1>1. /\ exists' = rdb.exists /\ rdb' = rdb /\ todo' = rdb.pairs
        /\ reply' = "none" /\ results' = NoEntries /\ s'.h = NoEntries
        /\ mode' = IF rdb.exists THEN "load" ELSE "idle"
    BY DEF Restart, Reply, SpatialNew, NoObject
  <1>2. rdb.pairs \in Seq(Fields \X Geoms) /\ rdb.exists \in BOOLEAN
    BY DEF IInv, TypeOK
  <1>3. LoadInv'
    <2>1. Names(todo') \intersect DOMAIN s'.h = {}
      BY <1>1 DEF NoEntries
    <2> QED BY <2>1, <1>1, <1>2 DEF LoadInv
  <1>4. SavedMap' = SavedMap
    BY <1>1 DEF SavedMap
  <1>5. ClientMap' = SavedMap'
    <2>1. CASE rdb.exists
      <3>1. Loaded' = SavedMap'
        BY <1>1 DEF Loaded, SavedMap, NoEntries
      <3> QED BY <3>1, <2>1, <1>1 DEF ClientMap
    <2>2. CASE ~rdb.exists
      <3>1. rdb.pairs = <<>>
        BY <2>2 DEF LoadInv
      <3>2. SavedMap' = NoEntries
        BY <3>1, <1>1 DEF SavedMap, Names, NoEntries
      <3> QED BY <3>2, <2>2, <1>1 DEF ClientMap
    <2> QED BY <2>1, <2>2
  <1>6. ClientFound' = {}
    BY <1>1 DEF ClientFound, NoEntries
  <1>7. Client!Restart
    BY <1>1, <1>4, <1>5, <1>6 DEF Client!Restart, Client!Reply
  <1> QED BY <1>3, <1>7 DEF ClientStep, Client!Next

\* Nothing changes for the client when the last pair is loaded.
LEMMA LoadDoneImplements ==
    ASSUME IInv, LoadInv, LoadDone
    PROVE  LoadInv' /\ ClientStep
  <1>1. /\ mode = "load" /\ todo = <<>> /\ mode' = "idle"
        /\ UNCHANGED <<exists, s, todo, rdb, results, reply>>
    BY DEF LoadDone
  <1>2. LoadInv'
    BY <1>1 DEF LoadInv
  <1>3. s.h \in [DOMAIN s.h -> Geoms]
    BY DictMembers DEF IInv, TypeOK, SpatialType
  <1>4. Names(todo) = {}
    BY <1>1 DEF Names
  <1>5. Loaded = s.h
    BY <1>3, <1>4 DEF Loaded
  <1>6. ClientMap' = ClientMap /\ SavedMap' = SavedMap /\ ClientFound' = ClientFound
    BY <1>1, <1>5 DEF ClientMap, SavedMap, ClientFound
  <1> QED BY <1>1, <1>2, <1>6 DEF ClientStep, Client!vars

\* Redis takes the key away.
LEMMA DropImplements ==
    ASSUME IInv, LoadInv, DropKey
    PROVE  LoadInv' /\ ClientStep
  <1>1. /\ mode = "idle" /\ ~exists' /\ s'.h = NoEntries /\ reply' = "none"
        /\ results' = NoEntries /\ UNCHANGED <<mode, todo, rdb>>
    BY DEF DropKey, Reply, NoObject, SpatialNew
  <1>2. LoadInv'
    BY <1>1 DEF LoadInv
  <1>3. ClientMap' = Client!NoFields /\ SavedMap' = SavedMap /\ ClientFound' = {}
    BY <1>1 DEF ClientMap, SavedMap, ClientFound, NoEntries, Client!NoFields
  <1>4. exists' = FALSE
    BY DEF DropKey
  <1>5. Client!Drop
    BY <1>1, <1>3, <1>4 DEF Client!Drop, Client!Reply
  <1> QED BY <1>2, <1>5 DEF ClientStep, Client!Next

\* Every step of a key is one of the abstract specification, or no step for its clients.
LEMMA NextImplements == IInv /\ LoadInv /\ [Next]_vars => LoadInv' /\ ClientStep
  <1> SUFFICES ASSUME IInv, LoadInv, [Next]_vars PROVE LoadInv' /\ ClientStep
    OBVIOUS
  <1>1. ASSUME NEW pairs \in Arguments, GisAdd(pairs) PROVE LoadInv' /\ ClientStep
    BY <1>1, GisAddImplements
  <1>2. CASE StorePair
    <2>1. mode \in {"add", "load"}
      BY <1>2 DEF StorePair, IInv, TypeOK
    <2> QED BY <1>2, <2>1, StoreAddImplements, StoreLoadImplements
  <1>3. CASE AddInvalid \/ AddDone
    BY <1>3, AddEndImplements
  <1>4. ASSUME NEW f \in Fields, GisDel(f) PROVE LoadInv' /\ ClientStep
    BY <1>4, GisDelImplements
  <1>5. ASSUME NEW q \in Queries, NEW limit \in Limits, GisSearch(q, limit)
        PROVE  LoadInv' /\ ClientStep
    BY <1>5, SearchImplements
  <1>6. CASE RdbSave
    BY <1>6, RdbSaveImplements
  <1>7. CASE Restart
    BY <1>7, RestartImplements
  <1>8. CASE LoadDone
    BY <1>8, LoadDoneImplements
  <1>9. CASE DropKey
    BY <1>9, DropImplements
  <1>10. CASE UNCHANGED vars
    <2>1. LoadInv'
      BY <1>10 DEF vars, LoadInv
    <2>2. UNCHANGED <<exists, rdb, reply, ClientMap, ClientFound, SavedMap>>
      BY <1>10 DEF vars, ClientMap, ClientFound, SavedMap, Loaded, Names, ValueIn
    <2> QED BY <2>1, <2>2 DEF ClientStep, Client!vars
  <1> QED
    BY <1>1, <1>2, <1>3, <1>4, <1>5, <1>6, <1>7, <1>8, <1>9, <1>10 DEF Next

\* A key is a map from fields to geometries to whoever uses it: whatever private ids its
\* entries get and left-over entries its index gathers, searches answer from the map, a key
\* goes with its last field, and a restart, wherever it comes, brings back the saved map.
THEOREM Implementation == Spec => ImplementsGisMap
  <1>1. Init /\ [][Next]_vars => []IInv
    BY Invariant DEF Spec
  <1>2. Init => LoadInv /\ Client!Init
    BY InitImplements
  <1>3. IInv /\ LoadInv /\ [Next]_vars => LoadInv' /\ [Client!Next]_(Client!vars)
    BY NextImplements DEF ClientStep
  <1> QED BY <1>1, <1>2, <1>3, PTL DEF Spec, ImplementsGisMap, Client!Spec

=============================================================================
