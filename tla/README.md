# TairGis in TLA+

A verification development for TairGis, the Redis module that stores geometries under the
fields of a key and searches them through an R-tree. The modules model the C sources under
`src/src/`; TLC checks them on small instances. TLAPS proves, for every value of the parameters, the safety properties of
the R-tree and that it implements a set of entries, the main safety
properties of a key and that it implements a map, the safety properties of a master and what is rebuilt
from its commands, those of a search command from its arguments to its reply, what searches find
of segments, triangles and circles, and what becomes of a geometry on its way through texts.

## The system

A TairGis value is a `struct spatial` (`src/src/spatial.h:85-105`). Redis runs one command at
a time, so that within one server commands do not interleave; what interleaves is a command
sequence with saves, crashes, reloads and replication, and, inside a command, several updates
that may stop half-way.

| Component | Source | State | Operations |
|---|---|---|---|
| R-tree index | `spatial/rtree_tmpl.c`, `spatial/rtree.c` | `tr->root`: nodes with a level and up to `MAX_NODES` branches | insert (with splits), remove (with reinsertion of underfull nodes and collapse of the root), search, count, remove all |
| Spatial object | `spatial.c`, `spatial.h`, `util.c` | `h` (field to geometry), `keyhash` (field to private id), `idxhash` (private id to field), `tr` (the index, whose items are the private ids), `idx` (the last private id) | `spatialTypeSet`, `spatialTypeDelete`, `hashTypeGet`, `searchIterator` |
| Command handlers | `tairgis.c` | the keyspace | `GIS.ADD`, `GIS.GET`, `GIS.DEL`, `GIS.SEARCH`, `GIS.CONTAINS`, `GIS.WITHIN`, `GIS.INTERSECTS`, `GIS.GETALL` |
| Search options and results | `tairgis.c`, `spatial.c` | the search context: target, flags, limit, results | `parseGisFlags`, `exgsearchInner`: limit, count, sort, reply |
| Persistence and replication | `tairgis.c` | RDB file, AOF, replica | RDB save and load, AOF rewrite, replication of the command |
| Geometry decoding and encoding | `spatial/geom.c`, `geom_json.c` | none but the context of a call: buffer, cursor, dimensions | readers of WKT, GeoJSON and the binary form, writers of WKT and GeoJSON, the iterator and the flattened array of a collection |
| Bounds and poly maps | `spatial/geom_levels.c`, `geom_polymap.c` | none | bounding rectangles, views of a geometry as polygons |
| Polygon predicates | `spatial/poly*.c` | none | point in polygon, intersection, containment |
| Geodesic utilities | `spatial/geoutil.c` | none | distance, destination point, bounds of a circle |
| Geohash, quadkeys | `spatial/hash.c`, `spatial/bing.c` | none | compiled, called by no command |
| Number formatting, JSON reader, module API | `spatial/grisu3.c`, `spatial/json.c`, `redismodule.h` | none | third-party code |

How they interact. A handler opens the key, decodes its arguments into geometries and calls
`spatialTypeSet` or `spatialTypeDelete`. An update first deletes the field: from the tree, under
the field's former private id, and then from the three dictionaries. It then takes the next
private id and adds the field to the three dictionaries and to the tree, under the bounding
rectangle of the geometry. A search walks the tree with a window; for each item it meets,
`searchIterator` goes from the private id to the field, from the field to the geometry, tests
the geometry against the target and collects the field until `LIMIT` stops the walk. Only `h` is
saved: a load calls `spatialTypeSet` for every pair and so builds everything else anew.

What is hard in it:

* **Stale entries.** An update looks for the former entry of the field under the bounds of the
  *new* value (`spatial.c:111`). If those do not overlap the former ones, whether the entry is
  found depends on the shape of the tree. What is left over must never be taken for a live field,
  hide one, count against a limit or be removed in place of another.
* **Private ids.** `spatialNew` does not initialise `idx`: the ids of an object start anywhere in
  their 64-bit range, and may wrap around.
* **Three dictionaries and a tree** that are changed one after the other; an entry forgotten in
  one of them shows many commands later.
* **The tree itself.** Removals dissolve nodes of several levels, whose branches are inserted
  again one by one, each insertion splitting nodes; branch rectangles are maintained in place.
* **Partial failure.** A `GIS.ADD` of several pairs stops at the first that does not decode and
  keeps what it stored before, and the key it created.
* **Crashes and reloads** between any two pairs of a load or of a `GIS.ADD`.
* **Replication.** A handler replicates its command verbatim at its end, or not at all; the AOF, a
  rewrite of it and a replica see what was replicated, each from another moment on.
* **Search pipeline.** Options come in any order, each checks and skips its arguments by formulas of
  its own; `LIMIT` cuts before the results are sorted by distance, with a comparator that is not transitive.
* **The way of a geometry through a key.** A text becomes cells whose type is overwritten once the first coordinate
  is known, is written as a text without the words `Z` and `ZM` at every rewrite of the AOF and read back by counting
  numbers; collections are skipped and flattened by counts and dimensions of each member; a text is refused at any depth
  of nested collections with a buffer held at each.
* **Circles** at the edges of the map, where longitudes start over and meridians go on beyond the pole.
* **Predicates on polygons**: horizontals through vertices, edges in line, rings in either direction, holes.

`PROJECT.json` lists each hazard with its line and the properties that watch over it.

## The modules

```
Rect            rectangles: overlap, cover, volume                     (pure)
 |- RTreeIndex  what the tree is to its caller: a set of entries       (pure)
 |   |- RTreeSpec   ... as a specification
 |   '- Spatial     one key: object, commands, save, crash, reload
 |       |- MCSpatial       instance for TLC
 |       '- SpatialProofs   theorems: types, consistency; Spatial implements GisMap
 |- RTree       the nodes of the tree; implements RTreeSpec
 |   |- MCRTree             instance for TLC
 |   '- SpatialTree         the object's calls on the real tree
 |       |- MCSpatialTree       instance for TLC
 |       '- RTreeProofs         theorems of both: invariants, exact search, refinement; the tree of a key
 '- GisMap      what a key is to its clients: a map; Spatial implements it
Server          the keyspace, its AOF, an AOF rewrite, a replica
 |- MCServer        instances for TLC
 '- ServerProofs    theorems
Search          a search command from its arguments to its reply
 |- MCSearch        instances for TLC
 '- SearchProofs    theorems
Poly            points, segments, polygons                             (pure)
 '- PolyMap         geometries, their bounds and poly maps             (pure)
     '- Match           what a search finds of a geometry
         |- MCMatch         instances for TLC
         '- MatchProofs     theorems
Geoutil         distances, destinations and bounds of circles; used by Match      (pure)
Plane           the reference that Match is checked by                 (pure)
Binary          the cells of a stored geometry, the iterator of a collection      (pure)
 |- Wkt             the reader and the writer of WKT                   (pure)
 '- GeoJson         the reader and the writer of GeoJSON               (pure)
     '- Codec           a geometry from GIS.ADD to GIS.GET, a rewrite, GIS.DEL
         |- CodecMeaning    ... and what its text meant, by Grammar
         |   '- MCCodec         instance for TLC
         '- CodecProofs     theorems
             '- ReloadProofs    theorems: what is written and read again
Grammar         the reference that CodecMeaning reads a text by        (pure)
SequenceLemmas  induction, flattened sequences, least and greatest; used by all proofs but those of Spatial
```

**Rect.** Coordinates are integers where the code has doubles: the tree compares, adds and
squares them, so that only rounding is lost. `RectVolume` leaves out the constant factor of
`rectSphericalVolume`; the code compares volumes and differences of volumes only.

**RTree.** A node is a record of its level and the sequence of its branches; the C functions
change nodes in place, the operators return them as the function leaves them. Every function of
the insertion and removal paths has its operator of the same name: `PickBranch`, `InsertRectRec`,
`AddBranch`, the split (`PickSeeds`, `ChoosePartition`, `Load`), `RemoveRectRec` with its list of
underfull nodes (the last one found is the first one of the list), `Reinsert`, `CollapseRoot`.
A procedure that calls itself on the children of a node is a function of the level: its value at a level is a function on
the nodes of that level (`Node`), and its body is an operator of its own that takes the function of the level below
(`InsertInto`, `RemoveFrom`, `SearchUnder`, `LeavesUnder`). A loop is a function of the number of its turns (`PartitionNext` is one turn of
`choosePartition`, `InsertRect` one of the reinsertion). `Null`, the root before the first insertion, is a tree of level -1, which no procedure is called on.
`RTreeSpec` is the tree as a set of entries. A removal is certain to find its item if the given
rectangle overlaps the entry's and may or may not find it otherwise: that is all a caller that
does not know the nodes can rely on. `MAX_NODES` is 16 in the code and at least 4 here (with
2 or 3 `MIN_NODES` is 1, and a root above the leaves could be left with a single branch, then with none).

**Spatial.** `s` is the struct; each function of `spatial.c` is an operator on such records and
returns the set of objects it may leave, since the tree is abstract (`RTreeIndex`) and a removal
under the wrong bounds has two outcomes. The loops of `GIS.ADD` and of RDB load take one pair per
step (`mode`, `todo`), and `Restart` may fall between two of them; nothing else may, as Redis runs
no other command before the loop ends. RDB save runs in a forked child on the object as it is between two
commands: one step, with the pairs in any order. `SpatialNew(start)` takes the uninitialised `idx`
as a parameter that the actions choose. `sets` is a ghost variable: how often `spatialTypeSet` was
called on this object. `Match` (`matchSearch`) and `Bounds` (`geomBounds`) are parameters;
they depend on their arguments only. `GisMap` is the same key to its clients: a map from fields to
geometries. Its `Search` knows no tree, its `Restart` no loop: a load in progress maps to a key that is
already loaded, since no client can look.

**SpatialTree** closes the gap between the two: the calls that `spatialTypeSet` and `ExGisDel` make,
with their wrong bounds, on the tree of `RTree`, of whose nodes the abstract index knows nothing.

**Server** puts keys together. A value is the map that `GisMap` makes of it, so that `Server` rests on
what `Spatial` shows. Commands are records; `Result` is what a handler does to the value and
`Replicated` whether it reaches `RedisModule_ReplicateVerbatim`. A reader of the replication stream (the AOF,
a rewrite in progress, a replica) is a copy of the keyspace (`base`) with the commands that are on
their way to it (`pending`); `CaughtUp` is what it has after them. A ghost variable, `suspect`, holds
the fields on which it may disagree. A crash loses what has not reached the disk. The rewrite
writes one `GIS.ADD` per field, the name as a C string (`RewrittenValue`), or an RDB when
Redis is set up for it. `SET`, `DEL`, the stream, the rewrite and the restart are Redis's own and
modelled from how the module uses them.

**Search** is one command at a time: arguments are typed tokens, among them fields whose names are option
words. `ParseOption` takes one option per step as the loop of `parseGisFlags` does, with its
arity check, its skip and its error; `Visit` is `searchIterator`, one entry per step in any order of the tree;
`ReplySearch` sorts with every outcome a sort may have under the comparator, and replies. `heap` is what
the command has allocated. `request` remembers the options as they were meant, which the code cannot see, and
`Meant` and `Acceptable` are what the README says of them. `GIS.GETALL` is modelled with its documented
option; a `COUNT` or a target given to it is not.

**Poly, PolyMap, Match.** The predicates on integer coordinates, where products are exact and quotients are
compared by cross products; the code computes with doubles, and what it loses by that is not modelled. A
geometry is a record of its type and its body as the binary form nests them. `Reached` is common to all
the loops over a poly map: a part passes the test, and no part up to it has a type the switch
does not know. `Legs` are the segments such a loop takes of a line, `Stops` those of the loops that take both
ends from the same index. `Leaves` opens the collections in a collection, level by level, until none is left: `MaxDepth` bounds
how deep they are in one another, where `geomGeometryCollectionFlattenedArray` calls itself.
`CasesAssumption` says that a case is a geometry with as few levels as that, or a circle with a point whose distance `Geoutil` has. `Match` is the decision of a search on one stored geometry:
the index's overlap of bounds, then `matchSearch`. Its states are a call and its return, since there is
nothing else in this code that changes. `Plane` says what it should decide, by orientation only:
it shares no definition with `Poly`. A target may also be a circle, whose index window
`Geoutil` computes and which meets points by their distance.

**Geoutil** has distances as angles in whole degrees, as units of the earth's radius would. For a centre on the equator the formulas
of `geoutil.c` are then exact: east and west lead along the equator (`Normalised` is the `fmod`), north and
south along a meridian and, beyond a quarter of the globe, down the other side (`Folded` is what `asin` returns). Distances are defined for points on the
equator, on the meridians at 0, 90 and 180 degrees from the centre and at 45 degrees of both. Centres off the equator need trigonometry on doubles and are not
modelled, nor is the polygon of twelve sides that stands for a circle to geometries other than points.

**Binary, Wkt, GeoJson, Codec.** A text is a sequence of tokens and a stored geometry a sequence of cells: the mark of the
byte order, a type with its dimensions, counts and numbers. The code counts bytes where the model counts cells.
`NewContext` is the `ctx` of a call of the reader, with what stays in it from one coordinate to the next;
each function of the reader takes a context and returns it as the C function leaves it, and `Then` is the `if (c->err) return c`
that separates them. `DecodeElement` calls the reader again for the members of a collection, with
a buffer of their own, and `heap` counts the buffers. `GeoJson` reads the tree that the JSON reader gives and
writes one. Procedures that call themselves are functions of how deep they may (`Series`, `jsonDecodeAny`, and `inner`, `element`, `end` and `flattened`
inside of the operators that start them): an element takes a token and a member a cell, so that the length of the text or of the cells is deep enough,
and that of a JSON value comes with it. The body of each takes the function of the level below (`SeriesElements`, `DecodeObject`, `EncodeGeometry`).
`Tokens` and `Strings` are the tokens and strings there may be, those that the code compares with among them (`TokensAssumption`, `StringsAssumption`), and `Texts` what clients send, in any of the
formats (`TextsAssumption`). `Codec` lets a text go through a key: `GisAdd` decodes and stores it, `GisGet` writes
it, `Reload` is what a rewrite of the AOF and a load do to it, `GisDel` decodes the stored value for its bounds.
`CodecMeaning` adds what a text meant: `Grammar` says which texts are geometries and what they mean, cutting them at commas and brackets where
the code moves a cursor: it shares no definition with the others. No command calls the writer of GeoJSON; it is modelled as part of `geom.c`, and because
reading back what it writes tests the reader.

## The runs

| Run | Question | Instance |
|---|---|---|
| `rtree` | Is the tree well formed, are searches exact and does it implement a set of entries, under every order of insertions, removals (wrong rectangles included) and clears? Do removals from a tree of three levels lose or double nothing? | `MAX_NODES` 4. Either 6 items and 3 rectangles: a full root splits, leaves underflow, the root collapses. Or 15 items in three levels, removed in every order until 12 are left, each with its own rectangle or with one that overlaps part of the tree: leaves and inner nodes underflow in one removal, reinsertion works at two levels and the root collapses |
| `spatial` | Do the dictionaries, ids and the index of a key stay consistent, and is the key a map to its clients? | 2 fields, 3 geometries (two overlap, one is apart), 3 queries, limits 0 and 1, `IdxMod` = `MaxSets` = 3: the id wraps around from every start, each update has all its outcomes, `GIS.ADD` with two pairs has every mix of good and bad |
| `spatial_tree` | On the real tree, do updates with wrong bounds lose or hide a live field? Is the abstract index of `Spatial` right about the tree? | 5 fields, 6 sets, `MAX_NODES` 4: the root splits, entries are left over, updates and deletions search both leaves |
| `leftovers` (violation) | Does an update remove the former entry, as the comment in `spatialTypeSet` says? | the same with 7 sets |
| `server` | Do a replica and the AOF, rewritten or not, agree with the master under every interleaving of commands, synchronisations, lost connections, rewrites and crashes? | 1 key, 2 fields, 2 geometries, `MaxPairs` 2, `MaxCommands` 3: a field is stored by a `GIS.ADD` that fails, written again and rewritten |
| `replica_agrees` (violation) | Does a replica have what the master stored, as the replication test expects? | as `server` |
| `search` | Is a command parsed as it is meant, or refused, without reading beyond its end? Is it answered, with the right fields, as many as announced and in the right order, and is its memory freed? | every good option followed by one that is good, unusable or cut short at any argument, with and without a target before it; with a target, every combination of `LIMIT`, `COUNT`, order and reply options; 3 fields of which any match, in any order of the tree; from one origin one is far away, from the other one the distances of neighbours are closer than the comparator's tolerance (`Epsilon` = 2) and those of the ends are not |
| `match` | Does a search find a geometry exactly when it should? | see below |
| `codec` | Is a text stored as it is meant, or refused? Does what is stored survive rewrites of the AOF, the flattening of collections and GeoJSON, and is every buffer freed? | see below |
| `single_multipolygon`, `intersects_line` (violations) | Does a search find what the documentation says? | the smallest geometries that show it |
| `circle_antimeridian` (violation) | Does a circle find the points within its radius, wherever it is? | the circles of `match` that are narrower than a hemisphere |

The geometries of `match`, each pair with each of the four searches:

* `PointsExact`: every triangle and simple quadrilateral on a grid of 3 by 3 vertices, from every corner and in
  both directions (triangles left open, quadrilaterals closed), and squares with every triangular hole; the 25 points on and half-way between the vertices;
* `SegmentsExact`: all pairs of lines of two points on a 4 by 4 grid;
* `TrianglesExact`, `WithinExact`: every two triangles of the grid, and large ones with all small ones of a 5 by 5
  grid: strictly inside, touching from inside and outside, sharing parts of edges;
* `PartsAgree`: all pairs of 3 points, 3 lines, 4 polygons as MULTI geometries and collections, and nested ones;
* `RadiusExact`: circles around 8 places of the equator, two of them on the antimeridian and three near it, with 9 radii from 5 to 185 degrees,
  and the points around them up to both poles and to the other side of the globe. Nothing beyond the radius is found; all within it is, for circles
  that do not reach the antimeridian and are narrower than a hemisphere. What the others miss is the question of `circle_antimeridian`. No distance equals a radius: there, rounding would decide.

What a predicate decides depends on the signs of a few orientations and comparisons of coordinates only. On these
grids a point is above, below, beside, at the height of and on every kind of vertex and edge, and two segments cross, touch, overlap, are
parallel or in line, with their ends in any order.

The 14520 texts of `codec`: every type with every word (none, `Z`, `M`, `ZM`) and up to three elements at each level of
nesting, empty ones included, of coordinates with two, three and four numbers; collections of them, of
collections and of collections in these; each of the simple ones with a token lost, and samples of every type with
any token inserted or put in place of another; GeoJSON of every type with arrays of every depth and of mixed ones,
positions too short, too long and not of numbers, objects with members missing, doubled, foreign and of another kind, in
any order. What the reader remembers from one element to the next are the dimensions and the last coordinate, so that three elements in
a row meet every combination. Two texts begin with byte 1, which the code stores without reading them. A number is one digit: the reader hands it to `strtod` and passes it on.

Bounds on behaviours: `MaxDepth` (2 in `match`: collections in collections), `MaxItems` (items in a tree), `MaxSets` (calls of `spatialTypeSet` per object), `MaxPairs`
(pairs of a `GIS.ADD`), `MaxCommands` (commands of the master). Where a run's state space ends at
a bound (`rtree`, `spatial_tree`), with a field that is gone (`codec`) or with the return of a function (`match` and the violations of `Match`), its
configuration turns the deadlock check off; elsewhere deadlock is checked. Symmetry is used for fields, items
and geometries, which the code only compares for equality; all properties checked under it are
invariants or safety properties of steps.

Fairness is assumed in `Search` only: a command that has begun goes on, as Redis runs a handler to its
end in one thread. Nothing is assumed of clients. The other properties are safety properties.

### What the runs found

* `leftovers`: `spatialTypeSet` removes the former entry of a field under the bounds of the new value
  (`spatial.c:111`), whereas the comment above it says that the former entry is removed. With five
  fields the tree has two leaves, and a field that moves from one end to the other leaves an entry
  behind that stays until the key is freed. The other runs show that no search result is
  wrong for it; the entries accumulate with each move.
* `replica_agrees`: a `GIS.ADD` that fails at a later pair (`tairgis.c:228`) leaves the pairs before it
  on the master only. `FieldsAgree` shows that this is the only way to disagree, but for names with a NUL
  in a rewritten AOF.
* `single_multipolygon`: a `MULTIPOLYGON` of one polygon is read one level too high (`geom_polymap.c:214`)
  and found by nothing but, by accident, `GIS.WITHIN` around the origin.
* `intersects_line`: the loops over a line skip its first segment and close it; lines of two points come out
  right, as their only segment is then the closing one.
* `circle_antimeridian`: a circle that reaches the antimeridian has a window whose west edge is to the east of its east edge
  (`geoutil.c:86`): the search finds nothing, not even the centre. README.md speaks of the points within the radius.

Seen while modelling, and written into the models, but not the subject of a run:

* `parseGisFlags` takes several targets: the last one wins, a `GEOM` after a `RADIUS` keeps its centre and unit,
  and the block of the first target is never freed. The README allows one target only, so `MemoryBalanced` and
  the part of `ParsedAsMeant` about the centre are stated for commands with at most one.
* `lineintersects` misses segments in line that overlap for some orders of their ends, in spite of its comment
  (`polyintersects.c:98`): hence the exception in `SegmentsExact`. `TrianglesExact` shows that it does no harm
  between triangles: an edge next to the missed one meets, too.
* `geomPolyMapWithin` looks at vertices only, so that `GIS.WITHIN` overlooks holes and notches of the target;
  `WithinExact` is stated for triangles.
* `polyPolygonContains` is true if either polygon is inside of the other one (`polyintersects.c:221`): `GIS.CONTAINS` finds the polygons that are
  included in the given one, too, where README.md speaks of those that the given one is included in. `TrianglesExact` has the other half only: it misses none of these.
* A circle wider than a hemisphere has a window that ends at the pole it passes, and misses points beyond.
* A text whose first byte is 1 is stored as a geometry without being read (`geom.c:1239`; the comment there says that a check is still to
  be done). It is what the binary form begins with; the rest ends at its first NUL, as the handlers use `strlen`, so that it is hardly ever what a
  geometry should be. `Codec` stores it, keeps it apart (`Verified`), and ends where the code takes it for a geometry (`ReadUnverified`): the
  properties of stored geometries are about what was read as WKT or GeoJSON.
* A coordinate of two numbers after a first one of four is stored with the `m` of the coordinate before it
  (`geom.c:263` returns before `m` is set), and numbers beyond those of the first coordinate are dropped. The text
  does not say what `m` should be; `WktAsMeant` leaves it open.
* `POINT EMPTY` is stored, and written, as `POINT(0 0)`. A geometry without coordinates loses its `Z` in a rewrite, which nothing shows.
* The fourth number of a GeoJSON position is read as 0 (`geom_json.c`, `jsonGetPosition`); positions of different lengths are
  refused where WKT takes them. GeoJSON after leading blanks is refused, although WKT is taken.
* The AOF rewrite passes a name as a C string: one with a NUL is written as another one. `suspect` accounts for it.

## The theorems

`SpatialProofs` proves, for any sets of fields, geometries and queries, any `Bounds`, `Window` and
`Match` and any width of the private id, that `Spec` keeps

* `TypeOK` (`TypeCorrect`),
* `DictionariesAgree` (`DictionariesConsistent`), `EveryFieldIndexed` (`IndexComplete`) and `IdsAreUnique`,
  with the `IdsAreRecent` it rests on (`IdsNeverRepeat`),
* `DeleteNeverFails` (`DeletionComplete`) and `EachFieldOnce` (`SearchListsOnce`).

The argument. `ObjectInv(o, n)` says of an object on which `spatialTypeSet` was called `n` times that
it is well typed, its dictionaries agree, its fields are in the tree, no id is twice in the tree
and every id in use is among the last `n` given out. Deleting a field keeps it
(`DeleteKeeps`); adding one keeps it because the next id is then in nobody's hands
(`NextIdxIsFresh`), which is where `IdsAreRecent` is needed: uniqueness of the ids in the tree is not inductive
by itself, since a left-over entry might carry the next id. `IInv` is `TypeOK`, `ObjectInv` of
the key's object and the two properties of replies, which follow from it at the step that replies.

Assumptions: `BoundsAssumption` (a bounding rectangle has ordered corners), `BadAssumption`,
`LimitsAssumption`, and `IdxAssumption`, whose content is that an object sees no more than `IdxMod` calls
of `spatialTypeSet`, 2^64 in the code. TLC evaluates all of them in the runs of the module.

Under the same assumptions `SpatialProofs` also proves that `Spatial` implements `GisMap` (`Implementation`, the property
`ImplementsGisMap` of the run `spatial`). The abstract map is the dictionary `h`, overlaid with the pairs still to come
while an RDB file is loaded. `IInv` alone does not suffice: `LoadInv` adds that a key that does not exist has no
fields, that a file names each field once, and that the pairs still to be loaded are of fields that the object does not have.
Then there is a lemma per action. `GIS.ADD` creates the key and puts one pair per step (`SetMap`: the deletion inside of
`spatialTypeSet` does not show); a pair of a load is no step for clients (`StoreLoadImplements`); a save writes sequences that stand for the map
(`ListingMap`); a restart at any point brings it back. The search is where the index matters: `HitsAreAnswers` shows that the ids
`searchIterator` accepts are those of the answers, one for one. An entry that was left over has no field, for its id would
have to be a live one, whose only entry (`IdsUnique`) has the bounds of the value (`FieldsIndexed`). Hence `LIMIT`, which counts ids, counts
fields (`FieldsOfIds`, by cardinalities of finite sets).

`RTreeProofs` proves, for any items, any rectangles and windows with integer coordinates and any capacity of at least 4, that `RTree` keeps

* `TypeOK` (`TypeCorrect`), `MinimumFill` (`FilledNodes`), `RootBranches` (`ChoiceAtRoot`) and `TightCovers` (`ExactCovers`),
* `SearchExact` (`ExactSearch`),

and that it implements `RTreeSpec` (`Refinement`, the property `ImplementsRTreeSpec` of the run `rtree`).

The argument. `Sound(l, node)` says of a node of level `l` that at every node under it there is no branch too many, that its
children are covered exactly and have `MIN_NODES` branches, and that no item is under two of its branches; `SoundIs` takes it apart, level by
level. `Tree(t)` adds the two branches of a root above the leaves, and `TreeInv`, that there is such a tree or none, is the inductive
invariant. Its parts need each other. A cover is exact only of a node with branches, which is `MinimumFill`. `MinimumFill` comes from splits, which
need the capacity to be exact when they begin. A search that follows covers misses nothing because they are exact, and a removal that stops at the first branch under which it finds its
item takes the only entry of it because there is one only. The collapse is enough because the root's children have two branches themselves.
None is inductive alone; TLC checks all parts as invariants of the run `rtree`.

Each procedure of the code has an outcome, which speaks of the entries and the covers before and after the call:

* a split deals all branches out to two groups, neither of them smaller than `MIN_NODES` (`PartitionDealt`: by then no group has taken more than all but `minFill`), and loads them without
  losing one (`LoadSelects`); `AddBranch` adds its branch or splits (`AddOutcome`);
* an insertion at any level adds the branch, and the cover grows by its rectangle although only `combineRect` is used on the way up (`InsertRecOutcome`, by induction on the level);
* a removal returns the node without the item and without the underfull children it put on its list: what it leaves and what the list
  holds are together all entries but the item's (`RemoveRecOutcome`, by induction on the level). Between two reinsertions the tree is `Standing`: sound and at
  least as high as all nodes that are still listed, so that their branches find their level, although the root may be split in
  between; the root may have one branch or, as a leaf, none, and `CollapseIs` makes a tree of it;
* a search lists the items of overlapping entries (`SearchListed`, by induction on the level), each once.

The level functions are defined by what their bodies say (`Recursion`: functions on the naturals given by what they are below, by induction
over the sets of levels up to which there is one); `InsertIs`, `RemoveIs`, `SearchIs` and the like state each as the procedure it stands for. `StepOutcome` then gives
every step as one on sets of entries, which is what the invariant and the refinement both use.

Assumptions: `RectsAssumption` (rectangles have integer coordinates, in any order) and `MaxNodesAssumption`. With 2 or 3 branches to a node
the theorems would be wrong, as said above. The items and rectangles need not be finite in number.

Of `SpatialTree` the same module proves, for any fields, any rectangles with ordered corners and any number of updates, that the calls of `spatialTypeSet` and `ExGisDel`
keep `LiveFieldsFound` (`FieldsFound`) and that each of them is a step of the abstract index (`IndexSteps`, by `IndexAsSpecified`): on this step
`Spatial` and its proofs rest. `FieldsInv` says that the tree is as above, has the current entry of each field, and no id beyond the last one given out; ids of
fields differ. Of the entries left over it says nothing, and nothing needs to be said: `ItemsOnce` makes an id name one entry.
The deletion of a field does find its entry, since a rectangle with ordered corners overlaps itself (`BoundsAssumption`; `geomBounds` builds no other).
`SetsAssumption` says that private ids are among the items; that they do not come round is `IdxAssumption` of `Spatial`.

`ServerProofs` proves, for any keys, fields, geometries and bounds, that `Server` keeps

* `TypeOK` (`TypeCorrect`),
* `FieldsAgree` (`RepliesAgree`): `GIS.GET` gives the same reply on the master and on any reader that has
  caught up, except for the fields in `suspect`,
* `KeysAgree` (`ValuesAgree`): a key without such fields agrees as a whole, up to empty values.

The argument. `Agree(v, d, S)` relates a reader's value and the master's for a set `S` of suspect fields:
same type, or an empty value on one side and nothing on the other, and the same geometry in every field outside
of `S`. A replicated command takes agreeing values to agreeing values (`ReplicatedAgree`); one that is not
changes the master alone, in the fields it adds to `S` (`UnreplicatedAgree`); a rewrite agrees but for
the fields that a C string confuses (`RewrittenAgree`). `IInv` is the types (`Shapes`) and `Agree` for every reader
and every key; the base of the AOF is carried along, as a crash makes it the keyspace. Agreement of the
replies alone is not inductive: a `GIS.ADD` on a string fails, and whether it does must be the same on both sides.
What a reader will have, `CaughtUp`, is a fold over the commands that are on their way to it, which is shown to be the last of a
sequence of values, one per command (`FoldIsExecution`): such an execution exists for every length up to that of the commands (`UpTo`,
induction over the set of the lengths that have one) and is determined by where it starts. A command that is replicated goes to its end,
one that arrives leaves its beginning, so that a step of the master is one step of what each reader will have, and an arrival is none
(`ExecuteView`, `ApplyView`, `StartView`, `RewriteDoneView`, `CrashView`).

Assumptions: a geometry that decodes is none that does not (`BadAssumption`), the C string of a
field's name is one of the names considered (`CStringAssumption`), the two bounds are numbers.

`SearchProofs` proves every safety property of `Search`, for any fields, matches, distances, orders of the tree and outcomes of the
sort, and for requests of any length:

* `TypeOK` (`TypeCorrect`), with the bounds of the array of results, `ArgumentsInRange` (`ArgumentsRead`) and `ParsedAsMeant` (`CommandsUnderstood`),
* `MemoryBalanced` (`NothingLeaked`),
* `ReplyFramed` (`RepliesWhole`), `MatchesListed` (`RepliesComplete`) and `NearestListed` (`RepliesOrdered`).

The argument. A request is a sequence of phrases and its arguments are these one after the other; `FlattenLayout`
says where each of them lies. `Progress(k)` says that the parser has read the first `k` phrases and
nothing else: it stands at the first argument of phrase `k + 1` (each option skips as many arguments as it has, which is where an
off-by-one of a skip would show), all phrases before were usable, the context holds the
last or first of each kind of them, and the heap the block of the target. While the tree is walked, no
entry is both visited and still to visit, the results are the matches visited so far, and there are fewer than `LIMIT` or none is
left out. `ParsedAsMeant` alone is not inductive: what a phrase means says nothing about where the next one begins. The properties of replies are
about numbers: the sort is any permutation that qsort may leave under the comparator, of which `COUNT` takes the first ones.

Assumptions: `RequestsAssumption` (a request can be cut into phrases, each of as many arguments as its option takes, but for the last one, which
may end early; every sequence of arguments of a client can be cut so, by reading from left to right and taking an unknown word as a phrase of its own),
`FieldsAssumption` (finitely many fields), `DistanceAssumption` and `EpsilonAssumption` (distances are numbers, the tolerance is not negative).
Like the properties, `ParsedAsMeant` and `MemoryBalanced` are for at most one target where they say so.

`MatchProofs` proves, for geometries with any integers as coordinates, what `Plane` says of the code:

* `SegmentsExact` (`SegmentsAnswered`): `lineintersects` with a segment that is not in line is exact, in line it is sound, and the
  bounds of two segments that meet overlap;
* `WithinExact` (`TrianglesAnswered`): a ray through vertices and along edges tells whether a point is in a triangle;
* `RadiusExact` (`CirclesAnswered`): nothing beyond a circle's radius is found, and its rectangle leaves out no point within it, but for circles that
  reach the antimeridian or are wider than a hemisphere.

The argument. All of them are invariants of one step, so that the inductive invariant says no more than where an
answer comes from (`Matched`) and that field and target are one of the cases; the rest is geometry. The cross products of
`lineintersects` are on which side of one segment the ends of the other are (`CrossedSides`), and its quotients between 0 and 1
say that two of them are opposed (`CrossingExact`); for points in line the sides are in proportion
(`Proportion`). For a triangle the three sides of a point are weights of its corners (`Barycentric`): if they are of the same sign, the
corners are on no single side of the point's horizontal, nor of its vertical (`Surrounded`, `TriangleRect`: this is
why the bounds leave nothing out), and conversely a ray that crosses an odd number of edges passes exactly one of the two edges
at the corner that the horizontal parts from the others (`ApexCrossed`). `RectAround` says what the bounds of a ring of any length are. Circles are arithmetic modulo 360.
`CasesAssumption` is what is assumed: the cases are geometries, and circles with points that `Geoutil` has a distance for.

`CodecProofs` and `ReloadProofs` prove, for texts of any tokens and any length, any depth of collections in collections and any JSON values, that `Codec` keeps

* `TypeOK` (`CodecTypeCorrect`) and `NothingLeaks` (`NoBlockLeft`),
* `FlattenedWhole` (`ArrayWhole`),
* `ReloadKeeps` (`ReloadsKeep`, in `ReloadProofs`).

`Texts` may hold any text that begins with byte 1, too; of those, `NoBlockLeft` says what it says of all texts, and the others say nothing (`Verified`).

The argument. `Trees` are the geometries that there are: of each, its cells, its WKT, its GeoJSON, its leaves, what is left of it when its WKT is read again,
and whether there is a coordinate in it. The inductive invariant `Holds` says that the field holds the cells of such a tree or nothing, or what was stored unread, and that no block is left.
`TypeOK` is not inductive by itself: that the writer stops at the last cell says nothing of the counts and types inside, which decide what the next command does.

* The readers give trees or refuse (`WktSound`, `JsonSound`). A context that has read `k` elements of a series holds what it held before, a place for the count and the cells of
  `k` trees of the level, all of the dimensions that the first coordinate fixed (`SeriesRead`, `ElementRead`); until there is one, the type cell may still change
  and every element so far is one of any dimensions (`NoNumbers`). The heap is what it was after each element, also when a member is refused at any depth (`Sound`).
  An element takes a token at least, so that the depth that `Series` is started with suffices.
* Writers, iterators and whatever skips a geometry are about a position: where the cells of a tree stand in others (`Stands`), they do what is said of the
  tree and stop behind its last cell: `GeometryWritten`, `GeometrySkipped`, `MembersStand` and `LeavesLocated`, by induction on the depth and over the elements.
* What is left of a text without the names and brackets of collections is, token by token, a map that is flattened (`MappedFlat`); so are the leaves of a tree.

* `ReloadKeeps` needs more than that a reader gives some tree: the text of a tree is read to its end, and gives what the tree says is kept of it (`WktComplete`).
  `Follows` says where a reader is in such a text: which tokens come next and which cells are in the buffer, with the dimensions of the head it has read. It is carried over the head
  (`HeadFollows`), the numbers of a coordinate (`NumbersTaken`, `CoordPut`), an element (`ElementFollows`), the comma or bracket behind it (`MoreFollows`, `LastFollows`) and the members
  of a collection (`MemberFollows`). `CompleteSeries` says it of all calls whose text has up to `n` tokens; one call more takes one token more (`SeriesGrows`), which is the induction
  (`SeriesComplete`). The invariant is `Reloads`: the field holds a tree's cells, as they were read from the client's text, or what is kept of that tree; what is
  kept of what is kept is the same (`TreeKept`). Where the two differ there is no number in the text of the leaf (`EmptyLeaf`).

Assumptions: `TokensAssumption`, `StringsAssumption` and `TextsAssumption`.

### What is only model-checked

* `WktAsMeant` and `JsonAsMeant` of `Codec`: what a text means (`Grammar`) is a recursive definition over its tokens; that the two agree on every text is an induction over data.
* `JsonKeeps`: that the reader of GeoJSON takes what the writer writes. The proofs have what it gives if it does (`JsonSound`).
* `PointsExact` for polygons of more than three corners: that a ray is right about any simple polygon is the theorem of Jordan.
* `TrianglesExact`: two triangles that nothing separates have edges that meet or one is in the other.
* `PartsAgree`, which does not hold of every geometry: a collection may have a `MULTIPOLYGON` of one polygon among its members.
* The liveness property of `Search`: liveness under fairness is beyond the prover.
* The properties of runs that expect a violation, of course.

## Plan

Done: all modules, the proofs of `RTree` with the refinement of `RTreeSpec`, of `SpatialTree`, of `Spatial` with the refinement of `GisMap`, of `Server`, of `Search`, of `Match` and of `Codec`. What is left, in this order:

1. `PointsExact` for the triangles and holes the run has, from the lemmas of `WithinExact`; its convex quadrilaterals.
2. `JsonKeeps`, by following the reader over the JSON value of a tree as `WktComplete` follows the other over its text.
3. `TrianglesExact`, by the separating edge of two triangles.

## Not modelled

Memory exhaustion (`rtreeInsert` and the dictionaries are taken to succeed, as Redis aborts when
out of memory); the digits of numbers (`dstr` writes as many as reading them back exactly
takes, so that a number is a token) and where blanks may be missing; infinity and NaN, which `strtod` reads as numbers: coordinates are integers in all modules,
and no comparison of the predicates or of the tree is shown to be right about the others; what becomes of a text in the binary form after it was stored
unread, where it is taken for a geometry; options of the writers that no caller sets; geodesy off the equator and circles as polygons of twelve
sides; the glob pattern of a search context (`spatial.c:270-390`, never enabled by a command),
the wording of replies and errors, geohashes and quadkeys (no caller), `ExGisTypeDigest` (empty in the code), third-party code (`json.c`,
`grisu3.c`, `redismodule.h`), floating-point rounding.
