---------------------------- MODULE RTreeProofs ----------------------------
(***************************************************************************)
(* Proofs about RTree, for any items, rectangles of integers and window,   *)
(* and any capacity of four branches or more: the tree keeps its shape and *)
(* its covers, a search lists what overlaps its window, each item once,    *)
(* and the tree implements RTreeSpec. What the recursive procedures of the *)
(* code compute is stated as an outcome and proved by induction on levels, *)
(* with the loops of the code as induction on their turns. The last part   *)
(* is about SpatialTree, the tree of a key under any number of updates.    *)
(***************************************************************************)
EXTENDS SpatialTree, SequenceLemmas

-----------------------------------------------------------------------------
(***************************************************************************)
(* Rectangles.                                                             *)
(***************************************************************************)
\* A rectangle is its two corners.
LEMMA RectFields ==
    ASSUME NEW r \in RectType
    PROVE  /\ r = [min |-> r.min, max |-> r.max]
           /\ r.min \in [Dims -> Int] /\ r.max \in [Dims -> Int]
           /\ \A d \in Dims : r.min[d] \in Int /\ r.max[d] \in Int
  BY DEF RectType, Corner

\* A rectangle is known by its coordinates.
LEMMA SameRect ==
    ASSUME NEW a \in RectType, NEW b \in RectType,
           \A d \in Dims : a.min[d] = b.min[d] /\ a.max[d] = b.max[d]
    PROVE  a = b
  <1>1. /\ a = [min |-> a.min, max |-> a.max] /\ b = [min |-> b.min, max |-> b.max]
        /\ a.min \in [Dims -> Int] /\ a.max \in [Dims -> Int]
        /\ b.min \in [Dims -> Int] /\ b.max \in [Dims -> Int]
    BY RectFields
  <1>2. a.min = b.min
    BY <1>1
  <1>3. a.max = b.max
    BY <1>1
  <1> QED BY <1>1, <1>2, <1>3, Zenon

\* The combination of two rectangles is a rectangle, dimension by dimension.
LEMMA CombineType ==
    ASSUME NEW a \in RectType, NEW b \in RectType
    PROVE  /\ CombineRect(a, b) \in RectType
           /\ \A d \in Dims : /\ CombineRect(a, b).min[d] = lesser(a.min[d], b.min[d])
                              /\ CombineRect(a, b).max[d] = greater(a.max[d], b.max[d])
  BY RectFields DEF CombineRect, RectType, Corner, lesser, greater

\* A volume is an integer.
LEMMA VolumeType ==
    ASSUME NEW r \in RectType
    PROVE  RectVolume(r) \in Int
  <1>1. 1 \in Dims /\ 2 \in Dims
    BY DEF Dims
  <1>2. r.min[1] \in Int /\ r.min[2] \in Int /\ r.max[1] \in Int /\ r.max[2] \in Int
    BY <1>1, RectFields
  <1> QED BY <1>2 DEF RectVolume

\* Within is transitive.
LEMMA WithinTransitive ==
    ASSUME NEW a \in RectType, NEW b \in RectType, NEW c \in RectType, Within(a, b), Within(b, c)
    PROVE  Within(a, c)
  BY RectFields DEF Within

\* What overlaps a rectangle overlaps all that contain it.
LEMMA OverlapWithin ==
    ASSUME NEW w \in RectType, NEW a \in RectType, NEW b \in RectType, Within(a, b), Overlap(w, a)
    PROVE  Overlap(w, b)
  BY RectFields DEF Within, Overlap

-----------------------------------------------------------------------------
(***************************************************************************)
(* Covers.                                                                 *)
(***************************************************************************)
\* The rectangle around some others: each is within it, and each of its sides is one of theirs.
Surrounds(c, rs) ==
    /\ \A r \in rs : Within(r, c)
    /\ \A d \in Dims : /\ \E r \in rs : r.min[d] = c.min[d]
                       /\ \E r \in rs : r.max[d] = c.max[d]

\* The fold of CombineRect over a set of rectangles is what surrounds them.
LEMMA CoverSurrounds ==
    ASSUME NEW rs \in SUBSET RectType, IsFiniteSet(rs), rs # {}
    PROVE  Cover(rs) \in RectType /\ Surrounds(Cover(rs), rs)
  <1> DEFINE lo(d) == {r.min[d] : r \in rs}
             hi(d) == {r.max[d] : r \in rs}
  <1>1. ASSUME NEW d \in Dims
        PROVE  /\ lo(d) \in SUBSET Int /\ IsFiniteSet(lo(d)) /\ lo(d) # {}
               /\ hi(d) \in SUBSET Int /\ IsFiniteSet(hi(d)) /\ hi(d) # {}
    <2>1. lo(d) \in SUBSET Int /\ hi(d) \in SUBSET Int /\ lo(d) # {} /\ hi(d) # {}
      BY RectFields
    <2>2. IsFiniteSet(lo(d))
      <3> DEFINE f == [r \in rs |-> r.min[d]]
      <3>1. IsFiniteSet({f[r] : r \in rs})
        BY ImageFinite, Zenon
      <3> QED BY <3>1
    <2>3. IsFiniteSet(hi(d))
      <3> DEFINE f == [r \in rs |-> r.max[d]]
      <3>1. IsFiniteSet({f[r] : r \in rs})
        BY ImageFinite, Zenon
      <3> QED BY <3>1
    <2> QED BY <2>1, <2>2, <2>3
  <1>2. ASSUME NEW d \in Dims
        PROVE  /\ Min(lo(d)) \in lo(d) /\ \A n \in lo(d) : Min(lo(d)) <= n
               /\ Max(hi(d)) \in hi(d) /\ \A n \in hi(d) : n <= Max(hi(d))
    BY <1>1, LeastAndGreatest
  <1> DEFINE c == Cover(rs)
  <1>3. c = [min |-> [d \in Dims |-> Min(lo(d))], max |-> [d \in Dims |-> Max(hi(d))]]
    BY DEF Cover
  <1> HIDE DEF c
  <1>4. \A d \in Dims : c.min[d] = Min(lo(d)) /\ c.max[d] = Max(hi(d))
    BY <1>3
  <1>5. \A d \in Dims : Min(lo(d)) \in Int /\ Max(hi(d)) \in Int
    BY <1>1, <1>2
  <1>6. c \in RectType
    BY <1>3, <1>5 DEF RectType, Corner
  <1>7. \A r \in rs : Within(r, c)
    <2> SUFFICES ASSUME NEW r \in rs, NEW d \in Dims PROVE c.min[d] <= r.min[d] /\ r.max[d] <= c.max[d]
      BY DEF Within
    <2>1. r.min[d] \in lo(d) /\ r.max[d] \in hi(d)
      OBVIOUS
    <2> QED BY <2>1, <1>2, <1>4
  <1>8. ASSUME NEW d \in Dims
        PROVE  (\E r \in rs : r.min[d] = c.min[d]) /\ (\E r \in rs : r.max[d] = c.max[d])
    BY <1>2, <1>4
  <1> QED BY <1>6, <1>7, <1>8 DEF Surrounds, c

\* There is one such rectangle.
LEMMA SurroundsOnce ==
    ASSUME NEW rs \in SUBSET RectType, NEW a \in RectType, NEW b \in RectType,
           Surrounds(a, rs), Surrounds(b, rs)
    PROVE  a = b
  <1>1. ASSUME NEW d \in Dims PROVE a.min[d] = b.min[d]
    <2>1. PICK r \in rs : r.min[d] = a.min[d]
      BY DEF Surrounds
    <2>2. PICK s \in rs : s.min[d] = b.min[d]
      BY DEF Surrounds
    <2>3. b.min[d] <= r.min[d] /\ a.min[d] <= s.min[d]
      BY DEF Surrounds, Within
    <2>4. a.min[d] \in Int /\ b.min[d] \in Int
      BY RectFields
    <2> QED BY <2>1, <2>2, <2>3, <2>4
  <1>2. ASSUME NEW d \in Dims PROVE a.max[d] = b.max[d]
    <2>1. PICK r \in rs : r.max[d] = a.max[d]
      BY DEF Surrounds
    <2>2. PICK s \in rs : s.max[d] = b.max[d]
      BY DEF Surrounds
    <2>3. r.max[d] <= b.max[d] /\ s.max[d] <= a.max[d]
      BY DEF Surrounds, Within
    <2>4. a.max[d] \in Int /\ b.max[d] \in Int
      BY RectFields
    <2> QED BY <2>1, <2>2, <2>3, <2>4
  <1> QED BY <1>1, <1>2, SameRect

\* A cover is a rectangle with every one of the set within it.
LEMMA CoverType ==
    ASSUME NEW rs \in SUBSET RectType, IsFiniteSet(rs)
    PROVE  /\ Cover(rs) \in RectType
           /\ \A r \in rs : Within(r, Cover(rs))
  <1>1. CASE rs = {}
    <2>1. MakeRect(0, 0, 0, 0) \in RectType
      BY DEF MakeRect, RectType, Corner, Dims
    <2> QED BY <1>1, <2>1 DEF Cover
  <1>2. CASE rs # {}
    BY <1>2, CoverSurrounds DEF Surrounds
  <1> QED BY <1>1, <1>2

\* combineRect of a rectangle and a cover is the cover with that rectangle,
LEMMA CoverWith ==
    ASSUME NEW rs \in SUBSET RectType, IsFiniteSet(rs), rs # {}, NEW r \in RectType
    PROVE  Cover(rs \union {r}) = CombineRect(r, Cover(rs))
  <1> DEFINE c == Cover(rs)
             all == rs \union {r}
             new == CombineRect(r, c)
  <1>1. c \in RectType /\ Surrounds(c, rs)
    BY CoverSurrounds
  <1>2. all \in SUBSET RectType /\ IsFiniteSet(all) /\ all # {}
    BY FS_AddElement
  <1>3. Cover(all) \in RectType /\ Surrounds(Cover(all), all)
    BY <1>2, CoverSurrounds
  <1> HIDE DEF c
  <1>4. /\ new \in RectType
        /\ \A d \in Dims : new.min[d] = lesser(r.min[d], c.min[d]) /\ new.max[d] = greater(r.max[d], c.max[d])
    BY <1>1, CombineType
  <1> HIDE DEF new
  <1>5. \A d \in Dims : /\ r.min[d] \in Int /\ r.max[d] \in Int
                        /\ c.min[d] \in Int /\ c.max[d] \in Int
    BY <1>1, RectFields
  <1>6. \A d \in Dims : /\ new.min[d] <= r.min[d] /\ new.min[d] <= c.min[d]
                        /\ r.max[d] <= new.max[d] /\ c.max[d] <= new.max[d]
                        /\ new.min[d] = r.min[d] \/ new.min[d] = c.min[d]
                        /\ new.max[d] = r.max[d] \/ new.max[d] = c.max[d]
    BY <1>4, <1>5 DEF lesser, greater
  <1>7. Within(r, new) /\ Within(c, new)
    BY <1>6 DEF Within
  <1>8. \A s \in all : Within(s, new)
    <2> SUFFICES ASSUME NEW s \in rs PROVE Within(s, new)
      BY <1>7
    <2>1. Within(s, c) /\ s \in RectType
      BY <1>1 DEF Surrounds
    <2> QED BY <2>1, <1>1, <1>4, <1>7, WithinTransitive
  <1>9. ASSUME NEW d \in Dims
        PROVE  (\E s \in all : s.min[d] = new.min[d]) /\ (\E s \in all : s.max[d] = new.max[d])
    <2>1. (\E s \in rs : s.min[d] = c.min[d]) /\ (\E s \in rs : s.max[d] = c.max[d])
      BY <1>1 DEF Surrounds
    <2> QED BY <2>1, <1>6
  <1>10. Surrounds(new, all)
    BY <1>8, <1>9 DEF Surrounds
  <1>11. Cover(all) = new
    <2> HIDE DEF all
    <2> QED BY <1>2, <1>3, <1>4, <1>10, SurroundsOnce
  <1> QED BY <1>11 DEF new, c

\* and it does not matter whether a rectangle grows before it is covered or the cover does.
LEMMA CoverGrown ==
    ASSUME NEW rs \in SUBSET RectType, IsFiniteSet(rs), NEW r \in RectType, NEW s \in RectType
    PROVE  Cover(rs \union {CombineRect(r, s)}) = CombineRect(r, Cover(rs \union {s}))
  <1> DEFINE new == CombineRect(r, s)
             before == Cover(rs \union {s})
             after == CombineRect(r, before)
  <1>1. /\ rs \union {s} \in SUBSET RectType /\ IsFiniteSet(rs \union {s}) /\ rs \union {s} # {}
    BY FS_AddElement
  <1>2. before \in RectType /\ Surrounds(before, rs \union {s})
    BY <1>1, CoverSurrounds
  <1>3. /\ new \in RectType
        /\ \A d \in Dims : new.min[d] = lesser(r.min[d], s.min[d]) /\ new.max[d] = greater(r.max[d], s.max[d])
    BY CombineType
  <1> HIDE DEF before, new
  <1>4. /\ after \in RectType
        /\ \A d \in Dims : /\ after.min[d] = lesser(r.min[d], before.min[d])
                           /\ after.max[d] = greater(r.max[d], before.max[d])
    BY <1>2, CombineType
  <1>5. /\ rs \union {new} \in SUBSET RectType /\ IsFiniteSet(rs \union {new}) /\ rs \union {new} # {}
    BY <1>3, FS_AddElement
  <1>6. Cover(rs \union {new}) \in RectType /\ Surrounds(Cover(rs \union {new}), rs \union {new})
    BY <1>5, CoverSurrounds
  <1> HIDE DEF after
  <1>7. \A d \in Dims : /\ r.min[d] \in Int /\ r.max[d] \in Int /\ s.min[d] \in Int /\ s.max[d] \in Int
                        /\ before.min[d] \in Int /\ before.max[d] \in Int
                        /\ new.min[d] \in Int /\ new.max[d] \in Int
                        /\ after.min[d] \in Int /\ after.max[d] \in Int
    BY <1>2, <1>3, <1>4, RectFields
  <1>8. \A t \in rs \union {new} : Within(t, after)
    <2> SUFFICES ASSUME NEW t \in rs \union {new}, NEW d \in Dims
                 PROVE  after.min[d] <= t.min[d] /\ t.max[d] <= after.max[d]
      BY DEF Within
    <2>1. CASE t \in rs
      <3>1. before.min[d] <= t.min[d] /\ t.max[d] <= before.max[d] /\ t \in RectType
        BY <2>1, <1>2 DEF Surrounds, Within
      <3>2. t.min[d] \in Int /\ t.max[d] \in Int
        BY <3>1, RectFields
      <3> QED BY <3>1, <3>2, <1>4, <1>7 DEF lesser, greater
    <2>2. CASE t = new
      <3>1. before.min[d] <= s.min[d] /\ s.max[d] <= before.max[d]
        BY <1>2 DEF Surrounds, Within
      <3> QED BY <2>2, <3>1, <1>3, <1>4, <1>7 DEF lesser, greater
    <2> QED BY <2>1, <2>2
  <1>9. ASSUME NEW d \in Dims
        PROVE  \E t \in rs \union {new} : t.min[d] = after.min[d]
    <2>1. PICK t \in rs \union {s} : t.min[d] = before.min[d]
      BY <1>2 DEF Surrounds
    <2>2. before.min[d] <= s.min[d]
      BY <1>2 DEF Surrounds, Within
    <2>3. CASE r.min[d] < before.min[d]
      BY <2>2, <2>3, <1>3, <1>4, <1>7 DEF lesser
    <2>4. CASE before.min[d] <= r.min[d] /\ t \in rs
      BY <2>1, <2>4, <1>4, <1>7 DEF lesser
    <2>5. CASE before.min[d] <= r.min[d] /\ t = s
      BY <2>1, <2>5, <1>3, <1>4, <1>7 DEF lesser
    <2> QED BY <2>1, <2>3, <2>4, <2>5, <1>7
  <1>10. ASSUME NEW d \in Dims
        PROVE  \E t \in rs \union {new} : t.max[d] = after.max[d]
    <2>1. PICK t \in rs \union {s} : t.max[d] = before.max[d]
      BY <1>2 DEF Surrounds
    <2>2. s.max[d] <= before.max[d]
      BY <1>2 DEF Surrounds, Within
    <2>3. CASE before.max[d] < r.max[d]
      BY <2>2, <2>3, <1>3, <1>4, <1>7 DEF greater
    <2>4. CASE r.max[d] <= before.max[d] /\ t \in rs
      BY <2>1, <2>4, <1>4, <1>7 DEF greater
    <2>5. CASE r.max[d] <= before.max[d] /\ t = s
      BY <2>1, <2>5, <1>3, <1>4, <1>7 DEF greater
    <2> QED BY <2>1, <2>3, <2>4, <2>5, <1>7
  <1>11. Surrounds(after, rs \union {new})
    BY <1>8, <1>9, <1>10 DEF Surrounds
  <1>12. Cover(rs \union {new}) = after
    BY <1>4, <1>5, <1>6, <1>11, SurroundsOnce
  <1> QED BY <1>12 DEF after, before, new

-----------------------------------------------------------------------------
(***************************************************************************)
(* The recursive procedures.                                               *)
(***************************************************************************)
\* What each of them is at level l, given what it is below.
Procedure(call, l, below) ==
    CASE call.of = "Node" ->
            [level : {l}, branch : Seq(IF l = 0 THEN Entry ELSE [rect : RectType, child : below])]
      [] call.of = "Insert" -> [node \in Node[l] |-> InsertInto(call.branch, call.level, node, below)]
      [] call.of = "Remove" -> [node \in Node[l] |-> RemoveFrom(call.rect, call.item, node, below)]
      [] call.of = "Search" -> [node \in Node[l] |-> SearchUnder(call.rect, node, below)]
      [] call.of = "Leaves" -> [node \in Node[l] |-> LeavesUnder(node, below)]
      [] call.of = "Nodes"  -> [node \in Node[l] |-> NodesUnder(node, below)]
      [] call.of = "Partition" -> IF l = 0 THEN call.groups ELSE PartitionNext(call.buf, below)
      [] call.of = "Load" ->
            IF l = 0 THEN <<>> ELSE IF l \in call.group THEN Append(below, call.buf[l]) ELSE below
      [] call.of = "Reinsert" ->
            IF l = 0 THEN call.tree ELSE InsertRect(below, call.node.branch[l], call.node.level)
      [] call.of = "ReinsertAll" ->
            IF l = 0 THEN call.tree ELSE Reinsert(below, call.underfull[l])

\* f is the procedure up to level n.
Computes(call, f, n) ==
    /\ \A b : f[0] = Procedure(call, 0, b)
    /\ \A l \in 1 .. n : f[l] = Procedure(call, l, f[l - 1])

\* A procedure that makes no call at the leaves is a function of the level.
LEMMA Recursion ==
    ASSUME NEW call, \A a, b : Procedure(call, 0, a) = Procedure(call, 0, b)
    PROVE  \E f : f = [l \in Nat |-> Procedure(call, l, f[l - 1])]
  <1> DEFINE P(f, n) == Computes(call, f, n)
  <1>1. \A n \in Nat : \E f : P(f, n)
    <2> DEFINE S == {n \in Nat : \E f : P(f, n)}
    <2>1. 0 \in S
      <3> DEFINE f == [l \in {0} |-> Procedure(call, 0, 0)]
      <3>1. f[0] = Procedure(call, 0, 0)
        OBVIOUS
      <3> HIDE DEF f
      <3>2. P(f, 0)
        <4>1. \A b : f[0] = Procedure(call, 0, b)
          BY <3>1, Zenon
        <4> QED BY <4>1 DEF Computes
      <3> QED BY <3>2, Zenon
    <2>2. ASSUME NEW n \in Nat, n \in S PROVE n + 1 \in S
      <3>1. PICK f : P(f, n)
        BY <2>2
      <3> DEFINE g == [l \in 0 .. n + 1 |-> IF l <= n THEN f[l] ELSE Procedure(call, l, f[l - 1])]
      <3>2. \A l \in 0 .. n : g[l] = f[l]
        OBVIOUS
      <3>3. g[n + 1] = Procedure(call, n + 1, f[n])
        <4>1. n + 1 \in 0 .. n + 1 /\ ~(n + 1 <= n) /\ (n + 1) - 1 = n
          OBVIOUS
        <4> QED BY <4>1, Zenon
      <3> HIDE DEF g
      <3>4. \A b : g[0] = Procedure(call, 0, b)
        <4>1. 0 \in 0 .. n
          OBVIOUS
        <4> QED BY <4>1, <3>1, <3>2, Zenon DEF Computes
      <3>5. ASSUME NEW l \in 1 .. n + 1 PROVE g[l] = Procedure(call, l, g[l - 1])
        <4>1. CASE l = n + 1
          <5>1. l - 1 = n /\ n \in 0 .. n
            BY <4>1
          <5> QED BY <4>1, <5>1, <3>2, <3>3, Zenon
        <4>2. CASE l # n + 1
          <5>1. l \in 0 .. n /\ l - 1 \in 0 .. n /\ l \in 1 .. n
            BY <4>2
          <5> QED BY <5>1, <3>1, <3>2, Zenon DEF Computes
        <4> QED BY <4>1, <4>2
      <3>6. P(g, n + 1)
        BY <3>4, <3>5 DEF Computes
      <3>7. n + 1 \in Nat
        OBVIOUS
      <3> QED BY <3>6, <3>7, Zenon
    <2> HIDE DEF S
    <2>3. Nat \subseteq S
      BY <2>1, <2>2, NatSubset
    <2> QED BY <2>3 DEF S
  <1>2. ASSUME NEW m \in Nat, NEW n \in Nat, m <= n, NEW f, P(f, m), NEW g, P(g, n)
        PROVE  f[m] = g[m]
    <2> DEFINE S == {k \in 0 .. m : f[k] = g[k]}
    <2>1. 0 \in S
      <3>1. f[0] = g[0]
        BY <1>2, Zenon DEF Computes
      <3> QED BY <3>1
    <2>2. ASSUME NEW k \in 0 .. m - 1, k \in S PROVE k + 1 \in S
      <3>1. k + 1 \in 1 .. m /\ k + 1 \in 1 .. n /\ (k + 1) - 1 = k /\ k + 1 \in 0 .. m
        BY <1>2
      <3>2. f[k + 1] = Procedure(call, k + 1, f[k]) /\ g[k + 1] = Procedure(call, k + 1, g[k])
        BY <1>2, <3>1, Zenon DEF Computes
      <3>3. f[k] = g[k]
        BY <2>2
      <3>4. f[k + 1] = g[k + 1]
        BY <3>2, <3>3, Zenon
      <3> QED BY <3>1, <3>4
    <2>3. 0 .. m \subseteq S
      <3> HIDE DEF S
      <3> QED BY <2>1, <2>2, UpTo
    <2> QED BY <2>3
  <1> DEFINE upTo(n) == CHOOSE f : P(f, n)
             h == [n \in Nat |-> upTo(n)[n]]
  <1>3. \A n \in Nat : P(upTo(n), n)
    BY <1>1, Zenon
  <1> HIDE DEF upTo
  <1>4. \A n \in Nat : h[n] = upTo(n)[n]
    OBVIOUS
  <1>5. ASSUME NEW n \in Nat PROVE h[n] = Procedure(call, n, h[n - 1])
    <2>1. CASE n = 0
      BY <2>1, <1>3, <1>4, Zenon DEF Computes
    <2>2. CASE n # 0
      <3>1. n - 1 \in Nat /\ n - 1 <= n /\ n \in 1 .. n
        BY <2>2
      <3>2. upTo(n)[n] = Procedure(call, n, upTo(n)[n - 1])
        BY <3>1, <1>3, Zenon DEF Computes
      <3>3. upTo(n - 1)[n - 1] = upTo(n)[n - 1]
        BY <3>1, <1>2, <1>3
      <3> QED BY <3>1, <3>2, <3>3, <1>4, Zenon
    <2> QED BY <2>1, <2>2
  <1>6. h = [n \in Nat |-> h[n]]
    OBVIOUS
  <1> HIDE DEF h
  <1>7. h = [n \in Nat |-> Procedure(call, n, h[n - 1])]
    <2>1. [n \in Nat |-> h[n]] = [n \in Nat |-> Procedure(call, n, h[n - 1])]
      BY <1>5
    <2> QED BY <1>6, <2>1, Zenon
  <1> QED BY <1>7, Zenon

\* So is a loop of n turns.
LEMMA Loop ==
    ASSUME NEW call, \A a, b : Procedure(call, 0, a) = Procedure(call, 0, b), NEW n \in Nat
    PROVE  \E f : f = [k \in 0 .. n |-> Procedure(call, k, f[k - 1])]
  <1>1. PICK h : h = [l \in Nat |-> Procedure(call, l, h[l - 1])]
    BY Recursion
  <1> DEFINE f == [k \in 0 .. n |-> h[k]]
  <1>2. \A k \in 0 .. n : f[k] = Procedure(call, k, f[k - 1])
    <2> SUFFICES ASSUME NEW k \in 0 .. n PROVE f[k] = Procedure(call, k, f[k - 1])
      OBVIOUS
    <2>1. k \in Nat /\ f[k] = h[k] /\ h[k] = Procedure(call, k, h[k - 1])
      BY <1>1
    <2>2. CASE k = 0
      BY <2>1, <2>2, Zenon
    <2>3. CASE k # 0
      <3>1. f[k - 1] = h[k - 1]
        BY <2>3
      <3> HIDE DEF f
      <3> QED BY <2>1, <3>1, Zenon
    <2> HIDE DEF f
    <2> QED BY <2>2, <2>3
  <1>3. f = [k \in 0 .. n |-> f[k]]
    OBVIOUS
  <1> HIDE DEF f
  <1>4. [k \in 0 .. n |-> f[k]] = [k \in 0 .. n |-> Procedure(call, k, f[k - 1])]
    BY <1>2
  <1> QED BY <1>3, <1>4, Zenon

-----------------------------------------------------------------------------
(***************************************************************************)
(* Nodes.                                                                  *)
(***************************************************************************)
\* A node of a level, unfolded once.
LEMMA NodeIs ==
    ASSUME NEW l \in Nat
    PROVE  Node[l] = [level : {l},
                      branch : Seq(IF l = 0 THEN Entry ELSE [rect : RectType, child : Node[l - 1]])]
  <1> DEFINE c == [of |-> "Node"]
             Body(n, below) == [level : {n}, branch : Seq(IF n = 0 THEN Entry ELSE [rect : RectType, child : below])]
  <1>1. \A n, b : Procedure(c, n, b) = Body(n, b)
    BY DEF Procedure
  <1>2. \A a, b : Body(0, a) = Body(0, b)
    OBVIOUS
  <1>3. \A a, b : Procedure(c, 0, a) = Procedure(c, 0, b)
    <2> HIDE DEF c, Body
    <2> QED BY <1>1, <1>2, Zenon
  <1>4. PICK f : f = [n \in Nat |-> Procedure(c, n, f[n - 1])]
    <2> HIDE DEF c
    <2> QED BY <1>3, Recursion
  <1>5. f = [n \in Nat |-> Body(n, f[n - 1])]
    <2> HIDE DEF c, Body
    <2>1. [n \in Nat |-> Procedure(c, n, f[n - 1])] = [n \in Nat |-> Body(n, f[n - 1])]
      BY <1>1
    <2> QED BY <1>4, <2>1, Zenon
  <1>6. Node = [n \in Nat |-> Body(n, Node[n - 1])]
    BY <1>5, Zenon DEF Node
  <1> HIDE DEF Body
  <1>7. Node[l] = Body(l, Node[l - 1])
    BY <1>6, Zenon
  <1> QED BY <1>7 DEF Body

\* The branches of a node of level l.
BranchType(l) == IF l = 0 THEN Entry ELSE [rect : RectType, child : Node[l - 1]]

\* The fields of a node, and its branches as a sequence.
LEMMA NodeFields ==
    ASSUME NEW l \in Nat, NEW node \in Node[l]
    PROVE  /\ node.level = l
           /\ node = [level |-> l, branch |-> node.branch]
           /\ node.branch \in Seq(BranchType(l))
           /\ Count(node) \in Nat /\ Count(node) = Len(node.branch)
           /\ Positions(node) = 1 .. Count(node)
           /\ \A i \in Positions(node) : node.branch[i] \in BranchType(l)
  <1>1. node \in [level : {l}, branch : Seq(BranchType(l))]
    BY NodeIs, Zenon DEF BranchType
  <1>2. node.level = l /\ node = [level |-> l, branch |-> node.branch] /\ node.branch \in Seq(BranchType(l))
    BY <1>1
  <1>3. /\ Len(node.branch) \in Nat /\ DOMAIN node.branch = 1 .. Len(node.branch)
        /\ \A i \in 1 .. Len(node.branch) : node.branch[i] \in BranchType(l)
    BY <1>2
  <1> QED BY <1>2, <1>3 DEF Count, Positions

\* A node made of branches of its level.
LEMMA NodeMade ==
    ASSUME NEW l \in Nat, NEW s \in Seq(BranchType(l))
    PROVE  /\ [level |-> l, branch |-> s] \in Node[l]
           /\ [level |-> l, branch |-> s].branch = s
           /\ [level |-> l, branch |-> s].level = l
  <1>1. [level |-> l, branch |-> s] \in [level : {l}, branch : Seq(BranchType(l))]
    OBVIOUS
  <1> QED BY <1>1, NodeIs, Zenon DEF BranchType

\* The branch of an inner node leads to a node one level below.
LEMMA InnerBranch ==
    ASSUME NEW l \in Nat \ {0}, NEW b \in BranchType(l)
    PROVE  /\ l - 1 \in Nat
           /\ b = [rect |-> b.rect, child |-> b.child]
           /\ b.rect \in RectType /\ b.child \in Node[l - 1]
  BY DEF BranchType

\* The branch of a leaf is an entry.
LEMMA LeafBranch ==
    ASSUME NEW b \in BranchType(0)
    PROVE  b \in Entry /\ b.item \in Items /\ b.rect \in Rects /\ b.rect \in RectType
  BY RectsAssumption DEF BranchType, Entry

\* Every branch has a rectangle.
LEMMA BranchRect ==
    ASSUME NEW l \in Nat, NEW b \in BranchType(l)
    PROVE  b.rect \in RectType
  BY InnerBranch, LeafBranch

\* A child of a node of level l.
LEMMA ChildType ==
    ASSUME NEW l \in Nat \ {0}, NEW node \in Node[l], NEW i \in Positions(node)
    PROVE  l - 1 \in Nat /\ node.branch[i].child \in Node[l - 1]
  BY NodeFields, InnerBranch

-----------------------------------------------------------------------------
(***************************************************************************)
(* Each procedure in terms of itself on the children.                      *)
(***************************************************************************)
\* Leaves goes through the branches in order.
LEMMA LeavesAre ==
    ASSUME NEW l \in Nat, NEW node \in Node[l]
    PROVE  Leaves(node) = IF l = 0 THEN node.branch
                          ELSE FlattenSeq([i \in Positions(node) |-> Leaves(node.branch[i].child)])
  <1> DEFINE c == [of |-> "Leaves"]
             Body(n, below) == [x \in Node[n] |-> LeavesUnder(x, below)]
             leaves == CHOOSE f : f = [n \in Nat |-> Body(n, f[n - 1])]
  <1>1. \A n, b : Procedure(c, n, b) = Body(n, b)
    BY DEF Procedure
  <1>2. \A a, b : Body(0, a) = Body(0, b)
    <2>1. \A x \in Node[0] : x.level = 0
      BY NodeFields
    <2>2. \A a, b : \A x \in Node[0] : LeavesUnder(x, a) = LeavesUnder(x, b)
      BY <2>1, Zenon DEF LeavesUnder
    <2> QED BY <2>2
  <1>3. \A a, b : Procedure(c, 0, a) = Procedure(c, 0, b)
    <2> HIDE DEF c, Body
    <2> QED BY <1>1, <1>2, Zenon
  <1>4. PICK f : f = [n \in Nat |-> Procedure(c, n, f[n - 1])]
    <2> HIDE DEF c
    <2> QED BY <1>3, Recursion
  <1>5. f = [n \in Nat |-> Body(n, f[n - 1])]
    <2> HIDE DEF c, Body
    <2>1. [n \in Nat |-> Procedure(c, n, f[n - 1])] = [n \in Nat |-> Body(n, f[n - 1])]
      BY <1>1
    <2> QED BY <1>4, <2>1, Zenon
  <1>6. leaves = [n \in Nat |-> Body(n, leaves[n - 1])]
    BY <1>5, Zenon
  <1>7. \A x : Leaves(x) = leaves[x.level][x]
    BY DEF Leaves
  <1> HIDE DEF leaves
  <1>8. \A n \in Nat : \A x \in Node[n] : Leaves(x) = LeavesUnder(x, leaves[n - 1])
    <2> SUFFICES ASSUME NEW n \in Nat, NEW x \in Node[n] PROVE Leaves(x) = LeavesUnder(x, leaves[n - 1])
      OBVIOUS
    <2>1. leaves[n] = Body(n, leaves[n - 1])
      <3> HIDE DEF Body
      <3> QED BY <1>6, Zenon
    <2>2. x.level = n
      BY NodeFields
    <2> QED BY <1>7, <2>1, <2>2, Zenon
  <1>9. CASE l = 0
    BY <1>8, <1>9, NodeFields DEF LeavesUnder
  <1>10. CASE l # 0
    <2>1. \A i \in Positions(node) : leaves[l - 1][node.branch[i].child] = Leaves(node.branch[i].child)
      <3> SUFFICES ASSUME NEW i \in Positions(node) PROVE leaves[l - 1][node.branch[i].child] = Leaves(node.branch[i].child)
        OBVIOUS
      <3>1. l - 1 \in Nat /\ node.branch[i].child \in Node[l - 1]
        BY <1>10, ChildType
      <3>2. node.branch[i].child.level = l - 1
        BY <3>1, NodeFields
      <3> QED BY <3>2, <1>7, Zenon
    <2>2. node.level # 0
      BY <1>10, NodeFields
    <2>3. Leaves(node) = FlattenSeq([i \in Positions(node) |-> leaves[l - 1][node.branch[i].child]])
      BY <1>8, <2>2, Zenon DEF LeavesUnder
    <2>4. [i \in Positions(node) |-> leaves[l - 1][node.branch[i].child]] = [i \in Positions(node) |-> Leaves(node.branch[i].child)]
      BY <2>1
    <2> QED BY <1>10, <2>3, <2>4, Zenon
  <1> QED BY <1>9, <1>10

\* The nodes under a node: itself, and those under its children.
LEMMA NodesAre ==
    ASSUME NEW l \in Nat, NEW node \in Node[l]
    PROVE  NodesFrom(node) = {node} \union IF l = 0 THEN {}
                                          ELSE UNION {NodesFrom(node.branch[i].child) : i \in Positions(node)}
  <1> DEFINE c == [of |-> "Nodes"]
             Body(n, below) == [x \in Node[n] |-> NodesUnder(x, below)]
             run == CHOOSE f : f = [n \in Nat |-> Body(n, f[n - 1])]
  <1>1. \A n, b : Procedure(c, n, b) = Body(n, b)
    BY DEF Procedure
  <1>2. \A a, b : Body(0, a) = Body(0, b)
    <2>1. \A x \in Node[0] : x.level = 0
      BY NodeFields
    <2>2. \A a, b : \A x \in Node[0] : NodesUnder(x, a) = NodesUnder(x, b)
      BY <2>1, Zenon DEF NodesUnder
    <2> QED BY <2>2
  <1>3. \A a, b : Procedure(c, 0, a) = Procedure(c, 0, b)
    <2> HIDE DEF c, Body
    <2> QED BY <1>1, <1>2, Zenon
  <1>4. PICK f : f = [n \in Nat |-> Procedure(c, n, f[n - 1])]
    <2> HIDE DEF c
    <2> QED BY <1>3, Recursion
  <1>5. f = [n \in Nat |-> Body(n, f[n - 1])]
    <2> HIDE DEF c, Body
    <2>1. [n \in Nat |-> Procedure(c, n, f[n - 1])] = [n \in Nat |-> Body(n, f[n - 1])]
      BY <1>1
    <2> QED BY <1>4, <2>1, Zenon
  <1>6. run = [n \in Nat |-> Body(n, run[n - 1])]
    BY <1>5, Zenon
  <1>7. \A x : NodesFrom(x) = run[x.level][x]
    BY DEF NodesFrom
  <1> HIDE DEF run
  <1>8. NodesFrom(node) = NodesUnder(node, run[l - 1])
    <2>1. run[l] = Body(l, run[l - 1])
      <3> HIDE DEF Body
      <3> QED BY <1>6, Zenon
    <2>2. node.level = l
      BY NodeFields
    <2> QED BY <1>7, <2>1, <2>2, Zenon
  <1>9. CASE l = 0
    BY <1>8, <1>9, NodeFields DEF NodesUnder
  <1>10. CASE l # 0
    <2>1. \A i \in Positions(node) : run[l - 1][node.branch[i].child] = NodesFrom(node.branch[i].child)
      <3> SUFFICES ASSUME NEW i \in Positions(node)
                   PROVE  run[l - 1][node.branch[i].child] = NodesFrom(node.branch[i].child)
        OBVIOUS
      <3>1. node.branch[i].child.level = l - 1
        BY <1>10, ChildType, NodeFields
      <3> QED BY <3>1, <1>7, Zenon
    <2>2. node.level # 0
      BY <1>10, NodeFields
    <2>3. NodesFrom(node) = {node} \union UNION {run[l - 1][node.branch[i].child] : i \in Positions(node)}
      BY <1>8, <2>2, Zenon DEF NodesUnder
    <2>4. {run[l - 1][node.branch[i].child] : i \in Positions(node)} = {NodesFrom(node.branch[i].child) : i \in Positions(node)}
      BY <2>1
    <2> QED BY <1>10, <2>3, <2>4, Zenon
  <1> QED BY <1>9, <1>10

\* SearchNode, as the recursive procedure of the code: what the visited branches find, in order.
LEMMA SearchIs ==
    ASSUME NEW rect, NEW l \in Nat, NEW node \in Node[l]
    PROVE  SearchNode(node, rect) =
               FlattenSeq([i \in Positions(node) |->
                   IF i \notin Visited(rect, node) THEN <<>>
                   ELSE IF l = 0 THEN <<node.branch[i].item>>
                   ELSE SearchNode(node.branch[i].child, rect)])
  <1> DEFINE c == [of |-> "Search", rect |-> rect]
             Body(n, below) == [x \in Node[n] |-> SearchUnder(rect, x, below)]
             run == CHOOSE f : f = [n \in Nat |-> Body(n, f[n - 1])]
  <1>1. \A n, b : Procedure(c, n, b) = Body(n, b)
    BY DEF Procedure
  <1>2. \A a, b : Body(0, a) = Body(0, b)
    <2>1. \A x \in Node[0] : x.level = 0
      BY NodeFields
    <2>2. \A a, b : \A x \in Node[0] : SearchUnder(rect, x, a) = SearchUnder(rect, x, b)
      BY <2>1 DEF SearchUnder
    <2> QED BY <2>2
  <1>3. \A a, b : Procedure(c, 0, a) = Procedure(c, 0, b)
    <2> HIDE DEF c, Body
    <2> QED BY <1>1, <1>2, Zenon
  <1>4. PICK f : f = [n \in Nat |-> Procedure(c, n, f[n - 1])]
    <2> HIDE DEF c
    <2> QED BY <1>3, Recursion
  <1>5. f = [n \in Nat |-> Body(n, f[n - 1])]
    <2> HIDE DEF c, Body
    <2>1. [n \in Nat |-> Procedure(c, n, f[n - 1])] = [n \in Nat |-> Body(n, f[n - 1])]
      BY <1>1
    <2> QED BY <1>4, <2>1, Zenon
  <1>6. run = [n \in Nat |-> Body(n, run[n - 1])]
    BY <1>5, Zenon
  <1>7. \A x : SearchNode(x, rect) = run[x.level][x]
    BY DEF SearchNode
  <1> HIDE DEF run
  <1>8. SearchNode(node, rect) = SearchUnder(rect, node, run[l - 1])
    <2>1. run[l] = Body(l, run[l - 1])
      <3> HIDE DEF Body
      <3> QED BY <1>6, Zenon
    <2>2. node.level = l
      BY NodeFields
    <2> QED BY <1>7, <2>1, <2>2, Zenon
  <1>9. CASE l = 0
    BY <1>8, <1>9, NodeFields DEF SearchUnder
  <1>10. CASE l # 0
    <2>1. \A i \in Positions(node) : run[l - 1][node.branch[i].child] = SearchNode(node.branch[i].child, rect)
      <3> SUFFICES ASSUME NEW i \in Positions(node)
                   PROVE  run[l - 1][node.branch[i].child] = SearchNode(node.branch[i].child, rect)
        OBVIOUS
      <3>1. node.branch[i].child.level = l - 1
        BY <1>10, ChildType, NodeFields
      <3> QED BY <3>1, <1>7, Zenon
    <2>2. node.level # 0
      BY <1>10, NodeFields
    <2>3. SearchNode(node, rect) =
             FlattenSeq([i \in Positions(node) |->
                 IF i \notin Visited(rect, node) THEN <<>> ELSE run[l - 1][node.branch[i].child]])
      BY <1>8, <2>2 DEF SearchUnder
    <2>4. [i \in Positions(node) |-> IF i \notin Visited(rect, node) THEN <<>> ELSE run[l - 1][node.branch[i].child]]
             = [i \in Positions(node) |-> IF i \notin Visited(rect, node) THEN <<>>
                                          ELSE IF l = 0 THEN <<node.branch[i].item>>
                                          ELSE SearchNode(node.branch[i].child, rect)]
      BY <1>10, <2>1
    <2> QED BY <2>3, <2>4, Zenon
  <1> QED BY <1>9, <1>10

\* InsertRectRec, as the recursive procedure of the code: add the branch at its level, or go
\* down the branch picked and come back up.
LEMMA InsertIs ==
    ASSUME NEW branch, NEW level \in Nat, NEW l \in Nat, NEW node \in Node[l]
    PROVE  /\ l = level => InsertRectRec(branch, node, level) = AddBranch(branch, node)
           /\ \A i \in Positions(node) : l > level /\ i = PickBranch(branch.rect, node) =>
                 InsertRectRec(branch, node, level) =
                     AfterInsertion(branch.rect, node, i, InsertRectRec(branch, node.branch[i].child, level))
  <1> DEFINE c == [of |-> "Insert", branch |-> branch, level |-> level]
             Body(n, below) == [x \in Node[n] |-> InsertInto(branch, level, x, below)]
             run == CHOOSE f : f = [n \in Nat |-> Body(n, f[n - 1])]
  <1>1. \A n, b : Procedure(c, n, b) = Body(n, b)
    BY DEF Procedure
  <1>2. \A a, b : Body(0, a) = Body(0, b)
    <2>1. \A x \in Node[0] : x.level = 0
      BY NodeFields
    <2>2. \A a, b : \A x \in Node[0] : InsertInto(branch, level, x, a) = InsertInto(branch, level, x, b)
      BY <2>1 DEF InsertInto
    <2> QED BY <2>2
  <1>3. \A a, b : Procedure(c, 0, a) = Procedure(c, 0, b)
    <2> HIDE DEF c, Body
    <2> QED BY <1>1, <1>2, Zenon
  <1>4. PICK f : f = [n \in Nat |-> Procedure(c, n, f[n - 1])]
    <2> HIDE DEF c
    <2> QED BY <1>3, Recursion
  <1>5. f = [n \in Nat |-> Body(n, f[n - 1])]
    <2> HIDE DEF c, Body
    <2>1. [n \in Nat |-> Procedure(c, n, f[n - 1])] = [n \in Nat |-> Body(n, f[n - 1])]
      BY <1>1
    <2> QED BY <1>4, <2>1, Zenon
  <1>6. run = [n \in Nat |-> Body(n, run[n - 1])]
    BY <1>5, Zenon
  <1>7. \A x : InsertRectRec(branch, x, level) = run[x.level][x]
    BY DEF InsertRectRec
  <1> HIDE DEF run
  <1>8. InsertRectRec(branch, node, level) = InsertInto(branch, level, node, run[l - 1])
    <2>1. run[l] = Body(l, run[l - 1])
      <3> HIDE DEF Body
      <3> QED BY <1>6, Zenon
    <2>2. node.level = l
      BY NodeFields
    <2> QED BY <1>7, <2>1, <2>2, Zenon
  <1>9. CASE l = level
    BY <1>8, <1>9, NodeFields DEF InsertInto
  <1>10. CASE l > level
    <2>0. l # 0 /\ l \in Nat \ {0}
      BY <1>10
    <2>1. \A i \in Positions(node) : run[l - 1][node.branch[i].child] = InsertRectRec(branch, node.branch[i].child, level)
      <3> SUFFICES ASSUME NEW i \in Positions(node)
                   PROVE  run[l - 1][node.branch[i].child] = InsertRectRec(branch, node.branch[i].child, level)
        OBVIOUS
      <3>1. node.branch[i].child.level = l - 1
        BY <2>0, ChildType, NodeFields
      <3> QED BY <3>1, <1>7, Zenon
    <2>2. node.level # 0
      BY <2>0, NodeFields
    <2>3. \A i : i = PickBranch(branch.rect, node) =>
             InsertRectRec(branch, node, level) = AfterInsertion(branch.rect, node, i, run[l - 1][node.branch[i].child])
      <3>1. node.level = l /\ ~(l < level) /\ l # level
        BY <1>10, NodeFields
      <3> QED BY <1>8, <3>1, Zenon DEF InsertInto
    <2>4. l # level
      BY <1>10
    <2> QED BY <2>1, <2>3, <2>4, Zenon
  <1>11. CASE l < level
    BY <1>11
  <1> QED BY <1>9, <1>10, <1>11

\* What removeRectRec finds under each branch it follows.
SubRemovals(rect, item, node) ==
    [i \in Overlapping(rect, node) |-> RemoveRectRec(rect, item, node.branch[i].child)]

\* RemoveRectRec, as the recursive procedure of the code: the first branch below which the
\* item is found is the one changed.
LEMMA RemoveIs ==
    ASSUME NEW rect, NEW item, NEW l \in Nat, NEW node \in Node[l]
    PROVE  RemoveRectRec(rect, item, node) =
               IF l = 0
               THEN RemoveFromLeaf(item, node)
               ELSE LET sub == SubRemovals(rect, item, node)
                        at == {i \in DOMAIN sub : sub[i].found}
                    IN  IF at = {} THEN NotFound(node)
                        ELSE AfterRemoval(node, Min(at), sub[Min(at)].node, sub[Min(at)].underfull)
  <1> DEFINE c == [of |-> "Remove", rect |-> rect, item |-> item]
             Body(n, below) == [x \in Node[n] |-> RemoveFrom(rect, item, x, below)]
             run == CHOOSE f : f = [n \in Nat |-> Body(n, f[n - 1])]
  <1>1. \A n, b : Procedure(c, n, b) = Body(n, b)
    BY DEF Procedure
  <1>2. \A a, b : Body(0, a) = Body(0, b)
    <2>1. \A x \in Node[0] : x.level = 0
      BY NodeFields
    <2>2. \A a, b : \A x \in Node[0] : RemoveFrom(rect, item, x, a) = RemoveFrom(rect, item, x, b)
      <3> SUFFICES ASSUME NEW a, NEW b, NEW x \in Node[0]
                   PROVE  RemoveFrom(rect, item, x, a) = RemoveFrom(rect, item, x, b)
        OBVIOUS
      <3>1. \A d : RemoveFrom(rect, item, x, d) = RemoveFromLeaf(item, x)
        BY <2>1 DEF RemoveFrom
      <3> QED BY <3>1
    <2> QED BY <2>2
  <1>3. \A a, b : Procedure(c, 0, a) = Procedure(c, 0, b)
    <2> HIDE DEF c, Body
    <2> QED BY <1>1, <1>2, Zenon
  <1>4. PICK f : f = [n \in Nat |-> Procedure(c, n, f[n - 1])]
    <2> HIDE DEF c
    <2> QED BY <1>3, Recursion
  <1>5. f = [n \in Nat |-> Body(n, f[n - 1])]
    <2> HIDE DEF c, Body
    <2>1. [n \in Nat |-> Procedure(c, n, f[n - 1])] = [n \in Nat |-> Body(n, f[n - 1])]
      BY <1>1
    <2> QED BY <1>4, <2>1, Zenon
  <1>6. run = [n \in Nat |-> Body(n, run[n - 1])]
    BY <1>5, Zenon
  <1>7. \A x : RemoveRectRec(rect, item, x) = run[x.level][x]
    BY DEF RemoveRectRec
  <1> HIDE DEF run
  <1>8. RemoveRectRec(rect, item, node) = RemoveFrom(rect, item, node, run[l - 1])
    <2>1. run[l] = Body(l, run[l - 1])
      <3> HIDE DEF Body
      <3> QED BY <1>6, Zenon
    <2>2. node.level = l
      BY NodeFields
    <2> QED BY <1>7, <2>1, <2>2, Zenon
  <1>9. CASE l = 0
    BY <1>8, <1>9, NodeFields DEF RemoveFrom
  <1>10. CASE l # 0
    <2>1. \A i \in Positions(node) : run[l - 1][node.branch[i].child] = RemoveRectRec(rect, item, node.branch[i].child)
      <3> SUFFICES ASSUME NEW i \in Positions(node)
                   PROVE  run[l - 1][node.branch[i].child] = RemoveRectRec(rect, item, node.branch[i].child)
        OBVIOUS
      <3>1. node.branch[i].child.level = l - 1
        BY <1>10, ChildType, NodeFields
      <3> QED BY <3>1, <1>7, Zenon
    <2>2. node.level # 0
      BY <1>10, NodeFields
    <2>3. [i \in Overlapping(rect, node) |-> run[l - 1][node.branch[i].child]] = SubRemovals(rect, item, node)
      BY <2>1 DEF SubRemovals, Overlapping
    <2>4. \A b : b = [i \in Overlapping(rect, node) |-> run[l - 1][node.branch[i].child]] =>
             RemoveRectRec(rect, item, node) =
                 LET at == {i \in DOMAIN b : b[i].found}
                 IN  IF at = {} THEN NotFound(node)
                     ELSE AfterRemoval(node, Min(at), b[Min(at)].node, b[Min(at)].underfull)
      BY <1>8, <2>2, Zenon DEF RemoveFrom
    <2> QED BY <1>10, <2>3, <2>4, Zenon
  <1> QED BY <1>9, <1>10

\* ChoosePartition deals the buffer out one branch a turn.
LEMMA PartitionIs ==
    ASSUME NEW buf, NEW groups, Len(buf) \in Nat
    PROVE  \E f : /\ f[0] = groups
                  /\ \A k \in 1 .. Len(buf) : f[k] = PartitionNext(buf, f[k - 1])
                  /\ ChoosePartition(buf, groups) = f[Len(buf)]
  <1> DEFINE c == [of |-> "Partition", buf |-> buf, groups |-> groups]
             Body(k, before) == IF k = 0 THEN groups ELSE PartitionNext(buf, before)
             f == CHOOSE f : f = [k \in 0 .. Len(buf) |-> Body(k, f[k - 1])]
  <1>1. \A k, b : Procedure(c, k, b) = Body(k, b)
    BY DEF Procedure
  <1>2. \A a, b : Body(0, a) = Body(0, b)
    OBVIOUS
  <1>3. \A a, b : Procedure(c, 0, a) = Procedure(c, 0, b)
    <2> HIDE DEF c, Body
    <2> QED BY <1>1, <1>2, Zenon
  <1>4. PICK g : g = [k \in 0 .. Len(buf) |-> Procedure(c, k, g[k - 1])]
    <2> HIDE DEF c
    <2> QED BY <1>3, Loop
  <1>5. g = [k \in 0 .. Len(buf) |-> Body(k, g[k - 1])]
    <2> HIDE DEF c, Body
    <2>1. [k \in 0 .. Len(buf) |-> Procedure(c, k, g[k - 1])] = [k \in 0 .. Len(buf) |-> Body(k, g[k - 1])]
      BY <1>1
    <2> QED BY <1>4, <2>1, Zenon
  <1>6. f = [k \in 0 .. Len(buf) |-> Body(k, f[k - 1])]
    BY <1>5, Zenon
  <1>7. ChoosePartition(buf, groups) = f[Len(buf)]
    BY DEF ChoosePartition
  <1> HIDE DEF f
  <1>8. 0 \in 0 .. Len(buf) /\ \A k \in 1 .. Len(buf) : k \in 0 .. Len(buf) /\ k # 0
    OBVIOUS
  <1>9. f[0] = groups
    BY <1>6, <1>8, Zenon
  <1>10. \A k \in 1 .. Len(buf) : f[k] = PartitionNext(buf, f[k - 1])
    BY <1>6, <1>8, Zenon
  <1> QED BY <1>7, <1>9, <1>10, Zenon

\* Load goes through the buffer and takes the branches of its group.
LEMMA LoadIs ==
    ASSUME NEW buf, NEW group, NEW level, Len(buf) \in Nat
    PROVE  \E f : /\ f[0] = <<>>
                  /\ \A k \in 1 .. Len(buf) : f[k] = IF k \in group THEN Append(f[k - 1], buf[k]) ELSE f[k - 1]
                  /\ Load(buf, group, level) = [level |-> level, branch |-> f[Len(buf)]]
  <1> DEFINE c == [of |-> "Load", buf |-> buf, group |-> group]
             Body(k, before) == IF k = 0 THEN <<>> ELSE IF k \in group THEN Append(before, buf[k]) ELSE before
             f == CHOOSE f : f = [k \in 0 .. Len(buf) |-> Body(k, f[k - 1])]
  <1>1. \A k, b : Procedure(c, k, b) = Body(k, b)
    BY DEF Procedure
  <1>2. \A a, b : Body(0, a) = Body(0, b)
    OBVIOUS
  <1>3. \A a, b : Procedure(c, 0, a) = Procedure(c, 0, b)
    <2> HIDE DEF c, Body
    <2> QED BY <1>1, <1>2, Zenon
  <1>4. PICK g : g = [k \in 0 .. Len(buf) |-> Procedure(c, k, g[k - 1])]
    <2> HIDE DEF c
    <2> QED BY <1>3, Loop
  <1>5. g = [k \in 0 .. Len(buf) |-> Body(k, g[k - 1])]
    <2> HIDE DEF c, Body
    <2>1. [k \in 0 .. Len(buf) |-> Procedure(c, k, g[k - 1])] = [k \in 0 .. Len(buf) |-> Body(k, g[k - 1])]
      BY <1>1
    <2> QED BY <1>4, <2>1, Zenon
  <1>6. f = [k \in 0 .. Len(buf) |-> Body(k, f[k - 1])]
    BY <1>5, Zenon
  <1>7. Load(buf, group, level) = [level |-> level, branch |-> f[Len(buf)]]
    BY DEF Load
  <1> HIDE DEF f
  <1>8. 0 \in 0 .. Len(buf) /\ \A k \in 1 .. Len(buf) : k \in 0 .. Len(buf) /\ k # 0
    OBVIOUS
  <1>9. f[0] = <<>>
    BY <1>6, <1>8, Zenon
  <1>10. \A k \in 1 .. Len(buf) : f[k] = IF k \in group THEN Append(f[k - 1], buf[k]) ELSE f[k - 1]
    BY <1>6, <1>8, Zenon
  <1> QED BY <1>7, <1>9, <1>10, Zenon

\* Reinsert puts the branches of a node back one by one.
LEMMA ReinsertIs ==
    ASSUME NEW tree, NEW node, Count(node) \in Nat
    PROVE  \E f : /\ f[0] = tree
                  /\ \A k \in 1 .. Count(node) : f[k] = InsertRect(f[k - 1], node.branch[k], node.level)
                  /\ Reinsert(tree, node) = f[Count(node)]
  <1> DEFINE c == [of |-> "Reinsert", tree |-> tree, node |-> node]
             Body(k, before) == IF k = 0 THEN tree ELSE InsertRect(before, node.branch[k], node.level)
             f == CHOOSE f : f = [k \in 0 .. Count(node) |-> Body(k, f[k - 1])]
  <1>1. \A k, b : Procedure(c, k, b) = Body(k, b)
    BY DEF Procedure
  <1>2. \A a, b : Body(0, a) = Body(0, b)
    OBVIOUS
  <1>3. \A a, b : Procedure(c, 0, a) = Procedure(c, 0, b)
    <2> HIDE DEF c, Body
    <2> QED BY <1>1, <1>2, Zenon
  <1>4. PICK g : g = [k \in 0 .. Count(node) |-> Procedure(c, k, g[k - 1])]
    <2> HIDE DEF c
    <2> QED BY <1>3, Loop
  <1>5. g = [k \in 0 .. Count(node) |-> Body(k, g[k - 1])]
    <2> HIDE DEF c, Body
    <2>1. [k \in 0 .. Count(node) |-> Procedure(c, k, g[k - 1])] = [k \in 0 .. Count(node) |-> Body(k, g[k - 1])]
      BY <1>1
    <2> QED BY <1>4, <2>1, Zenon
  <1>6. f = [k \in 0 .. Count(node) |-> Body(k, f[k - 1])]
    BY <1>5, Zenon
  <1>7. Reinsert(tree, node) = f[Count(node)]
    BY DEF Reinsert
  <1> HIDE DEF f
  <1>8. 0 \in 0 .. Count(node) /\ \A k \in 1 .. Count(node) : k \in 0 .. Count(node) /\ k # 0
    OBVIOUS
  <1>9. f[0] = tree
    BY <1>6, <1>8, Zenon
  <1>10. \A k \in 1 .. Count(node) : f[k] = InsertRect(f[k - 1], node.branch[k], node.level)
    BY <1>6, <1>8, Zenon
  <1> QED BY <1>7, <1>9, <1>10, Zenon

\* ReinsertAll takes the underfull nodes one by one.
LEMMA ReinsertAllIs ==
    ASSUME NEW tree, NEW underfull, Len(underfull) \in Nat
    PROVE  \E f : /\ f[0] = tree
                  /\ \A k \in 1 .. Len(underfull) : f[k] = Reinsert(f[k - 1], underfull[k])
                  /\ ReinsertAll(tree, underfull) = f[Len(underfull)]
  <1> DEFINE c == [of |-> "ReinsertAll", tree |-> tree, underfull |-> underfull]
             Body(k, before) == IF k = 0 THEN tree ELSE Reinsert(before, underfull[k])
             f == CHOOSE f : f = [k \in 0 .. Len(underfull) |-> Body(k, f[k - 1])]
  <1>1. \A k, b : Procedure(c, k, b) = Body(k, b)
    BY DEF Procedure
  <1>2. \A a, b : Body(0, a) = Body(0, b)
    OBVIOUS
  <1>3. \A a, b : Procedure(c, 0, a) = Procedure(c, 0, b)
    <2> HIDE DEF c, Body
    <2> QED BY <1>1, <1>2, Zenon
  <1>4. PICK g : g = [k \in 0 .. Len(underfull) |-> Procedure(c, k, g[k - 1])]
    <2> HIDE DEF c
    <2> QED BY <1>3, Loop
  <1>5. g = [k \in 0 .. Len(underfull) |-> Body(k, g[k - 1])]
    <2> HIDE DEF c, Body
    <2>1. [k \in 0 .. Len(underfull) |-> Procedure(c, k, g[k - 1])] = [k \in 0 .. Len(underfull) |-> Body(k, g[k - 1])]
      BY <1>1
    <2> QED BY <1>4, <2>1, Zenon
  <1>6. f = [k \in 0 .. Len(underfull) |-> Body(k, f[k - 1])]
    BY <1>5, Zenon
  <1>7. ReinsertAll(tree, underfull) = f[Len(underfull)]
    BY DEF ReinsertAll
  <1> HIDE DEF f
  <1>8. 0 \in 0 .. Len(underfull) /\ \A k \in 1 .. Len(underfull) : k \in 0 .. Len(underfull) /\ k # 0
    OBVIOUS
  <1>9. f[0] = tree
    BY <1>6, <1>8, Zenon
  <1>10. \A k \in 1 .. Len(underfull) : f[k] = Reinsert(f[k - 1], underfull[k])
    BY <1>6, <1>8, Zenon
  <1> QED BY <1>7, <1>9, <1>10, Zenon

-----------------------------------------------------------------------------
(***************************************************************************)
(* Splitting a full node.                                                  *)
(***************************************************************************)
\* A function on a finite set is least somewhere.
LEMMA LeastIs ==
    ASSUME NEW S, IsFiniteSet(S), S # {}, NEW f \in [S -> Int]
    PROVE  Least(f) \in SUBSET S /\ Least(f) # {} /\ IsFiniteSet(Least(f))
  <1> DEFINE V == {f[i] : i \in S}
  <1>1. V \in SUBSET Int /\ V # {}
    OBVIOUS
  <1>2. DOMAIN f = S
    OBVIOUS
  <1>3. IsFiniteSet(V)
    <2>1. f = [i \in S |-> f[i]]
      OBVIOUS
    <2> QED BY <2>1, ImageFinite
  <1>4. Min(V) \in V /\ \A n \in V : Min(V) <= n
    BY <1>1, <1>3, LeastAndGreatest
  <1>5. PICK i \in S : f[i] = Min(V)
    BY <1>4
  <1>6. \A j \in S : f[i] <= f[j]
    BY <1>4, <1>5
  <1>7. i \in Least(f)
    BY <1>2, <1>6 DEF Least
  <1>8. Least(f) \in SUBSET S
    BY <1>2 DEF Least
  <1> QED BY <1>7, <1>8, FS_Subset

\* The first of the least.
LEMMA FirstLeast ==
    ASSUME NEW S \in SUBSET Int, IsFiniteSet(S), S # {}, NEW f \in [S -> Int]
    PROVE  Min(Least(f)) \in Least(f) /\ Min(Least(f)) \in S
  <1>1. Least(f) \in SUBSET S /\ Least(f) # {} /\ IsFiniteSet(Least(f))
    BY LeastIs
  <1>2. Least(f) \in SUBSET Int
    BY <1>1
  <1>3. Min(Least(f)) \in Least(f)
    BY <1>1, <1>2, LeastAndGreatest
  <1> QED BY <1>1, <1>3

\* The buffer of a split, as a sequence of branches.
LEMMA BufferFields ==
    ASSUME NEW l \in Nat, NEW buf \in Seq(BranchType(l))
    PROVE  /\ Len(buf) \in Nat /\ DOMAIN buf = 1 .. Len(buf)
           /\ DOMAIN buf \in SUBSET Int
           /\ IsFiniteSet(DOMAIN buf) /\ Cardinality(DOMAIN buf) = Len(buf)
           /\ \A i \in DOMAIN buf : buf[i] \in BranchType(l) /\ buf[i].rect \in RectType
  <1>1. Len(buf) \in Nat /\ DOMAIN buf = 1 .. Len(buf) /\ \A i \in DOMAIN buf : buf[i] \in BranchType(l)
    OBVIOUS
  <1>2. IsFiniteSet(1 .. Len(buf)) /\ Cardinality(1 .. Len(buf)) = Len(buf)
    <2> DEFINE n == Len(buf)
    <2>1. n \in Nat
      BY <1>1
    <2> HIDE DEF n
    <2>2. IsFiniteSet(1 .. n) /\ Cardinality(1 .. n) = n
      BY <2>1, FS_Interval
    <2> QED BY <2>2 DEF n
  <1>3. \A i \in DOMAIN buf : buf[i].rect \in RectType
    BY <1>1, BranchRect
  <1>4. DOMAIN buf \in SUBSET Int
    BY <1>1
  <1> QED BY <1>1, <1>2, <1>3, <1>4

\* The volume of a group of branches is an integer.
LEMMA GroupVolumeType ==
    ASSUME NEW l \in Nat, NEW buf \in Seq(BranchType(l)), NEW group \in SUBSET DOMAIN buf
    PROVE  GroupVolume(buf, group) \in Int
  <1>1. IsFiniteSet(group)
    BY BufferFields, FS_Subset
  <1> DEFINE f == [i \in group |-> buf[i].rect]
             rs == {buf[i].rect : i \in group}
  <1>2. IsFiniteSet({f[i] : i \in group})
    BY <1>1, ImageFinite, Zenon
  <1>3. IsFiniteSet(rs)
    BY <1>2
  <1>4. rs \in SUBSET RectType
    BY BufferFields
  <1>5. Cover(rs) \in RectType
    BY <1>3, <1>4, CoverType
  <1> QED BY <1>5, VolumeType DEF GroupVolume

\* PickSeeds starts the two groups with one branch each, not the same one.
LEMMA SeedsAre ==
    ASSUME NEW l \in Nat, NEW buf \in Seq(BranchType(l)), Len(buf) >= 2
    PROVE  \E a \in DOMAIN buf : \E b \in DOMAIN buf : a # b /\ PickSeeds(buf) = <<{a}, {b}>>
  <1> DEFINE D == DOMAIN buf
             pairs == {p \in D \X D : p[1] < p[2]}
             saved(p) == RectVolume(buf[p[1]].rect) + RectVolume(buf[p[2]].rect)
                           - GroupVolume(buf, {p[1], p[2]})
             f == [p \in pairs |-> saved(p)]
             seeds == Least(f)
             firsts == {p[1] : p \in seeds}
             a == Min(firsts)
             partners == {p \in seeds : p[1] = a}
             seconds == {p[2] : p \in partners}
             b == Min(seconds)
  <1>1. IsFiniteSet(D) /\ D = 1 .. Len(buf) /\ Len(buf) \in Nat
    BY BufferFields
  <1>2. IsFiniteSet(pairs)
    <2>1. IsFiniteSet(D \X D)
      BY <1>1, FS_Product
    <2> QED BY <2>1, FS_Subset
  <1>3. <<1, 2>> \in pairs
    BY <1>1
  <1>4. f \in [pairs -> Int]
    <2> SUFFICES ASSUME NEW p \in pairs PROVE saved(p) \in Int
      OBVIOUS
    <2>1. p[1] \in D /\ p[2] \in D /\ {p[1], p[2]} \in SUBSET D
      OBVIOUS
    <2>2. RectVolume(buf[p[1]].rect) \in Int /\ RectVolume(buf[p[2]].rect) \in Int
      BY <2>1, BufferFields, VolumeType
    <2>3. GroupVolume(buf, {p[1], p[2]}) \in Int
      BY <2>1, GroupVolumeType
    <2> QED BY <2>2, <2>3
  <1>5. seeds \in SUBSET pairs /\ seeds # {} /\ IsFiniteSet(seeds)
    <2> HIDE DEF pairs, f
    <2> QED BY <1>2, <1>3, <1>4, LeastIs
  <1> HIDE DEF f, seeds
  <1>6. \A p \in seeds : p[1] \in D /\ p[2] \in D /\ p[1] \in Int /\ p[2] \in Int /\ p[1] # p[2]
    BY <1>1, <1>5
  <1> HIDE DEF pairs
  <1>7. a \in firsts
    <2> DEFINE g == [p \in seeds |-> p[1]]
    <2>1. IsFiniteSet({g[p] : p \in seeds})
      BY <1>5, ImageFinite, Zenon
    <2>2. IsFiniteSet(firsts)
      BY <2>1
    <2>3. firsts \in SUBSET Int /\ firsts # {}
      BY <1>5, <1>6
    <2> HIDE DEF firsts
    <2> QED BY <2>2, <2>3, LeastAndGreatest
  <1>8. b \in seconds
    <2> HIDE DEF a
    <2> DEFINE g == [p \in partners |-> p[2]]
    <2>0. IsFiniteSet(partners)
      BY <1>5, FS_Subset
    <2>1. IsFiniteSet({g[p] : p \in partners})
      BY <2>0, ImageFinite, ZenonT(30)
    <2>2. IsFiniteSet(seconds)
      BY <2>1
    <2>3. seconds \in SUBSET Int
      BY <1>6
    <2>4. seconds # {}
      BY <1>7
    <2> HIDE DEF seconds
    <2> QED BY <2>2, <2>3, <2>4, LeastAndGreatest
  <1>9. PickSeeds(buf) = <<{a}, {b}>>
    BY DEF PickSeeds, seeds, f, pairs
  <1>10. a \in D /\ b \in D /\ a # b
    <2> HIDE DEF b, a
    <2> QED BY <1>6, <1>7, <1>8
  <1> HIDE DEF a, b
  <1> QED BY <1>9, <1>10

\* What the proofs need of the two capacities: a full node can be split in two filled ones.
LEMMA MinNodes == MIN_NODES \in Nat /\ MIN_NODES >= 2 /\ 2 * MIN_NODES <= MAX_NODES /\ MAX_NODES \in Nat
  BY MaxNodesAssumption DEF MIN_NODES

\* Two groups of positions of a buffer, none of them too large.
Groups(buf, g) ==
    /\ g \in [1 .. 2 -> SUBSET DOMAIN buf]
    /\ g[1] \cap g[2] = {}
    /\ \A i \in 1 .. 2 : Cardinality(g[i]) <= Len(buf) - MIN_NODES

\* The two groups and what is left of the buffer, counted.
LEMMA GroupsFinite ==
    ASSUME NEW l \in Nat, NEW buf \in Seq(BranchType(l)), NEW g, Groups(buf, g)
    PROVE  /\ \A i \in 1 .. 2 : /\ g[i] \in SUBSET DOMAIN buf
                                /\ IsFiniteSet(g[i]) /\ Cardinality(g[i]) \in Nat
           /\ Unclassified(buf, g) \in SUBSET DOMAIN buf
           /\ IsFiniteSet(Unclassified(buf, g)) /\ Cardinality(Unclassified(buf, g)) \in Nat
           /\ Cardinality(g[1]) + Cardinality(g[2]) + Cardinality(Unclassified(buf, g)) = Len(buf)
  <1> DEFINE D == DOMAIN buf
             U == Unclassified(buf, g)
             both == g[1] \union g[2]
  <1>1. IsFiniteSet(D) /\ Cardinality(D) = Len(buf) /\ Len(buf) \in Nat
    BY BufferFields
  <1>2. g[1] \in SUBSET D /\ g[2] \in SUBSET D /\ g[1] \cap g[2] = {}
    BY DEF Groups
  <1>3. /\ IsFiniteSet(g[1]) /\ IsFiniteSet(g[2]) /\ IsFiniteSet(U)
        /\ Cardinality(g[1]) \in Nat /\ Cardinality(g[2]) \in Nat /\ Cardinality(U) \in Nat
        /\ U \in SUBSET D
    <2>1. U \in SUBSET D
      BY DEF Unclassified
    <2>2. IsFiniteSet(g[1]) /\ IsFiniteSet(g[2]) /\ IsFiniteSet(U)
      BY <1>1, <1>2, <2>1, FS_Subset
    <2> QED BY <2>1, <2>2, FS_CardinalityType
  <1>4. IsFiniteSet(both) /\ Cardinality(both) = Cardinality(g[1]) + Cardinality(g[2])
    <2>1. IsFiniteSet(both) /\ Cardinality(both) = Cardinality(g[1]) + Cardinality(g[2]) - Cardinality(g[1] \cap g[2])
      BY <1>3, FS_Union
    <2>2. Cardinality(g[1] \cap g[2]) = 0
      BY <1>2, FS_EmptySet
    <2> QED BY <2>1, <2>2, <1>3
  <1>5. D = both \union U /\ both \cap U = {}
    BY <1>2 DEF Unclassified
  <1>6. Cardinality(D) = Cardinality(both) + Cardinality(U)
    <2>1. Cardinality(both \union U) = Cardinality(both) + Cardinality(U) - Cardinality(both \cap U)
      BY <1>3, <1>4, FS_Union
    <2>2. Cardinality(both \cap U) = 0
      BY <1>5, FS_EmptySet
    <2> QED BY <2>1, <2>2, <1>3, <1>4, <1>5
  <1>7. \A i \in 1 .. 2 : i = 1 \/ i = 2
    OBVIOUS
  <1>8. Cardinality(g[1]) + Cardinality(g[2]) + Cardinality(U) = Len(buf)
    BY <1>1, <1>3, <1>4, <1>6
  <1>9. \A i \in 1 .. 2 : g[i] \in SUBSET D /\ IsFiniteSet(g[i]) /\ Cardinality(g[i]) \in Nat
    BY <1>2, <1>3, <1>7
  <1> QED BY <1>3, <1>8, <1>9

\* The branch that is classified next is one that is not classified yet.
LEMMA StrongestIs ==
    ASSUME NEW l \in Nat, NEW buf \in Seq(BranchType(l)), NEW g, Groups(buf, g),
           Unclassified(buf, g) # {},
           NEW diff \in [Unclassified(buf, g) -> Int]
    PROVE  Strongest(g, diff) \in Unclassified(buf, g)
  <1> DEFINE U == Unclassified(buf, g)
             strength == [i \in DOMAIN diff |-> IF diff[i] < 0 THEN diff[i] ELSE -diff[i]]
             strongest == Least(strength)
             size == [i \in strongest |-> Cardinality(g[BetterGroup(diff[i])])]
  <1>1. U \in SUBSET DOMAIN buf /\ IsFiniteSet(U)
    BY GroupsFinite
  <1>2. DOMAIN buf \in SUBSET Int
    BY BufferFields
  <1>3. strength \in [U -> Int]
    OBVIOUS
  <1>4. strongest \in SUBSET U /\ strongest # {} /\ IsFiniteSet(strongest)
    <2> HIDE DEF strength
    <2> QED BY <1>1, <1>3, LeastIs
  <1> HIDE DEF strongest
  <1>5. size \in [strongest -> Int]
    <2> SUFFICES ASSUME NEW i \in strongest PROVE Cardinality(g[BetterGroup(diff[i])]) \in Int
      OBVIOUS
    <2>1. BetterGroup(diff[i]) \in 1 .. 2
      BY DEF BetterGroup
    <2>2. Cardinality(g[BetterGroup(diff[i])]) \in Nat
      BY <2>1, GroupsFinite
    <2> QED BY <2>2
  <1>6. Strongest(g, diff) = Min(Least(size))
    BY DEF Strongest, strongest
  <1>7. strongest \in SUBSET Int
    BY <1>1, <1>2, <1>4
  <1> HIDE DEF size
  <1>8. Min(Least(size)) \in strongest
    BY <1>4, <1>5, <1>7, FirstLeast
  <1> QED BY <1>4, <1>6, <1>8

\* A turn of the loop classifies a branch, or all that are left.
LEMMA PartitionTurn ==
    ASSUME NEW l \in Nat, NEW buf \in Seq(BranchType(l)), NEW g, Groups(buf, g), Len(buf) = MAX_NODES + 1
    PROVE  LET next == PartitionNext(buf, g)
           IN  /\ Groups(buf, next)
               /\ \/ Unclassified(buf, next) = {}
                  \/ Cardinality(Unclassified(buf, next)) <= Cardinality(Unclassified(buf, g)) - 1
  <1> DEFINE U == Unclassified(buf, g)
             next == PartitionNext(buf, g)
             limit == Len(buf) - MIN_NODES
  <1>1. /\ g \in [1 .. 2 -> SUBSET DOMAIN buf] /\ g[1] \cap g[2] = {}
        /\ \A i \in 1 .. 2 : Cardinality(g[i]) <= limit
    BY DEF Groups
  <1>2. /\ \A i \in 1 .. 2 : g[i] \in SUBSET DOMAIN buf /\ IsFiniteSet(g[i]) /\ Cardinality(g[i]) \in Nat
        /\ U \in SUBSET DOMAIN buf /\ IsFiniteSet(U) /\ Cardinality(U) \in Nat
        /\ Cardinality(g[1]) + Cardinality(g[2]) + Cardinality(U) = Len(buf)
        /\ U \cap g[1] = {} /\ U \cap g[2] = {}
    <2>1. U \cap g[1] = {} /\ U \cap g[2] = {}
      BY DEF Unclassified
    <2> QED BY <2>1, GroupsFinite
  <1>3. 1 \in 1 .. 2 /\ 2 \in 1 .. 2 /\ limit \in Nat /\ Len(buf) \in Nat /\ MIN_NODES \in Nat /\ Len(buf) - limit = MIN_NODES /\ MIN_NODES <= limit
    BY MinNodes, BufferFields
  <1>4. CASE U = {}
    <2>1. next = g
      BY <1>4 DEF PartitionNext
    <2> QED BY <1>4, <2>1
  <1>5. CASE U # {} /\ (Cardinality(g[1]) >= limit \/ Cardinality(g[2]) >= limit)
    <2>1. PICK k \in 1 .. 2 : /\ next = [g EXCEPT ![k] = @ \union U]
                              /\ Cardinality(g[3 - k]) >= limit
      <3>1. CASE Cardinality(g[1]) >= limit
        <4>1. next = [g EXCEPT ![2] = @ \union U] /\ 3 - 2 = 1
          BY <1>5, <3>1 DEF PartitionNext
        <4> QED BY <3>1, <4>1, <1>3
      <3>2. CASE ~(Cardinality(g[1]) >= limit)
        <4>1. next = [g EXCEPT ![1] = @ \union U] /\ 3 - 1 = 2
          BY <1>5, <3>2 DEF PartitionNext
        <4> QED BY <1>5, <3>2, <4>1, <1>3
      <3> QED BY <3>1, <3>2
    <2>2. 3 - k \in 1 .. 2 /\ 3 - k # k /\ ({k, 3 - k} = {1, 2})
      OBVIOUS
    <2>3. next[k] = g[k] \union U /\ next[3 - k] = g[3 - k] /\ next \in [1 .. 2 -> SUBSET DOMAIN buf]
      BY <1>1, <1>2, <2>1, <2>2
    <2>4. Cardinality(g[k] \union U) = Cardinality(g[k]) + Cardinality(U)
      <3>1. Cardinality(g[k] \union U) = Cardinality(g[k]) + Cardinality(U) - Cardinality(g[k] \cap U)
        BY <1>2, FS_Union
      <3>2. g[k] \cap U = {}
        BY <1>2, <2>2
      <3>3. Cardinality(g[k] \cap U) = 0
        BY <3>2, FS_EmptySet
      <3> QED BY <3>1, <3>3, <1>2
    <2>5. Cardinality(g[k]) + Cardinality(g[3 - k]) + Cardinality(U) = Len(buf)
      BY <1>2, <2>2
    <2>6. Cardinality(next[k]) <= limit /\ Cardinality(next[3 - k]) <= limit
      <3>1. Cardinality(g[k]) \in Nat /\ Cardinality(g[3 - k]) \in Nat /\ Cardinality(U) \in Nat
        BY <1>2, <2>2
      <3>2. Cardinality(g[3 - k]) <= limit
        BY <1>1, <2>2
      <3>3. Cardinality(g[k]) + Cardinality(U) <= limit
        <4> DEFINE grown == Cardinality(g[k])
                   other == Cardinality(g[3 - k])
                   left == Cardinality(U)
        <4>1. grown \in Nat /\ other \in Nat /\ left \in Nat
          BY <3>1
        <4>2. grown + other + left = Len(buf) /\ other >= limit
          BY <2>1, <2>5
        <4> HIDE DEF grown, other, left
        <4>3. grown + left <= limit
          BY <4>1, <4>2, <1>3
        <4> QED BY <4>3 DEF grown, left
      <3> QED BY <3>2, <3>3, <2>3, <2>4
    <2>7. next[1] \cap next[2] = {}
      BY <1>1, <1>2, <2>2, <2>3
    <2>8. Unclassified(buf, next) = {}
      BY <2>2, <2>3 DEF Unclassified
    <2>9. Groups(buf, next)
      <3>1. \A i \in 1 .. 2 : i = k \/ i = 3 - k
        OBVIOUS
      <3> HIDE DEF next
      <3>2. \A i \in 1 .. 2 : Cardinality(next[i]) <= limit
        BY <3>1, <2>6, Zenon
      <3> QED BY <2>3, <2>7, <3>2 DEF Groups
    <2> QED BY <2>8, <2>9
  <1>6. CASE U # {} /\ ~(Cardinality(g[1]) >= limit) /\ ~(Cardinality(g[2]) >= limit)
    <2> DEFINE diff == [j \in U |-> GrowthDifference(buf, g, j)]
               i == Strongest(g, diff)
               k == BetterGroup(GrowthDifference(buf, g, i))
    <2>1. next = ClassifyNext(buf, g)
      BY <1>6 DEF PartitionNext
    <2>2. ClassifyNext(buf, g) = [g EXCEPT ![k] = @ \union {i}]
      BY DEF ClassifyNext, Classify
    <2>3. diff \in [U -> Int]
      <3> SUFFICES ASSUME NEW j \in U PROVE GrowthDifference(buf, g, j) \in Int
        OBVIOUS
      <3>1. \A x \in 1 .. 2 : g[x] \in SUBSET DOMAIN buf /\ (g[x] \union {j}) \in SUBSET DOMAIN buf
        BY <1>2
      <3>2. \A x \in 1 .. 2 : GroupVolume(buf, g[x]) \in Int /\ GroupVolume(buf, g[x] \union {j}) \in Int
        BY <3>1, GroupVolumeType
      <3> QED BY <3>2, <1>3 DEF GrowthDifference
    <2>4. i \in U
      <3> HIDE DEF diff
      <3> QED BY <1>6, <2>3, StrongestIs
    <2>5. k \in 1 .. 2
      <3>1. GrowthDifference(buf, g, i) \in Int
        BY <2>3, <2>4
      <3> QED BY <3>1 DEF BetterGroup
    <2> HIDE DEF diff, i, k
    <2>6. 3 - k \in 1 .. 2 /\ 3 - k # k /\ ({k, 3 - k} = {1, 2})
      BY <2>5
    <2>7. next[k] = g[k] \union {i} /\ next[3 - k] = g[3 - k] /\ next \in [1 .. 2 -> SUBSET DOMAIN buf]
      BY <1>1, <1>2, <2>1, <2>2, <2>4, <2>5, <2>6
    <2>8. Cardinality(next[k]) <= limit
      <3>1. i \notin g[k]
        BY <1>2, <2>4, <2>6
      <3>2. Cardinality(g[k] \union {i}) = Cardinality(g[k]) + 1
        BY <3>1, <1>2, <2>5, FS_AddElement
      <3>3. ~(Cardinality(g[k]) >= limit) /\ Cardinality(g[k]) \in Nat
        BY <1>2, <1>6, <2>5
      <3> QED BY <3>2, <3>3, <1>3, <2>7
    <2>9. Cardinality(next[3 - k]) <= limit
      BY <1>1, <2>6, <2>7
    <2>10. next[1] \cap next[2] = {}
      BY <1>1, <1>2, <2>4, <2>6, <2>7
    <2>11. Unclassified(buf, next) = U \ {i}
      BY <2>4, <2>6, <2>7 DEF Unclassified
    <2>12. Cardinality(U \ {i}) = Cardinality(U) - 1
      BY <1>2, <2>4, FS_RemoveElement
    <2>13. Groups(buf, next)
      <3>1. \A j \in 1 .. 2 : j = k \/ j = 3 - k
        BY <2>5
      <3> HIDE DEF next
      <3>2. \A j \in 1 .. 2 : Cardinality(next[j]) <= limit
        BY <3>1, <2>8, <2>9, Zenon
      <3> QED BY <2>7, <2>10, <3>2 DEF Groups
    <2>14. Cardinality(Unclassified(buf, next)) <= Cardinality(U) - 1
      BY <2>11, <2>12, <1>2
    <2> QED BY <2>13, <2>14
  <1> QED BY <1>4, <1>5, <1>6

\* choosePartition deals out all branches, at least minFill of them to each group.
LEMMA PartitionDealt ==
    ASSUME NEW l \in Nat, NEW buf \in Seq(BranchType(l)), Len(buf) = MAX_NODES + 1
    PROVE  LET g == ChoosePartition(buf, PickSeeds(buf))
           IN  /\ g[1] \in SUBSET DOMAIN buf /\ g[2] \in SUBSET DOMAIN buf
               /\ g[1] \union g[2] = DOMAIN buf /\ g[1] \cap g[2] = {}
               /\ \A i \in 1 .. 2 : /\ IsFiniteSet(g[i]) /\ Cardinality(g[i]) \in Nat
                                    /\ Cardinality(g[i]) >= MIN_NODES
                                    /\ Cardinality(g[i]) <= MAX_NODES
  <1> DEFINE n == Len(buf)
             seeds == PickSeeds(buf)
             rest(g) == Cardinality(Unclassified(buf, g))
  <1>1. n \in Nat /\ n = MAX_NODES + 1 /\ n >= 2 /\ n - MIN_NODES >= 1
    BY MinNodes
  <1>2. Groups(buf, seeds)
    <2>1. PICK a \in DOMAIN buf, b \in DOMAIN buf : a # b /\ seeds = <<{a}, {b}>>
      BY <1>1, SeedsAre
    <2>2. Cardinality({a}) = 1 /\ Cardinality({b}) = 1
      BY FS_Singleton
    <2>3. seeds \in [1 .. 2 -> SUBSET DOMAIN buf] /\ seeds[1] = {a} /\ seeds[2] = {b}
      BY <2>1
    <2> HIDE DEF seeds
    <2>4. \A i \in 1 .. 2 : Cardinality(seeds[i]) = 1
      <3>1. \A i \in 1 .. 2 : i = 1 \/ i = 2
        OBVIOUS
      <3> QED BY <3>1, <2>2, <2>3
    <2>5. seeds[1] \cap seeds[2] = {}
      BY <2>1, <2>3
    <2> QED BY <2>3, <2>4, <2>5, <1>1 DEF Groups
  <1> HIDE DEF seeds
  <1>3. PICK f : /\ f[0] = seeds
                 /\ \A k \in 1 .. n : f[k] = PartitionNext(buf, f[k - 1])
                 /\ ChoosePartition(buf, seeds) = f[n]
    BY <1>1, PartitionIs
  <1> DEFINE S == {k \in 0 .. n : Groups(buf, f[k]) /\ (Unclassified(buf, f[k]) = {} \/ rest(f[k]) <= n - k)}
  <1>4. 0 \in S
    <2>1. rest(f[0]) \in Nat /\ rest(f[0]) <= n
      <3>1. /\ Cardinality(f[0][1]) \in Nat /\ Cardinality(f[0][2]) \in Nat /\ rest(f[0]) \in Nat
            /\ Cardinality(f[0][1]) + Cardinality(f[0][2]) + rest(f[0]) = n
        BY <1>2, <1>3, GroupsFinite
      <3> QED BY <3>1, <1>1
    <2> QED BY <2>1, <1>1, <1>2, <1>3
  <1>5. ASSUME NEW k \in 0 .. n - 1, k \in S PROVE k + 1 \in S
    <2>1. k + 1 \in 1 .. n /\ k + 1 \in 0 .. n /\ (k + 1) - 1 = k
      BY <1>1
    <2>2. f[k + 1] = PartitionNext(buf, f[k]) /\ Groups(buf, f[k])
      <3>1. f[k + 1] = PartitionNext(buf, f[k])
        BY <1>3, <2>1, Zenon
      <3> QED BY <3>1, <1>5
    <2>3. /\ Groups(buf, f[k + 1])
          /\ Unclassified(buf, f[k + 1]) = {} \/ rest(f[k + 1]) <= rest(f[k]) - 1
      BY <2>2, PartitionTurn
    <2>4. CASE Unclassified(buf, f[k + 1]) = {}
      BY <2>1, <2>3, <2>4
    <2>5. CASE Unclassified(buf, f[k + 1]) # {}
      <3>1. rest(f[k]) \in Nat /\ rest(f[k + 1]) \in Nat
        BY <2>2, <2>3, GroupsFinite
      <3>2. rest(f[k]) # 0 \/ Unclassified(buf, f[k]) # {}
        BY <2>3, <2>5, <3>1
      <3>3. Unclassified(buf, f[k]) # {}
        <4>1. CASE Unclassified(buf, f[k]) = {}
          <5>1. rest(f[k]) = 0
            BY <4>1, FS_EmptySet
          <5> QED BY <5>1, <2>3, <2>5, <3>1
        <4> QED BY <4>1
      <3>4. rest(f[k]) <= n - k
        BY <1>5, <3>3
      <3>5. rest(f[k + 1]) <= n - (k + 1)
        BY <3>1, <3>4, <2>3, <2>5, <1>1
      <3> QED BY <3>5, <2>1, <2>3
    <2> QED BY <2>4, <2>5
  <1>6. n \in S
    <2> HIDE DEF S
    <2>1. 0 .. n \subseteq S
      BY <1>1, <1>4, <1>5, UpTo
    <2>2. n \in 0 .. n
      BY <1>1
    <2> QED BY <2>1, <2>2
  <1> DEFINE g == f[n]
  <1>7. Groups(buf, g) /\ Unclassified(buf, g) = {}
    <2>1. Groups(buf, g) /\ (Unclassified(buf, g) = {} \/ rest(g) <= n - n)
      BY <1>6
    <2>2. CASE rest(g) <= n - n
      <3>1. rest(g) \in Nat /\ IsFiniteSet(Unclassified(buf, g))
        BY <2>1, GroupsFinite
      <3>2. rest(g) = 0
        BY <2>2, <3>1, <1>1
      <3> QED BY <2>1, <3>1, <3>2, FS_EmptySet
    <2> QED BY <2>1, <2>2
  <1> HIDE DEF g
  <1>8. /\ \A i \in 1 .. 2 : g[i] \in SUBSET DOMAIN buf /\ IsFiniteSet(g[i]) /\ Cardinality(g[i]) \in Nat
        /\ Cardinality(g[1]) + Cardinality(g[2]) = n
        /\ g[1] \cap g[2] = {} /\ g[1] \union g[2] = DOMAIN buf
        /\ \A i \in 1 .. 2 : Cardinality(g[i]) <= n - MIN_NODES
    <2>1. rest(g) = 0
      BY <1>7, FS_EmptySet
    <2>2. Cardinality(g[1]) + Cardinality(g[2]) + rest(g) = n
      BY <1>7, GroupsFinite
    <2>3. \A i \in 1 .. 2 : g[i] \in SUBSET DOMAIN buf /\ IsFiniteSet(g[i]) /\ Cardinality(g[i]) \in Nat
      BY <1>7, GroupsFinite
    <2>4. g[1] \cap g[2] = {} /\ \A i \in 1 .. 2 : Cardinality(g[i]) <= n - MIN_NODES
      BY <1>7 DEF Groups
    <2>5. g[1] \union g[2] = DOMAIN buf
      BY <1>7, <2>3 DEF Unclassified
    <2> QED BY <2>1, <2>2, <2>3, <2>4, <2>5
  <1>9. \A i \in 1 .. 2 : Cardinality(g[i]) >= MIN_NODES /\ Cardinality(g[i]) <= MAX_NODES
    <2>1. Cardinality(g[1]) <= n - MIN_NODES /\ Cardinality(g[2]) <= n - MIN_NODES /\ Cardinality(g[1]) \in Nat /\ Cardinality(g[2]) \in Nat
      BY <1>8
    <2>2. /\ Cardinality(g[1]) >= MIN_NODES /\ Cardinality(g[1]) <= MAX_NODES
          /\ Cardinality(g[2]) >= MIN_NODES /\ Cardinality(g[2]) <= MAX_NODES
      BY <2>1, <1>1, <1>8, MinNodes
    <2>3. \A i \in 1 .. 2 : i = 1 \/ i = 2
      OBVIOUS
    <2> QED BY <2>2, <2>3
  <1>10. g = ChoosePartition(buf, PickSeeds(buf))
    BY <1>3 DEF g, seeds
  <1> QED BY <1>8, <1>9, <1>10

-----------------------------------------------------------------------------
(***************************************************************************)
(* Selections.                                                             *)
(***************************************************************************)
\* s holds the branches of a group of a buffer, each once, in some order.
Selection(s, l, buf, group) ==
    /\ s \in Seq(BranchType(l))
    /\ \E p \in [1 .. Len(s) -> group] :
          /\ \A j, k \in 1 .. Len(s) : p[j] = p[k] => j = k
          /\ \A i \in group : \E j \in 1 .. Len(s) : p[j] = i
          /\ \A j \in 1 .. Len(s) : s[j] = buf[p[j]]

\* A selection has as many branches as its group.
LEMMA SelectionLength ==
    ASSUME NEW l \in Nat, NEW buf, NEW group, IsFiniteSet(group), NEW s, Selection(s, l, buf, group)
    PROVE  Len(s) = Cardinality(group)
  <1>1. PICK p \in [1 .. Len(s) -> group] :
          /\ \A j, k \in 1 .. Len(s) : p[j] = p[k] => j = k
          /\ \A i \in group : \E j \in 1 .. Len(s) : p[j] = i
    BY DEF Selection
  <1>2. Len(s) \in Nat
    BY DEF Selection
  <1>3. p \in Surjection(1 .. Len(s), group) /\ p \in Injection(1 .. Len(s), group)
    <2>1. p \in Surjection(1 .. Len(s), group)
      BY <1>1, Zenon DEF Surjection
    <2>2. p \in Injection(1 .. Len(s), group)
      BY <1>1, Zenon DEF Injection, IsInjective
    <2> QED BY <2>1, <2>2
  <1> DEFINE n == Len(s)
  <1>4. IsFiniteSet(1 .. n) /\ Cardinality(1 .. n) = n
    <2>1. n \in Nat
      BY <1>2
    <2> HIDE DEF n
    <2> QED BY <2>1, FS_Interval
  <1> QED BY <1>3, <1>4, FS_Surjection

\* loadNodes makes a node of a group.
LEMMA LoadSelects ==
    ASSUME NEW l \in Nat, NEW buf \in Seq(BranchType(l)), NEW group \in SUBSET DOMAIN buf
    PROVE  \E s : Load(buf, group, l) = [level |-> l, branch |-> s] /\ Selection(s, l, buf, group)
  <1>0. Len(buf) \in Nat /\ DOMAIN buf = 1 .. Len(buf) /\ \A i \in DOMAIN buf : buf[i] \in BranchType(l)
    BY BufferFields
  <1>1. PICK f : /\ f[0] = <<>>
                 /\ \A k \in 1 .. Len(buf) : f[k] = IF k \in group THEN Append(f[k - 1], buf[k]) ELSE f[k - 1]
                 /\ Load(buf, group, l) = [level |-> l, branch |-> f[Len(buf)]]
    <2>1. Len(buf) \in Nat
      BY <1>0
    <2>2. \A level : \E f : /\ f[0] = <<>>
                            /\ \A k \in 1 .. Len(buf) : f[k] = IF k \in group THEN Append(f[k - 1], buf[k]) ELSE f[k - 1]
                            /\ Load(buf, group, level) = [level |-> level, branch |-> f[Len(buf)]]
      BY <2>1, LoadIs
    <2> QED BY <2>2, Zenon
  <1> DEFINE part(k) == group \cap (1 .. k)
             S == {k \in 0 .. Len(buf) : Selection(f[k], l, buf, part(k))}
  <1>2. 0 \in S
    <2> DEFINE p == [j \in {} |-> 0]
    <2>1. f[0] \in Seq(BranchType(l)) /\ Len(f[0]) = 0 /\ part(0) = {}
      BY <1>1
    <2>2. p \in [1 .. 0 -> part(0)]
      BY <2>1
    <2>3. 1 .. 0 = {}
      OBVIOUS
    <2>4. Selection(f[0], l, buf, part(0))
      BY <2>1, <2>2, <2>3 DEF Selection
    <2> QED BY <2>4, <1>0
  <1>3. ASSUME NEW k \in 0 .. Len(buf) - 1, k \in S PROVE k + 1 \in S
    <2>1. k + 1 \in 1 .. Len(buf) /\ k + 1 \in 0 .. Len(buf) /\ (k + 1) - 1 = k /\ k \in Nat
      BY <1>0
    <2>2. Selection(f[k], l, buf, part(k))
      BY <1>3
    <2>3. f[k + 1] = IF k + 1 \in group THEN Append(f[k], buf[k + 1]) ELSE f[k]
      BY <1>1, <2>1, Zenon
    <2>4. CASE k + 1 \notin group
      <3>1. part(k + 1) = part(k)
        BY <2>4, <2>1
      <3>2. f[k + 1] = f[k]
        BY <2>3, <2>4
      <3>3. Selection(f[k + 1], l, buf, part(k + 1))
        BY <2>2, <3>1, <3>2, Zenon
      <3> QED BY <3>3, <2>1
    <2>5. CASE k + 1 \in group
      <3> DEFINE s == f[k]
                 t == f[k + 1]
                 n == Len(s)
      <3>1. part(k + 1) = part(k) \union {k + 1} /\ k + 1 \notin part(k)
        BY <2>5, <2>1
      <3>2. s \in Seq(BranchType(l)) /\ n \in Nat
        BY <2>2 DEF Selection
      <3>3. PICK p \in [1 .. n -> part(k)] :
              /\ \A j, m \in 1 .. n : p[j] = p[m] => j = m
              /\ \A i \in part(k) : \E j \in 1 .. n : p[j] = i
              /\ \A j \in 1 .. n : s[j] = buf[p[j]]
        BY <2>2 DEF Selection
      <3>4. t = Append(s, buf[k + 1]) /\ buf[k + 1] \in BranchType(l)
        BY <1>0, <2>1, <2>3, <2>5
      <3> HIDE DEF s, t
      <3>5. /\ t \in Seq(BranchType(l)) /\ Len(t) = n + 1 /\ t[n + 1] = buf[k + 1]
            /\ \A j \in 1 .. n : t[j] = s[j]
        BY <3>2, <3>4
      <3> HIDE DEF n, part
      <3> DEFINE q == [j \in 1 .. n + 1 |-> IF j = n + 1 THEN k + 1 ELSE p[j]]
      <3>6. /\ q[n + 1] = k + 1 /\ \A j \in 1 .. n : q[j] = p[j] /\ q[j] \in part(k)
        BY <3>2
      <3>7. \A j \in 1 .. n + 1 : j = n + 1 \/ j \in 1 .. n
        BY <3>2
      <3>7a. n + 1 \in 1 .. n + 1 /\ \A j \in 1 .. n : j \in 1 .. n + 1
        BY <3>2
      <3>8. q \in [1 .. n + 1 -> part(k + 1)]
        <4>1. \A j \in 1 .. n + 1 : q[j] \in part(k + 1)
          BY <3>1, <3>6, <3>7
        <4> QED BY <4>1
      <3> HIDE DEF q
      <3>9. \A j, m \in 1 .. n + 1 : q[j] = q[m] => j = m
        BY <3>1, <3>3, <3>6, <3>7
      <3>10. \A i \in part(k + 1) : \E j \in 1 .. n + 1 : q[j] = i
        BY <3>1, <3>3, <3>6, <3>7a
      <3>11. \A j \in 1 .. n + 1 : t[j] = buf[q[j]]
        BY <3>3, <3>5, <3>6, <3>7
      <3>12. Selection(t, l, buf, part(k + 1))
        <4>1. q \in [1 .. Len(t) -> part(k + 1)]
          BY <3>5, <3>8, Zenon
        <4>2. /\ \A j, m \in 1 .. Len(t) : q[j] = q[m] => j = m
              /\ \A i \in part(k + 1) : \E j \in 1 .. Len(t) : q[j] = i
              /\ \A j \in 1 .. Len(t) : t[j] = buf[q[j]]
          BY <3>5, <3>9, <3>10, <3>11
        <4> QED BY <3>5, <4>1, <4>2, Zenon DEF Selection
      <3> QED BY <3>12, <2>1 DEF t, part
    <2> QED BY <2>4, <2>5
  <1>4. Len(buf) \in S
    <2> HIDE DEF S
    <2>1. 0 .. Len(buf) \subseteq S
      BY <1>0, <1>2, <1>3, UpTo
    <2>2. Len(buf) \in 0 .. Len(buf)
      BY <1>0
    <2> QED BY <2>1, <2>2
  <1>5. part(Len(buf)) = group
    BY <1>0
  <1>6. Selection(f[Len(buf)], l, buf, group)
    BY <1>4, <1>5
  <1> QED BY <1>1, <1>6

\* (SequenceLemmas) The elements of the flattened sequence are those of the sequences.
LEMMA FlattenMembers ==
    ASSUME NEW T, NEW s \in Seq(Seq(T))
    PROVE  ToSet(FlattenSeq(s)) = UNION {ToSet(s[n]) : n \in 1 .. Len(s)}
  <1> DEFINE flat == FlattenSeq(s)
  <1>1. /\ Len(s) \in Nat /\ flat \in Seq(T) /\ DOMAIN flat = 1 .. Len(flat)
        /\ \A n \in 1 .. Len(s) : s[n] \in Seq(T) /\ DOMAIN s[n] = 1 .. Len(s[n])
    <2>1. flat \in Seq(T)
      BY FlattenSteps
    <2> QED BY <2>1
  <1>2. /\ \A n \in 1 .. Len(s) : End(s, n) = End(s, n - 1) + Len(s[n])
        /\ \A n \in 1 .. Len(s) : End(s, n) <= Len(flat)
        /\ \A n \in 1 .. Len(s) : \A j \in 1 .. Len(s[n]) : flat[End(s, n - 1) + j] = s[n][j]
        /\ \A n \in 0 .. Len(s) : End(s, n) \in Nat
    BY FlattenLayout
  <1>3. ASSUME NEW x \in ToSet(flat) PROVE x \in UNION {ToSet(s[n]) : n \in 1 .. Len(s)}
    <2>1. PICK m \in 1 .. Len(flat) : x = flat[m]
      BY <1>1 DEF ToSet
    <2>2a. PICK n \in 1 .. Len(s) : \E j \in 1 .. Len(s[n]) : m = End(s, n - 1) + j
      BY FlattenPosition
    <2>2. PICK j \in 1 .. Len(s[n]) : m = End(s, n - 1) + j
      BY <2>2a
    <2>3. x = s[n][j]
      BY <1>2, <2>1, <2>2
    <2>4. x \in ToSet(s[n])
      BY <1>1, <2>3 DEF ToSet
    <2> QED BY <2>4
  <1>4. ASSUME NEW n \in 1 .. Len(s), NEW x \in ToSet(s[n]) PROVE x \in ToSet(flat)
    <2>1. PICK j \in 1 .. Len(s[n]) : x = s[n][j]
      BY <1>1 DEF ToSet
    <2>2. flat[End(s, n - 1) + j] = x
      BY <1>2, <2>1
    <2>3. End(s, n - 1) + j \in 1 .. Len(flat)
      <3>1. n - 1 \in 0 .. Len(s) /\ Len(s[n]) \in Nat /\ Len(flat) \in Nat
        BY <1>1
      <3>2. /\ End(s, n - 1) \in Nat /\ End(s, n) \in Nat
            /\ End(s, n) = End(s, n - 1) + Len(s[n]) /\ End(s, n) <= Len(flat)
        <4>1. n \in 0 .. Len(s)
          OBVIOUS
        <4> QED BY <1>2, <3>1, <4>1
      <3> QED BY SMTT(30), <3>1, <3>2
    <2> QED BY <1>1, <2>2, <2>3 DEF ToSet
  <1> DEFINE all == UNION {ToSet(s[n]) : n \in 1 .. Len(s)}
  <1>5. ToSet(flat) \subseteq all
    BY <1>3, Zenon
  <1>6. all \subseteq ToSet(flat)
    BY <1>4
  <1>7. ToSet(flat) = all
    <2> HIDE DEF all, flat
    <2> QED BY <1>5, <1>6
  <1> QED BY <1>7

\* If the sequences are without repetitions and have nothing in common, so is what they make.
LEMMA FlattenInjective ==
    ASSUME NEW T, NEW s \in Seq(Seq(T)),
           \A n \in 1 .. Len(s) : IsInjective(s[n]),
           \A m, n \in 1 .. Len(s) : m # n => ToSet(s[m]) \cap ToSet(s[n]) = {}
    PROVE  IsInjective(FlattenSeq(s))
  <1> DEFINE flat == FlattenSeq(s)
  <1>1. /\ Len(s) \in Nat /\ flat \in Seq(T) /\ DOMAIN flat = 1 .. Len(flat)
        /\ \A n \in 1 .. Len(s) : s[n] \in Seq(T) /\ DOMAIN s[n] = 1 .. Len(s[n])
    <2>1. flat \in Seq(T)
      BY FlattenSteps
    <2> QED BY <2>1
  <1>2. \A n \in 1 .. Len(s) : \A j \in 1 .. Len(s[n]) : flat[End(s, n - 1) + j] = s[n][j]
    BY FlattenLayout
  <1> SUFFICES ASSUME NEW x \in 1 .. Len(flat), NEW y \in 1 .. Len(flat), flat[x] = flat[y]
               PROVE  x = y
    BY <1>1 DEF IsInjective
  <1>3a. PICK m \in 1 .. Len(s) : \E i \in 1 .. Len(s[m]) : x = End(s, m - 1) + i
    BY FlattenPosition
  <1>3. PICK i \in 1 .. Len(s[m]) : x = End(s, m - 1) + i
    BY <1>3a
  <1>4a. PICK n \in 1 .. Len(s) : \E j \in 1 .. Len(s[n]) : y = End(s, n - 1) + j
    BY FlattenPosition
  <1>4. PICK j \in 1 .. Len(s[n]) : y = End(s, n - 1) + j
    BY <1>4a
  <1>5. s[m][i] = s[n][j]
    BY <1>2, <1>3, <1>4
  <1>6. s[m][i] \in ToSet(s[m]) /\ s[n][j] \in ToSet(s[n])
    BY <1>1 DEF ToSet
  <1>7. m = n
    BY <1>5, <1>6
  <1>8. i = j
    BY <1>1, <1>5, <1>7 DEF IsInjective
  <1> QED BY <1>3, <1>4, <1>7, <1>8

-----------------------------------------------------------------------------
(***************************************************************************)
(* What a tree holds.                                                      *)
(***************************************************************************)
\* The entries under a branch of a node of level l, and under a sequence of them.
Under(l, b) == IF l = 0 THEN {b} ELSE Entries(b.child)

\* The entries under the branches of a sequence.
UnderAll(l, s) == UNION {Under(l, s[i]) : i \in DOMAIN s}

\* No item in both.
Apart(es, fs) == \A e \in es, f \in fs : e.item # f.item

\* No node is the null pointer.
LEMMA NotNull ==
    ASSUME NEW l \in Nat, NEW node \in Node[l]
    PROVE  node # Null
  <1>1. node.level = l
    BY NodeFields
  <1>2. Null.level = -1
    BY DEF Null
  <1> QED BY <1>1, <1>2

\* The leaves of a node are entries.
LEMMA LeavesType ==
    ASSUME NEW l \in Nat, NEW node \in Node[l]
    PROVE  Leaves(node) \in Seq(Entry)
  <1> DEFINE S == {n \in Nat : \A x \in Node[n] : Leaves(x) \in Seq(Entry)}
  <1>1. 0 \in S
    <2> SUFFICES ASSUME NEW x \in Node[0] PROVE Leaves(x) \in Seq(Entry)
      OBVIOUS
    <2>1. Leaves(x) = x.branch
      BY LeavesAre
    <2>2. x.branch \in Seq(BranchType(0))
      BY NodeFields
    <2> QED BY <2>1, <2>2 DEF BranchType
  <1>2. ASSUME NEW n \in Nat, n \in S PROVE n + 1 \in S
    <2> SUFFICES ASSUME NEW x \in Node[n + 1] PROVE Leaves(x) \in Seq(Entry)
      OBVIOUS
    <2> DEFINE parts == [i \in Positions(x) |-> Leaves(x.branch[i].child)]
    <2>1. n + 1 \in Nat /\ n + 1 \in Nat \ {0} /\ (n + 1) - 1 = n
      OBVIOUS
    <2>2. Leaves(x) = FlattenSeq(parts)
      BY <2>1, LeavesAre
    <2>3. \A i \in Positions(x) : Leaves(x.branch[i].child) \in Seq(Entry)
      <3> SUFFICES ASSUME NEW i \in Positions(x) PROVE Leaves(x.branch[i].child) \in Seq(Entry)
        OBVIOUS
      <3>1. x.branch[i].child \in Node[n]
        BY <2>1, ChildType
      <3> QED BY <3>1, <1>2
    <2>4. Positions(x) = 1 .. Count(x) /\ Count(x) \in Nat
      BY <2>1, NodeFields
    <2>5. parts \in Seq(Seq(Entry))
      BY <2>3, <2>4
    <2> HIDE DEF parts
    <2> QED BY <2>2, <2>5, FlattenSteps
  <1>3. Nat \subseteq S
    <2> HIDE DEF S
    <2> QED BY <1>1, <1>2, NatSubset
  <1> QED BY <1>3

\* The entries of a node are those under its branches.
LEMMA EntriesAre ==
    ASSUME NEW l \in Nat, NEW node \in Node[l]
    PROVE  Entries(node) = UnderAll(l, node.branch)
  <1>1. Entries(node) = ToSet(Leaves(node))
    BY NotNull DEF Entries, Range, ToSet
  <1>2. /\ node.branch \in Seq(BranchType(l)) /\ Positions(node) = DOMAIN node.branch
        /\ Positions(node) = 1 .. Count(node) /\ Count(node) \in Nat
    BY NodeFields DEF Positions
  <1>3. CASE l = 0
    <2>1. Leaves(node) = node.branch
      BY <1>3, LeavesAre
    <2>2. UnderAll(l, node.branch) = UNION {{node.branch[i]} : i \in DOMAIN node.branch}
      BY <1>3 DEF UnderAll, Under
    <2>3. ToSet(node.branch) = {node.branch[i] : i \in DOMAIN node.branch}
      BY DEF ToSet
    <2> QED BY <1>1, <2>1, <2>2, <2>3
  <1>4. CASE l # 0
    <2> DEFINE parts == [i \in Positions(node) |-> Leaves(node.branch[i].child)]
    <2>1. Leaves(node) = FlattenSeq(parts)
      BY <1>4, LeavesAre
    <2>2. \A i \in Positions(node) : /\ Leaves(node.branch[i].child) \in Seq(Entry)
                                     /\ ToSet(Leaves(node.branch[i].child)) = Entries(node.branch[i].child)
      <3> SUFFICES ASSUME NEW i \in Positions(node)
                   PROVE  /\ Leaves(node.branch[i].child) \in Seq(Entry)
                          /\ ToSet(Leaves(node.branch[i].child)) = Entries(node.branch[i].child)
        OBVIOUS
      <3>1. l - 1 \in Nat /\ node.branch[i].child \in Node[l - 1]
        BY <1>4, ChildType
      <3>2. node.branch[i].child # Null
        BY <3>1, NotNull
      <3>3. Leaves(node.branch[i].child) \in Seq(Entry)
        BY <3>1, LeavesType
      <3> QED BY <3>2, <3>3 DEF Entries, Range, ToSet
    <2>3. parts \in Seq(Seq(Entry)) /\ Len(parts) = Count(node)
      BY <2>2, <1>2
    <2>4. \A i \in Positions(node) : ToSet(parts[i]) = Entries(node.branch[i].child)
      BY <2>2
    <2> HIDE DEF parts
    <2>5. Entries(node) = UNION {ToSet(parts[i]) : i \in 1 .. Count(node)}
      BY <1>1, <2>1, <2>3, FlattenMembers
    <2>6. UnderAll(l, node.branch) = UNION {Entries(node.branch[i].child) : i \in Positions(node)}
      BY <1>2, <1>4 DEF UnderAll, Under
    <2>7. {ToSet(parts[i]) : i \in 1 .. Count(node)} = {Entries(node.branch[i].child) : i \in Positions(node)}
      BY <1>2, <2>4
    <2> QED BY <2>5, <2>6, <2>7, Zenon
  <1> QED BY <1>3, <1>4

\* So are the members of Entries.
LEMMA EntriesType ==
    ASSUME NEW l \in Nat, NEW node \in Node[l]
    PROVE  Entries(node) \in SUBSET Entry
  <1>1. Leaves(node) \in Seq(Entry)
    BY LeavesType
  <1> QED BY <1>1 DEF Entries, Range

-----------------------------------------------------------------------------
(***************************************************************************)
(* Well-formed trees.                                                      *)
(***************************************************************************)
\* A node that is not over capacity, whose children have enough branches and are covered
\* exactly, and that holds no item twice.
Fit(node) ==
    /\ Count(node) <= MAX_NODES
    /\ \A i \in Positions(node) :
          node.level # 0 => /\ node.branch[i].rect = NodeCover(node.branch[i].child)
                            /\ Count(node.branch[i].child) >= MIN_NODES
    /\ \A i, j \in Positions(node) :
          i # j => Apart(Under(node.level, node.branch[i]), Under(node.level, node.branch[j]))

\* A tree of level l with nothing but such nodes.
Sound(l, node) == node \in Node[l] /\ \A n \in NodesFrom(node) : Fit(n)

\* A branch that may be in a sound node of the level: its child is sound, filled, and exactly
\* covered by its rectangle.
GoodBranch(l, b) ==
    /\ b \in BranchType(l)
    /\ l # 0 => Sound(l - 1, b.child) /\ b.rect = NodeCover(b.child) /\ Count(b.child) >= MIN_NODES

\* Branches that may be together in one: no item is under two of them.
GoodBranches(l, s) ==
    /\ s \in Seq(BranchType(l))
    /\ \A i \in DOMAIN s : GoodBranch(l, s[i])
    /\ \A i, j \in DOMAIN s : i # j => Apart(Under(l, s[i]), Under(l, s[j]))

\* A node is sound when it is within capacity and its branches are good, which is how soundness
\* goes up and down the levels.
LEMMA SoundIs ==
    ASSUME NEW l \in Nat, NEW node \in Node[l]
    PROVE  Sound(l, node) <=> Count(node) <= MAX_NODES /\ GoodBranches(l, node.branch)
  <1>1. /\ node.branch \in Seq(BranchType(l)) /\ Positions(node) = DOMAIN node.branch /\ node.level = l
        /\ \A i \in Positions(node) : node.branch[i] \in BranchType(l)
    BY NodeFields DEF Positions
  <1>2. CASE l = 0
    <2>1. NodesFrom(node) = {node}
      BY <1>2, NodesAre
    <2>2. Sound(l, node) <=> Fit(node)
      BY <2>1 DEF Sound
    <2>3. Fit(node) <=> Count(node) <= MAX_NODES /\ GoodBranches(l, node.branch)
      BY <1>1, <1>2 DEF Fit, GoodBranches, GoodBranch
    <2> QED BY <2>2, <2>3
  <1>3. CASE l # 0
    <2>1. NodesFrom(node) = {node} \union UNION {NodesFrom(node.branch[i].child) : i \in Positions(node)}
      BY <1>3, NodesAre
    <2>2. \A i \in Positions(node) : node.branch[i].child \in Node[l - 1]
      BY <1>3, ChildType
    <2>3. Sound(l, node) <=> Fit(node) /\ \A i \in Positions(node) : Sound(l - 1, node.branch[i].child)
      BY <2>1, <2>2 DEF Sound
    <2>4. Fit(node) /\ (\A i \in Positions(node) : Sound(l - 1, node.branch[i].child))
             <=> Count(node) <= MAX_NODES /\ GoodBranches(l, node.branch)
      BY <1>1, <1>3 DEF Fit, GoodBranches, GoodBranch
    <2> QED BY <2>3, <2>4
  <1> QED BY <1>2, <1>3

\* Apart is symmetric, and goes over to subsets and unions.
LEMMA ApartFacts ==
    /\ \A es, fs : Apart(es, fs) => Apart(fs, es)
    /\ \A es, fs, gs, hs : Apart(es, fs) /\ gs \subseteq es /\ hs \subseteq fs => Apart(gs, hs)
    /\ \A es, fs, gs : Apart(es, fs) /\ Apart(es, gs) => Apart(es, fs \union gs) /\ Apart(fs \union gs, es)
  BY DEF Apart

\* The rectangles of a sequence of branches.
RectsIn(s) == {s[i].rect : i \in DOMAIN s}

\* They are rectangles, and finitely many.
LEMMA RectsType ==
    ASSUME NEW l \in Nat, NEW s \in Seq(BranchType(l))
    PROVE  RectsIn(s) \in SUBSET RectType /\ IsFiniteSet(RectsIn(s)) /\ (Len(s) # 0 => RectsIn(s) # {})
  <1>1. /\ IsFiniteSet(DOMAIN s) /\ DOMAIN s = 1 .. Len(s) /\ Len(s) \in Nat
        /\ \A i \in DOMAIN s : s[i].rect \in RectType
    BY BufferFields
  <1> DEFINE f == [i \in DOMAIN s |-> s[i].rect]
  <1>2. IsFiniteSet({f[i] : i \in DOMAIN s})
    BY ZenonT(30), <1>1, ImageFinite
  <1>3. IsFiniteSet(RectsIn(s))
    BY <1>2 DEF RectsIn
  <1>4. Len(s) # 0 => 1 \in DOMAIN s
    BY <1>1
  <1> QED BY <1>1, <1>3, <1>4 DEF RectsIn

\* NodeCover, for a node of a level.
LEMMA NodeCoverType ==
    ASSUME NEW l \in Nat, NEW node \in Node[l]
    PROVE  /\ RectsOf(node) = RectsIn(node.branch)
           /\ RectsOf(node) \in SUBSET RectType /\ IsFiniteSet(RectsOf(node))
           /\ Count(node) # 0 => RectsOf(node) # {}
           /\ NodeCover(node) = Cover(RectsOf(node)) /\ NodeCover(node) \in RectType
  <1>1. node.branch \in Seq(BranchType(l)) /\ Count(node) = Len(node.branch)
    BY NodeFields
  <1>2. RectsOf(node) = RectsIn(node.branch)
    BY DEF RectsOf, RectsIn, Positions
  <1>3. RectsIn(node.branch) \in SUBSET RectType /\ IsFiniteSet(RectsIn(node.branch)) /\ (Len(node.branch) # 0 => RectsIn(node.branch) # {})
    BY <1>1, RectsType
  <1> QED BY <1>1, <1>2, <1>3, CoverType DEF NodeCover

\* A node of such branches.
LEMMA SoundMade ==
    ASSUME NEW l \in Nat, NEW s, GoodBranches(l, s), Len(s) <= MAX_NODES
    PROVE  LET node == [level |-> l, branch |-> s]
           IN  /\ Sound(l, node) /\ node \in Node[l]
               /\ node.branch = s /\ node.level = l
               /\ Count(node) = Len(s)
               /\ Entries(node) = UnderAll(l, s)
               /\ RectsOf(node) = RectsIn(s)
  <1> DEFINE node == [level |-> l, branch |-> s]
  <1>1. s \in Seq(BranchType(l))
    BY DEF GoodBranches
  <1>2. node \in Node[l] /\ node.branch = s /\ node.level = l
    BY <1>1, NodeMade
  <1> HIDE DEF node
  <1>3. Count(node) = Len(s)
    BY <1>2 DEF Count
  <1>4. Sound(l, node)
    BY <1>2, <1>3, SoundIs
  <1>5. Entries(node) = UnderAll(l, s)
    BY <1>2, EntriesAre
  <1>6. RectsOf(node) = RectsIn(s)
    BY <1>2, NodeCoverType
  <1> QED BY <1>2, <1>3, <1>4, <1>5, <1>6 DEF node

\* All that is used of a sound node.
LEMMA SoundFields ==
    ASSUME NEW l \in Nat, NEW node, Sound(l, node)
    PROVE  /\ node \in Node[l] /\ node.level = l /\ node = [level |-> l, branch |-> node.branch]
           /\ node.branch \in Seq(BranchType(l)) /\ GoodBranches(l, node.branch)
           /\ Count(node) = Len(node.branch) /\ Count(node) \in Nat /\ Count(node) <= MAX_NODES
           /\ DOMAIN node.branch = 1 .. Count(node) /\ Positions(node) = DOMAIN node.branch
           /\ Entries(node) = UnderAll(l, node.branch)
           /\ RectsOf(node) = RectsIn(node.branch)
  <1>1. node \in Node[l]
    BY DEF Sound
  <1>2. Count(node) <= MAX_NODES /\ GoodBranches(l, node.branch)
    BY <1>1, SoundIs
  <1>3. RectsOf(node) = RectsIn(node.branch)
    BY <1>1, NodeCoverType
  <1>4. Entries(node) = UnderAll(l, node.branch)
    BY <1>1, EntriesAre
  <1> QED BY <1>1, <1>2, <1>3, <1>4, NodeFields DEF Positions

\* The branch of a sound node with enough branches.
LEMMA GoodBranchOf ==
    ASSUME NEW l \in Nat, NEW child, Sound(l, child), Count(child) >= MIN_NODES
    PROVE  /\ GoodBranch(l + 1, BranchOf(child))
           /\ Under(l + 1, BranchOf(child)) = Entries(child)
           /\ BranchOf(child).rect = NodeCover(child)
  <1>1. child \in Node[l] /\ NodeCover(child) \in RectType
    BY NodeCoverType DEF Sound
  <1>2. l + 1 \in Nat /\ l + 1 # 0 /\ (l + 1) - 1 = l
    OBVIOUS
  <1> DEFINE b == BranchOf(child)
  <1>3. b = [rect |-> NodeCover(child), child |-> child] /\ b.rect = NodeCover(child) /\ b.child = child
    BY DEF BranchOf
  <1> HIDE DEF b
  <1>4. b \in BranchType(l + 1)
    BY <1>1, <1>2, <1>3 DEF BranchType
  <1>5. GoodBranch(l + 1, b)
    BY <1>2, <1>3, <1>4 DEF GoodBranch
  <1>6. Under(l + 1, b) = Entries(child)
    BY <1>2, <1>3 DEF Under
  <1> QED BY <1>3, <1>5, <1>6 DEF b

-----------------------------------------------------------------------------
(***************************************************************************)
(* Sequences of branches.                                                  *)
(***************************************************************************)
\* A branch added to good ones, as AddBranch does with room left.
LEMMA BranchesAppend ==
    ASSUME NEW l \in Nat, NEW s, GoodBranches(l, s), NEW b, GoodBranch(l, b),
           Apart(Under(l, b), UnderAll(l, s))
    PROVE  /\ GoodBranches(l, Append(s, b))
           /\ UnderAll(l, Append(s, b)) = UnderAll(l, s) \union Under(l, b)
           /\ RectsIn(Append(s, b)) = RectsIn(s) \union {b.rect}
           /\ Len(Append(s, b)) = Len(s) + 1
  <1> DEFINE t == Append(s, b)
             n == Len(s)
  <1>1. s \in Seq(BranchType(l)) /\ b \in BranchType(l)
    BY DEF GoodBranches, GoodBranch
  <1>2. /\ n \in Nat /\ t \in Seq(BranchType(l)) /\ Len(t) = n + 1
        /\ DOMAIN s = 1 .. n /\ DOMAIN t = 1 .. n + 1
        /\ t[n + 1] = b /\ \A i \in 1 .. n : t[i] = s[i]
    BY <1>1
  <1> HIDE DEF t, n
  <1>3. /\ \A i \in 1 .. n + 1 : i = n + 1 \/ i \in 1 .. n
        /\ n + 1 \in 1 .. n + 1 /\ \A i \in 1 .. n : i \in 1 .. n + 1 /\ i # n + 1
    BY <1>2
  <1>4. \A i \in 1 .. n : GoodBranch(l, s[i]) /\ Apart(Under(l, b), Under(l, s[i])) /\ Apart(Under(l, s[i]), Under(l, b))
    <2> SUFFICES ASSUME NEW i \in 1 .. n
                 PROVE  GoodBranch(l, s[i]) /\ Apart(Under(l, b), Under(l, s[i])) /\ Apart(Under(l, s[i]), Under(l, b))
      OBVIOUS
    <2>1. Under(l, s[i]) \subseteq UnderAll(l, s)
      BY <1>2 DEF UnderAll
    <2>2. GoodBranch(l, s[i])
      BY <1>2 DEF GoodBranches
    <2>3. Under(l, b) \subseteq Under(l, b)
      OBVIOUS
    <2> QED BY <2>1, <2>2, <2>3, ApartFacts, Zenon
  <1>5. \A i \in DOMAIN t : GoodBranch(l, t[i])
    BY <1>2, <1>3, <1>4
  <1>6. ASSUME NEW i \in DOMAIN t, NEW j \in DOMAIN t, i # j PROVE Apart(Under(l, t[i]), Under(l, t[j]))
    <2>1. CASE i = n + 1
      <3>1. j \in 1 .. n
        BY <1>2, <1>3, <1>6, <2>1
      <3> QED BY <2>1, <3>1, <1>2, <1>4
    <2>2. CASE j = n + 1
      <3>1. i \in 1 .. n
        BY <1>2, <1>3, <1>6, <2>2
      <3> QED BY <2>2, <3>1, <1>2, <1>4
    <2>3. CASE i \in 1 .. n /\ j \in 1 .. n
      <3>1. Apart(Under(l, s[i]), Under(l, s[j]))
        BY <2>3, <1>2, <1>6 DEF GoodBranches
      <3> QED BY <3>1, <2>3, <1>2
    <2> QED BY <2>1, <2>2, <2>3, <1>2, <1>3
  <1>7. GoodBranches(l, t)
    BY <1>2, <1>5, <1>6 DEF GoodBranches
  <1>8. UnderAll(l, t) = UnderAll(l, s) \union Under(l, b)
    <2>1. UnderAll(l, t) = UNION {Under(l, t[i]) : i \in 1 .. n + 1} /\ UnderAll(l, s) = UNION {Under(l, s[i]) : i \in 1 .. n}
      BY <1>2 DEF UnderAll
    <2>2. \A i \in 1 .. n : Under(l, t[i]) = Under(l, s[i])
      BY <1>2
    <2>3. Under(l, t[n + 1]) = Under(l, b)
      BY <1>2
    <2> QED BY <2>1, <2>2, <2>3, <1>3
  <1>9. RectsIn(t) = RectsIn(s) \union {b.rect}
    <2>1. RectsIn(t) = {t[i].rect : i \in 1 .. n + 1} /\ RectsIn(s) = {s[i].rect : i \in 1 .. n}
      BY <1>2 DEF RectsIn
    <2> QED BY <2>1, <1>2, <1>3
  <1> QED BY <1>2, <1>7, <1>8, <1>9 DEF t, n

\* Good branches with one of them replaced, as the branch a call went down is.
LEMMA BranchesReplace ==
    ASSUME NEW l \in Nat, NEW s, GoodBranches(l, s), NEW i \in DOMAIN s, NEW b, GoodBranch(l, b),
           \A j \in (DOMAIN s) \ {i} : Apart(Under(l, b), Under(l, s[j]))
    PROVE  LET t == [s EXCEPT ![i] = b]
           IN  /\ GoodBranches(l, t)
               /\ UnderAll(l, t) = Under(l, b) \union UNION {Under(l, s[j]) : j \in (DOMAIN s) \ {i}}
               /\ RectsIn(t) = {b.rect} \union {s[j].rect : j \in (DOMAIN s) \ {i}}
               /\ Len(t) = Len(s)
  <1> DEFINE t == [s EXCEPT ![i] = b]
  <1>1. s \in Seq(BranchType(l)) /\ b \in BranchType(l)
    BY DEF GoodBranches, GoodBranch
  <1>2. /\ t \in Seq(BranchType(l)) /\ Len(t) = Len(s) /\ DOMAIN t = DOMAIN s
        /\ t[i] = b /\ \A j \in (DOMAIN s) \ {i} : t[j] = s[j]
    BY <1>1
  <1> HIDE DEF t
  <1>3. \A j \in DOMAIN t : GoodBranch(l, t[j])
    BY <1>2 DEF GoodBranches
  <1>4. ASSUME NEW j \in DOMAIN t, NEW k \in DOMAIN t, j # k PROVE Apart(Under(l, t[j]), Under(l, t[k]))
    <2>1. CASE j = i
      <3>1. k \in (DOMAIN s) \ {i}
        BY <2>1, <1>2, <1>4
      <3> QED BY <2>1, <3>1, <1>2
    <2>2. CASE k = i
      <3>1. j \in (DOMAIN s) \ {i}
        BY <2>2, <1>2, <1>4
      <3>2. Apart(Under(l, b), Under(l, s[j]))
        BY <3>1
      <3>3. Apart(Under(l, s[j]), Under(l, b))
        BY <3>2, ApartFacts, Zenon
      <3> QED BY <2>2, <3>1, <3>3, <1>2
    <2>3. CASE j # i /\ k # i
      <3>1. Apart(Under(l, s[j]), Under(l, s[k]))
        BY <1>2, <1>4 DEF GoodBranches
      <3> QED BY <3>1, <2>3, <1>2
    <2> QED BY <2>1, <2>2, <2>3
  <1>5. GoodBranches(l, t)
    BY <1>2, <1>3, <1>4 DEF GoodBranches
  <1>6. UnderAll(l, t) = Under(l, b) \union UNION {Under(l, s[j]) : j \in (DOMAIN s) \ {i}}
    <2>1. UnderAll(l, t) = UNION {Under(l, t[j]) : j \in DOMAIN s}
      BY <1>2 DEF UnderAll
    <2>2. \A j \in (DOMAIN s) \ {i} : Under(l, t[j]) = Under(l, s[j])
      BY <1>2
    <2>3. Under(l, t[i]) = Under(l, b)
      BY <1>2
    <2> QED BY <2>1, <2>2, <2>3
  <1>7. RectsIn(t) = {b.rect} \union {s[j].rect : j \in (DOMAIN s) \ {i}}
    BY <1>2 DEF RectsIn
  <1> QED BY <1>2, <1>5, <1>6, <1>7 DEF t

\* Good branches of which a group is selected.
LEMMA BranchesSelect ==
    ASSUME NEW l \in Nat, NEW buf, GoodBranches(l, buf), NEW group \in SUBSET DOMAIN buf,
           NEW s, Selection(s, l, buf, group)
    PROVE  /\ GoodBranches(l, s)
           /\ UnderAll(l, s) = UNION {Under(l, buf[i]) : i \in group}
           /\ RectsIn(s) = {buf[i].rect : i \in group}
           /\ Len(s) = Cardinality(group)
  <1>1. PICK p \in [1 .. Len(s) -> group] :
          /\ \A j, k \in 1 .. Len(s) : p[j] = p[k] => j = k
          /\ \A i \in group : \E j \in 1 .. Len(s) : p[j] = i
          /\ \A j \in 1 .. Len(s) : s[j] = buf[p[j]]
    BY DEF Selection
  <1>2. s \in Seq(BranchType(l)) /\ DOMAIN s = 1 .. Len(s)
    BY DEF Selection
  <1>3. \A j \in DOMAIN s : p[j] \in group /\ p[j] \in DOMAIN buf /\ s[j] = buf[p[j]]
    BY <1>1, <1>2
  <1>4. \A j \in DOMAIN s : GoodBranch(l, s[j])
    BY <1>3 DEF GoodBranches
  <1>5. ASSUME NEW j \in DOMAIN s, NEW k \in DOMAIN s, j # k PROVE Apart(Under(l, s[j]), Under(l, s[k]))
    <2>1. p[j] # p[k] /\ p[j] \in DOMAIN buf /\ p[k] \in DOMAIN buf
      BY <1>1, <1>2, <1>3, <1>5
    <2>2. Apart(Under(l, buf[p[j]]), Under(l, buf[p[k]]))
      BY <2>1 DEF GoodBranches
    <2> QED BY <2>2, <1>3
  <1>6. GoodBranches(l, s)
    BY <1>2, <1>4, <1>5 DEF GoodBranches
  <1>7. UnderAll(l, s) = UNION {Under(l, buf[i]) : i \in group}
    <2>1. UnderAll(l, s) = UNION {Under(l, buf[p[j]]) : j \in DOMAIN s}
      BY <1>3 DEF UnderAll
    <2>2. {Under(l, buf[p[j]]) : j \in DOMAIN s} = {Under(l, buf[i]) : i \in group}
      BY <1>1, <1>2, <1>3
    <2> QED BY <2>1, <2>2, Zenon
  <1>8. RectsIn(s) = {buf[i].rect : i \in group}
    <2>1. RectsIn(s) = {buf[p[j]].rect : j \in DOMAIN s}
      BY <1>3 DEF RectsIn
    <2> QED BY <2>1, <1>1, <1>2, <1>3
  <1>9. IsFiniteSet(group)
    <2>1. buf \in Seq(BranchType(l))
      BY DEF GoodBranches
    <2>2. IsFiniteSet(DOMAIN buf)
      BY <2>1, BufferFields
    <2> QED BY <2>2, FS_Subset
  <1>10. Len(s) = Cardinality(group)
    BY <1>9, SelectionLength
  <1> QED BY <1>6, <1>7, <1>8, <1>10

-----------------------------------------------------------------------------
(***************************************************************************)
(* Covers in parts.                                                        *)
(***************************************************************************)
\* A rectangle may be covered in two parts.
LEMMA CoverPair ==
    ASSUME NEW rs \in SUBSET RectType, IsFiniteSet(rs), NEW a \in RectType, NEW b \in RectType
    PROVE  Cover(rs \union {a, b}) = Cover(rs \union {CombineRect(a, b)})
  <1>1. Cover(rs \union {CombineRect(a, b)}) = CombineRect(a, Cover(rs \union {b}))
    BY CoverGrown
  <1>2. rs \union {b} \in SUBSET RectType /\ IsFiniteSet(rs \union {b}) /\ rs \union {b} # {}
    BY FS_AddElement
  <1>3. Cover((rs \union {b}) \union {a}) = CombineRect(a, Cover(rs \union {b}))
    BY <1>2, CoverWith
  <1>4. (rs \union {b}) \union {a} = rs \union {a, b}
    OBVIOUS
  <1> QED BY <1>1, <1>3, <1>4

\* The cover of two sets of rectangles combines theirs.
LEMMA CoverUnion ==
    ASSUME NEW rs \in SUBSET RectType, IsFiniteSet(rs), rs # {},
           NEW ss \in SUBSET RectType, IsFiniteSet(ss), ss # {}
    PROVE  CombineRect(Cover(rs), Cover(ss)) = Cover(rs \union ss)
  <1> DEFINE c == Cover(rs)
             e == Cover(ss)
             all == rs \union ss
             new == CombineRect(c, e)
  <1>1. c \in RectType /\ Surrounds(c, rs) /\ e \in RectType /\ Surrounds(e, ss)
    BY CoverSurrounds
  <1>2. all \in SUBSET RectType /\ IsFiniteSet(all) /\ all # {}
    BY FS_Union
  <1>3. Cover(all) \in RectType /\ Surrounds(Cover(all), all)
    BY <1>2, CoverSurrounds
  <1> HIDE DEF c, e
  <1>4. /\ new \in RectType
        /\ \A d \in Dims : new.min[d] = lesser(c.min[d], e.min[d]) /\ new.max[d] = greater(c.max[d], e.max[d])
    BY <1>1, CombineType
  <1> HIDE DEF new
  <1>5. \A d \in Dims : /\ c.min[d] \in Int /\ c.max[d] \in Int
                        /\ e.min[d] \in Int /\ e.max[d] \in Int
    BY <1>1, RectFields
  <1>6. \A d \in Dims : /\ new.min[d] <= c.min[d] /\ new.min[d] <= e.min[d]
                        /\ c.max[d] <= new.max[d] /\ e.max[d] <= new.max[d]
                        /\ new.min[d] = c.min[d] \/ new.min[d] = e.min[d]
                        /\ new.max[d] = c.max[d] \/ new.max[d] = e.max[d]
    BY <1>4, <1>5 DEF lesser, greater
  <1>7. Within(c, new) /\ Within(e, new)
    BY <1>6 DEF Within
  <1>8. \A s \in all : Within(s, new)
    <2>1. ASSUME NEW s \in rs PROVE Within(s, new)
      <3>1. Within(s, c) /\ s \in RectType
        BY <1>1 DEF Surrounds
      <3> QED BY <3>1, <1>1, <1>4, <1>7, WithinTransitive
    <2>2. ASSUME NEW s \in ss PROVE Within(s, new)
      <3>1. Within(s, e) /\ s \in RectType
        BY <1>1 DEF Surrounds
      <3> QED BY <3>1, <1>1, <1>4, <1>7, WithinTransitive
    <2> QED BY <2>1, <2>2
  <1>9. ASSUME NEW d \in Dims
        PROVE  (\E s \in all : s.min[d] = new.min[d]) /\ (\E s \in all : s.max[d] = new.max[d])
    <2>1. /\ (\E s \in rs : s.min[d] = c.min[d]) /\ (\E s \in rs : s.max[d] = c.max[d])
          /\ (\E s \in ss : s.min[d] = e.min[d]) /\ (\E s \in ss : s.max[d] = e.max[d])
      BY <1>1 DEF Surrounds
    <2> QED BY <2>1, <1>6
  <1>10. Surrounds(new, all)
    BY <1>8, <1>9 DEF Surrounds
  <1>11. Cover(all) = new
    <2> HIDE DEF all
    <2> QED BY <1>2, <1>3, <1>4, <1>10, SurroundsOnce
  <1> QED BY <1>11 DEF new, c, e

-----------------------------------------------------------------------------
(***************************************************************************)
(* Insertion.                                                              *)
(***************************************************************************)
\* What comes of a node of level l with some entries and rectangles, and count branches, when
\* more entries under a rectangle join it: the same node, or two nodes.
InsertOutcome(l, count, es, rs, g) ==
    /\ Sound(l, g.node)
    /\ \/ /\ g.sibling = <<>>
          /\ Entries(g.node) = es
          /\ Count(g.node) >= count
          /\ Count(g.node) >= 1
          /\ NodeCover(g.node) = Cover(rs)
       \/ \E sibling :
             /\ g.sibling = <<sibling>>
             /\ Sound(l, sibling)
             /\ Count(g.node) >= MIN_NODES /\ Count(sibling) >= MIN_NODES
             /\ Entries(g.node) \union Entries(sibling) = es
             /\ Apart(Entries(g.node), Entries(sibling))
             /\ CombineRect(NodeCover(g.node), NodeCover(sibling)) = Cover(rs)

\* SplitNode makes two filled nodes of an overfull buffer, and loses nothing of it.
LEMMA SplitOutcome ==
    ASSUME NEW l \in Nat, NEW node, node.level = l,
           NEW buf, GoodBranches(l, buf), Len(buf) = MAX_NODES + 1, NEW count
    PROVE  InsertOutcome(l, count, UnderAll(l, buf), RectsIn(buf), SplitNode(node, buf))
  <1> DEFINE g == ChoosePartition(buf, PickSeeds(buf))
             D == DOMAIN buf
  <1>0. buf \in Seq(BranchType(l))
    BY DEF GoodBranches
  <1>1. /\ g[1] \in SUBSET D /\ g[2] \in SUBSET D /\ g[1] \union g[2] = D /\ g[1] \cap g[2] = {}
        /\ \A i \in 1 .. 2 : /\ IsFiniteSet(g[i]) /\ Cardinality(g[i]) \in Nat
                             /\ Cardinality(g[i]) >= MIN_NODES /\ Cardinality(g[i]) <= MAX_NODES
    BY <1>0, PartitionDealt
  <1>2. SplitNode(node, buf) = Grown(Load(buf, g[1], l), <<Load(buf, g[2], l)>>)
    BY DEF SplitNode, Split
  <1> HIDE DEF g
  <1>3. ASSUME NEW group \in SUBSET D, Cardinality(group) \in Nat,
               Cardinality(group) >= MIN_NODES, Cardinality(group) <= MAX_NODES
        PROVE  /\ Sound(l, Load(buf, group, l))
               /\ Count(Load(buf, group, l)) >= MIN_NODES
               /\ Entries(Load(buf, group, l)) = UNION {Under(l, buf[i]) : i \in group}
               /\ RectsOf(Load(buf, group, l)) = {buf[i].rect : i \in group}
               /\ Load(buf, group, l) \in Node[l]
    <2>1. PICK s : Load(buf, group, l) = [level |-> l, branch |-> s] /\ Selection(s, l, buf, group)
      BY <1>0, LoadSelects
    <2>2. /\ GoodBranches(l, s) /\ UnderAll(l, s) = UNION {Under(l, buf[i]) : i \in group}
          /\ RectsIn(s) = {buf[i].rect : i \in group} /\ Len(s) = Cardinality(group)
      BY <2>1, BranchesSelect
    <2> DEFINE new == [level |-> l, branch |-> s]
    <2>3. Len(s) <= MAX_NODES
      BY <2>2, <1>3
    <2>4. /\ Sound(l, new) /\ Count(new) = Len(s) /\ Entries(new) = UnderAll(l, s) /\ RectsOf(new) = RectsIn(s)
          /\ new \in Node[l]
      BY <2>2, <2>3, SoundMade
    <2> HIDE DEF new
    <2>5. Load(buf, group, l) = new
      BY <2>1 DEF new
    <2> QED BY <2>2, <2>4, <2>5, <1>3
  <1> DEFINE a == Load(buf, g[1], l)
             b == Load(buf, g[2], l)
  <1>4. /\ Sound(l, a) /\ Count(a) >= MIN_NODES /\ Entries(a) = UNION {Under(l, buf[i]) : i \in g[1]}
        /\ RectsOf(a) = {buf[i].rect : i \in g[1]} /\ a \in Node[l]
    <2>1. 1 \in 1 .. 2
      OBVIOUS
    <2> QED BY <2>1, <1>1, <1>3
  <1>5. /\ Sound(l, b) /\ Count(b) >= MIN_NODES /\ Entries(b) = UNION {Under(l, buf[i]) : i \in g[2]}
        /\ RectsOf(b) = {buf[i].rect : i \in g[2]} /\ b \in Node[l]
    <2>1. 2 \in 1 .. 2
      OBVIOUS
    <2> QED BY <2>1, <1>1, <1>3
  <1> HIDE DEF a, b
  <1>6. Entries(a) \union Entries(b) = UnderAll(l, buf)
    BY <1>1, <1>4, <1>5 DEF UnderAll
  <1>7. Apart(Entries(a), Entries(b))
    <2>1. \A i \in g[1], j \in g[2] : Apart(Under(l, buf[i]), Under(l, buf[j]))
      <3> SUFFICES ASSUME NEW i \in g[1], NEW j \in g[2] PROVE Apart(Under(l, buf[i]), Under(l, buf[j]))
        OBVIOUS
      <3>1. i # j /\ i \in D /\ j \in D
        BY <1>1
      <3> QED BY <3>1 DEF GoodBranches
    <2> QED BY <2>1, <1>4, <1>5 DEF Apart
  <1>8. CombineRect(NodeCover(a), NodeCover(b)) = Cover(RectsIn(buf))
    <2>1. Count(a) # 0 /\ Count(b) # 0
      BY <1>4, <1>5, MinNodes
    <2>2. /\ RectsOf(a) \in SUBSET RectType /\ IsFiniteSet(RectsOf(a)) /\ RectsOf(a) # {} /\ NodeCover(a) = Cover(RectsOf(a))
          /\ RectsOf(b) \in SUBSET RectType /\ IsFiniteSet(RectsOf(b)) /\ RectsOf(b) # {} /\ NodeCover(b) = Cover(RectsOf(b))
      BY <2>1, <1>4, <1>5, NodeCoverType
    <2>3. RectsOf(a) \union RectsOf(b) = RectsIn(buf)
      BY <1>1, <1>4, <1>5 DEF RectsIn
    <2> QED BY <2>2, <2>3, CoverUnion
  <1> DEFINE r == SplitNode(node, buf)
  <1>9. r.node = a /\ r.sibling = <<b>>
    BY <1>2 DEF Grown, a, b
  <1> HIDE DEF r
  <1>10. InsertOutcome(l, count, UnderAll(l, buf), RectsIn(buf), r)
    BY <1>4, <1>5, <1>6, <1>7, <1>8, <1>9 DEF InsertOutcome
  <1> QED BY <1>10 DEF r

\* addBranch, with or without a split.
LEMMA AddOutcome ==
    ASSUME NEW l \in Nat, NEW node, Sound(l, node), NEW b, GoodBranch(l, b),
           Apart(Under(l, b), Entries(node))
    PROVE  InsertOutcome(l, Count(node) + 1, Entries(node) \union Under(l, b),
                         RectsOf(node) \union {b.rect}, AddBranch(b, node))
  <1> DEFINE s == node.branch
             t == Append(s, b)
  <1>1. /\ node \in Node[l] /\ node.level = l /\ node = [level |-> l, branch |-> s]
        /\ GoodBranches(l, s) /\ Count(node) = Len(s) /\ Count(node) \in Nat /\ Count(node) <= MAX_NODES
        /\ Entries(node) = UnderAll(l, s) /\ RectsOf(node) = RectsIn(s)
    BY SoundFields
  <1>2. Apart(Under(l, b), UnderAll(l, s))
    BY <1>1, Zenon
  <1>3. /\ GoodBranches(l, t) /\ UnderAll(l, t) = UnderAll(l, s) \union Under(l, b)
        /\ RectsIn(t) = RectsIn(s) \union {b.rect} /\ Len(t) = Len(s) + 1
    BY <1>1, <1>2, BranchesAppend
  <1>4. CASE Count(node) < MAX_NODES
    <2> DEFINE new == [level |-> l, branch |-> t]
               r == Grown(new, <<>>)
    <2>1. AddBranch(b, node) = r
      <3>1. [node EXCEPT !.branch = Append(@, b)] = new
        BY SMTT(30), <1>1
      <3> QED BY <3>1, <1>4 DEF AddBranch
    <2>2. Len(t) <= MAX_NODES
      BY <1>1, <1>3, <1>4, MinNodes
    <2>3. /\ Sound(l, new) /\ Count(new) = Len(t) /\ Entries(new) = UnderAll(l, t) /\ RectsOf(new) = RectsIn(t)
      BY <1>3, <2>2, SoundMade
    <2>4. r.node = new /\ r.sibling = <<>>
      BY DEF Grown
    <2> HIDE DEF new, r, t
    <2>5. Count(new) = Count(node) + 1 /\ Count(new) >= 1
      BY <2>3, <1>1, <1>3
    <2>6. NodeCover(new) = Cover(RectsOf(node) \union {b.rect}) /\ Entries(new) = Entries(node) \union Under(l, b)
      BY <2>3, <1>1, <1>3 DEF NodeCover
    <2> DEFINE es == Entries(node) \union Under(l, b)
               rs == RectsOf(node) \union {b.rect}
    <2>7. NodeCover(new) = Cover(rs) /\ Entries(new) = es /\ Count(new) >= Count(node) + 1
      BY <2>5, <2>6, <1>1
    <2> HIDE DEF es, rs
    <2>8. InsertOutcome(l, Count(node) + 1, es, rs, r)
      BY <2>3, <2>4, <2>5, <2>7 DEF InsertOutcome
    <2> QED BY <2>1, <2>8 DEF es, rs
  <1>5. CASE ~(Count(node) < MAX_NODES)
    <2>1. AddBranch(b, node) = SplitNode(node, t)
      BY <1>5 DEF AddBranch
    <2>2. Len(t) = MAX_NODES + 1
      BY <1>1, <1>3, <1>5, MinNodes
    <2> HIDE DEF t
    <2>3. InsertOutcome(l, Count(node) + 1, UnderAll(l, t), RectsIn(t), SplitNode(node, t))
      BY <1>1, <1>3, <2>2, SplitOutcome
    <2>4. UnderAll(l, t) = Entries(node) \union Under(l, b) /\ RectsIn(t) = RectsOf(node) \union {b.rect}
      BY <1>1, <1>3
    <2> DEFINE es == Entries(node) \union Under(l, b)
               rs == RectsOf(node) \union {b.rect}
    <2>5. UnderAll(l, t) = es /\ RectsIn(t) = rs
      BY <2>4
    <2> HIDE DEF es, rs, s
    <2>6. InsertOutcome(l, Count(node) + 1, es, rs, AddBranch(b, node))
      BY <2>1, <2>3, <2>5
    <2> QED BY <2>6 DEF es, rs
  <1> QED BY <1>4, <1>5

\* The outcome depends on the rectangles only by their cover.
LEMMA OutcomeLike ==
    ASSUME NEW l \in Nat, NEW n \in Nat, NEW es, NEW rs, NEW g, InsertOutcome(l, n, es, rs, g),
           NEW m \in Nat, m <= n, NEW ss, Cover(ss) = Cover(rs)
    PROVE  InsertOutcome(l, m, es, ss, g)
  <1>1. Count(g.node) \in Nat
    <2>1. Sound(l, g.node)
      BY DEF InsertOutcome
    <2> QED BY <2>1, SoundFields
  <1> QED BY <1>1 DEF InsertOutcome

\* pickBranch picks one of the branches.
LEMMA PickBranchIs ==
    ASSUME NEW l \in Nat, NEW node \in Node[l], Count(node) # 0, NEW rect \in RectType
    PROVE  PickBranch(rect, node) \in Positions(node)
  <1> DEFINE P == Positions(node)
             volume(i) == RectVolume(node.branch[i].rect)
             growth == [i \in P |-> RectVolume(CombineRect(rect, node.branch[i].rect)) - volume(i)]
             least == Least(growth)
             volumes == [i \in least |-> volume(i)]
  <1>1. /\ node.branch \in Seq(BranchType(l)) /\ Count(node) = Len(node.branch) /\ Count(node) \in Nat
        /\ P = 1 .. Count(node)
    BY NodeFields
  <1>2. P \in SUBSET Int /\ IsFiniteSet(P) /\ \A i \in P : node.branch[i].rect \in RectType
    BY <1>1, BufferFields DEF Positions
  <1>3. P # {}
    <2>1. 1 \in P
      BY <1>1
    <2> QED BY <2>1
  <1>4. \A i \in P : volume(i) \in Int /\ RectVolume(CombineRect(rect, node.branch[i].rect)) \in Int
    BY <1>2, CombineType, VolumeType
  <1> HIDE DEF P
  <1>5. growth \in [P -> Int]
    BY <1>4
  <1>6. least \in SUBSET P /\ least # {} /\ IsFiniteSet(least)
    <2> HIDE DEF growth
    <2> QED BY <1>2, <1>3, <1>5, LeastIs
  <1> HIDE DEF least
  <1>7. volumes \in [least -> Int] /\ least \in SUBSET Int
    BY <1>2, <1>4, <1>6
  <1>8. Min(Least(volumes)) \in least
    <2> HIDE DEF volumes
    <2> QED BY <1>6, <1>7, FirstLeast
  <1>9. PickBranch(rect, node) = Min(Least(volumes))
    BY DEF PickBranch, least, growth, P
  <1> HIDE DEF volumes
  <1> QED BY <1>6, <1>8, <1>9 DEF P

\* A branch of a sound node above the leaves.
LEMMA SoundChild ==
    ASSUME NEW l \in Nat \ {0}, NEW node, Sound(l, node), NEW i \in Positions(node)
    PROVE  /\ l - 1 \in Nat /\ Sound(l - 1, node.branch[i].child)
           /\ node.branch[i].rect = NodeCover(node.branch[i].child)
           /\ Count(node.branch[i].child) >= MIN_NODES
           /\ Under(l, node.branch[i]) = Entries(node.branch[i].child)
           /\ Entries(node.branch[i].child) \subseteq Entries(node)
           /\ node.branch[i].child \in Node[l - 1]
  <1>1. GoodBranches(l, node.branch) /\ Positions(node) = DOMAIN node.branch /\ Entries(node) = UnderAll(l, node.branch)
    BY SoundFields
  <1>2. GoodBranch(l, node.branch[i])
    BY <1>1 DEF GoodBranches
  <1>3. Under(l, node.branch[i]) = Entries(node.branch[i].child)
    BY DEF Under
  <1>4. Under(l, node.branch[i]) \subseteq UnderAll(l, node.branch)
    BY <1>1 DEF UnderAll
  <1>5. l # 0 /\ l - 1 \in Nat
    OBVIOUS
  <1> QED BY <1>1, <1>2, <1>3, <1>4, <1>5 DEF GoodBranch, Sound

\* The node with one branch replaced.
LEMMA NodeReplaced ==
    ASSUME NEW l, NEW s, NEW node, node = [level |-> l, branch |-> s], NEW i, NEW b
    PROVE  [node EXCEPT !.branch[i] = b] = [level |-> l, branch |-> [s EXCEPT ![i] = b]]
  OBVIOUS

\* A sound node with one of its branches replaced.
LEMMA SoundReplaced ==
    ASSUME NEW l \in Nat, NEW node, Sound(l, node), NEW i \in Positions(node), NEW b, GoodBranch(l, b),
           \A j \in Positions(node) \ {i} : Apart(Under(l, b), Under(l, node.branch[j])),
           NEW new, new = [node EXCEPT !.branch[i] = b]
    PROVE  /\ Sound(l, new) /\ Count(new) = Count(node) /\ new.level = l /\ new \in Node[l]
           /\ Entries(new) = Under(l, b) \union UNION {Under(l, node.branch[j]) : j \in Positions(node) \ {i}}
           /\ RectsOf(new) = {b.rect} \union {node.branch[j].rect : j \in Positions(node) \ {i}}
  <1> DEFINE s == node.branch
             t == [s EXCEPT ![i] = b]
             made == [level |-> l, branch |-> t]
  <1>1. /\ node = [level |-> l, branch |-> s] /\ GoodBranches(l, s) /\ Positions(node) = DOMAIN s
        /\ Count(node) = Len(s) /\ Count(node) <= MAX_NODES
    BY SoundFields
  <1>2. new = made
    <2>0. node = [level |-> l, branch |-> s]
      BY <1>1
    <2> HIDE DEF s
    <2>1. [node EXCEPT !.branch[i] = b] = made
      BY <2>0, NodeReplaced
    <2> QED BY <2>1
  <1>3. /\ GoodBranches(l, t) /\ Len(t) = Len(s)
        /\ UnderAll(l, t) = Under(l, b) \union UNION {Under(l, s[j]) : j \in (DOMAIN s) \ {i}}
        /\ RectsIn(t) = {b.rect} \union {s[j].rect : j \in (DOMAIN s) \ {i}}
    <2>1. \A j \in (DOMAIN s) \ {i} : Apart(Under(l, b), Under(l, s[j]))
      BY <1>1
    <2>2. i \in DOMAIN s
      BY <1>1
    <2> HIDE DEF s
    <2>3. GoodBranches(l, s)
      BY <1>1
    <2>4. GoodBranches(l, t)
      BY <2>1, <2>2, <2>3, BranchesReplace
    <2>5. UnderAll(l, t) = Under(l, b) \union UNION {Under(l, s[j]) : j \in (DOMAIN s) \ {i}}
      BY <2>1, <2>2, <2>3, BranchesReplace
    <2>6. RectsIn(t) = {b.rect} \union {s[j].rect : j \in (DOMAIN s) \ {i}}
      BY <2>1, <2>2, <2>3, BranchesReplace
    <2>7. Len(t) = Len(s)
      BY <2>1, <2>2, <2>3, BranchesReplace
    <2> QED BY <2>4, <2>5, <2>6, <2>7
  <1>4. Len(t) <= MAX_NODES
    BY <1>1, <1>3
  <1> HIDE DEF t
  <1>5. /\ Sound(l, made) /\ Count(made) = Len(t) /\ made.level = l /\ made \in Node[l]
        /\ Entries(made) = UnderAll(l, t) /\ RectsOf(made) = RectsIn(t)
    BY <1>3, <1>4, SoundMade
  <1> HIDE DEF made
  <1> QED BY <1>1, <1>2, <1>3, <1>5

\* The way back up from a child the branch was inserted under.
LEMMA AfterInsertionOutcome ==
    ASSUME NEW l \in Nat \ {0}, NEW node, Sound(l, node), NEW i \in Positions(node), NEW rect \in RectType,
           NEW es, Apart(es, Entries(node)), NEW sub,
           InsertOutcome(l - 1, Count(node.branch[i].child), Entries(node.branch[i].child) \union es,
                         RectsOf(node.branch[i].child) \union {rect}, sub)
    PROVE  InsertOutcome(l, Count(node), Entries(node) \union es, RectsOf(node) \union {rect},
                         AfterInsertion(rect, node, i, sub))
  <1> DEFINE child == node.branch[i].child
             old == node.branch[i].rect
             others == UNION {Under(l, node.branch[j]) : j \in Positions(node) \ {i}}
             os == {node.branch[j].rect : j \in Positions(node) \ {i}}
             grown == CombineRect(rect, old)
  <1>1. /\ GoodBranches(l, node.branch) /\ Positions(node) = DOMAIN node.branch /\ node \in Node[l]
        /\ Entries(node) = UnderAll(l, node.branch) /\ RectsOf(node) = RectsIn(node.branch)
        /\ Count(node) \in Nat
    BY SoundFields
  <1>2. /\ l - 1 \in Nat /\ Sound(l - 1, child) /\ old = NodeCover(child) /\ Count(child) >= MIN_NODES
        /\ Under(l, node.branch[i]) = Entries(child) /\ child \in Node[l - 1] /\ Count(child) \in Nat
    <2>1. l - 1 \in Nat /\ Sound(l - 1, child)
      BY SoundChild
    <2>2. Count(child) \in Nat
      BY <2>1, SoundFields
    <2> QED BY <2>1, <2>2, SoundChild
  <1>3. Entries(node) = Entries(child) \union others /\ RectsOf(node) = {old} \union os
    <2>1. UnderAll(l, node.branch) = Under(l, node.branch[i]) \union others
      BY <1>1 DEF UnderAll
    <2>2. RectsIn(node.branch) = {old} \union os
      BY <1>1 DEF RectsIn
    <2> QED BY <1>1, <1>2, <2>1, <2>2
  <1>4. ASSUME NEW fs, fs \subseteq Entries(child) \union es
        PROVE  /\ \A j \in Positions(node) \ {i} : Apart(fs, Under(l, node.branch[j]))
               /\ Apart(fs, others)
    <2>1. ASSUME NEW j \in Positions(node) \ {i} PROVE Apart(fs, Under(l, node.branch[j]))
      <3>1. Apart(Under(l, node.branch[i]), Under(l, node.branch[j]))
        BY <1>1 DEF GoodBranches
      <3>2. Under(l, node.branch[j]) \subseteq Entries(node)
        BY <1>1 DEF UnderAll
      <3> QED BY <3>1, <3>2, <1>2, <1>4 DEF Apart
    <2> QED BY <2>1 DEF Apart
  <1>5. os \in SUBSET RectType /\ IsFiniteSet(os) /\ old \in RectType /\ grown \in RectType
    <2>1. RectsOf(node) \in SUBSET RectType /\ IsFiniteSet(RectsOf(node))
      BY <1>1, NodeCoverType
    <2>2. IsFiniteSet(os)
      BY <2>1, <1>3, FS_Subset
    <2>3. os \in SUBSET RectType /\ old \in RectType
      BY <2>1, <1>3
    <2> QED BY <2>2, <2>3, CombineType
  <1>6. Cover(RectsOf(child) \union {rect}) = grown
    <2>1. Count(child) # 0
      BY <1>2, MinNodes
    <2>2. RectsOf(child) \in SUBSET RectType /\ IsFiniteSet(RectsOf(child)) /\ RectsOf(child) # {} /\ NodeCover(child) = Cover(RectsOf(child))
      BY <1>2, <2>1, NodeCoverType
    <2> QED BY <2>2, <1>2, CoverWith
  <1>7. Cover(os \union {grown}) = Cover(RectsOf(node) \union {rect})
    <2>1. Cover(os \union {rect, old}) = Cover(os \union {grown})
      <3> HIDE DEF os, old
      <3> QED BY <1>5, CoverPair
    <2>2. os \union {rect, old} = RectsOf(node) \union {rect}
      BY <1>3
    <2> QED BY <2>1, <2>2
  <1> DEFINE nb == BranchOf(sub.node)
             node2 == [node EXCEPT !.branch[i] = nb]
  <1>8. ASSUME Sound(l - 1, sub.node), Count(sub.node) >= MIN_NODES, Entries(sub.node) \subseteq Entries(child) \union es
        PROVE  /\ Sound(l, node2) /\ Count(node2) = Count(node) /\ node2 \in Node[l]
               /\ Entries(node2) = Entries(sub.node) \union others
               /\ RectsOf(node2) = {NodeCover(sub.node)} \union os
    <2>1. GoodBranch((l - 1) + 1, nb) /\ Under((l - 1) + 1, nb) = Entries(sub.node) /\ nb.rect = NodeCover(sub.node)
      BY <1>2, <1>8, GoodBranchOf
    <2>2. (l - 1) + 1 = l
      OBVIOUS
    <2>3. GoodBranch(l, nb) /\ Under(l, nb) = Entries(sub.node)
      BY <2>1, <2>2
    <2>4. \A j \in Positions(node) \ {i} : Apart(Under(l, nb), Under(l, node.branch[j]))
      BY <2>3, <1>4, <1>8
    <2> HIDE DEF nb
    <2>5. /\ Sound(l, node2) /\ Count(node2) = Count(node) /\ node2 \in Node[l]
          /\ Entries(node2) = Under(l, nb) \union others
          /\ RectsOf(node2) = {nb.rect} \union os
      <3> HIDE DEF others, os
      <3>1. l \in Nat /\ node2 = [node EXCEPT !.branch[i] = nb]
        OBVIOUS
      <3> HIDE DEF node2
      <3> USE DEF others, os
      <3>2. Sound(l, node2) /\ Count(node2) = Count(node)
        BY <2>3, <2>4, <3>1, SoundReplaced
      <3>3. node2 \in Node[l]
        BY <3>2 DEF Sound
      <3>4. Entries(node2) = Under(l, nb) \union others
        BY <2>3, <2>4, <3>1, SoundReplaced
      <3>5. RectsOf(node2) = {nb.rect} \union os
        BY <2>3, <2>4, <3>1, SoundReplaced
      <3> QED BY <3>2, <3>3, <3>4, <3>5
    <2> QED BY <2>1, <2>3, <2>5
  <1> HIDE DEF others, os, nb, child, grown, old
  <1>9. CASE sub.sibling = <<>>
    <2>1. /\ Sound(l - 1, sub.node) /\ Entries(sub.node) = Entries(child) \union es /\ Count(sub.node) >= Count(child)
          /\ NodeCover(sub.node) = grown
      BY <1>9, <1>6 DEF InsertOutcome, child
    <2>2. Count(sub.node) >= MIN_NODES
      <3>1. Count(sub.node) \in Nat
        BY <2>1, <1>2, SoundFields
      <3> QED BY <3>1, <2>1, <1>2, MinNodes
    <2>3. /\ Sound(l, node2) /\ Count(node2) = Count(node) /\ Entries(node2) = Entries(sub.node) \union others
          /\ RectsOf(node2) = {NodeCover(sub.node)} \union os
      BY <2>1, <2>2, <1>8
    <2> DEFINE r == Grown(node2, <<>>)
    <2>4. AfterInsertion(rect, node, i, sub) = r
      <3>1. nb = [rect |-> CombineRect(rect, node.branch[i].rect), child |-> sub.node]
        BY <2>1 DEF BranchOf, nb, grown, old
      <3>2. \A x : x = [rect |-> CombineRect(rect, node.branch[i].rect), child |-> sub.node]
                     => [node EXCEPT !.branch[i] = [rect |-> CombineRect(rect, @.rect), child |-> sub.node]]
                          = [node EXCEPT !.branch[i] = x]
        <4>1. node = [level |-> l, branch |-> node.branch] /\ i \in DOMAIN node.branch /\ node.branch \in Seq(BranchType(l))
          BY <1>1, NodeFields
        <4> QED BY <4>1
      <3>3. [node EXCEPT !.branch[i] = [rect |-> CombineRect(rect, @.rect), child |-> sub.node]] = node2
        BY <3>1, <3>2, Zenon
      <3> QED BY <3>3, <1>9, Zenon DEF AfterInsertion
    <2>5. r.node = node2 /\ r.sibling = <<>>
      BY DEF Grown
    <2> HIDE DEF r, node2
    <2>6. Entries(node2) = Entries(node) \union es
      BY <2>1, <2>3, <1>3
    <2>7. NodeCover(node2) = Cover(RectsOf(node) \union {rect})
      <3>1. RectsOf(node2) = os \union {grown}
        BY <2>1, <2>3
      <3> QED BY <3>1, <1>7 DEF NodeCover
    <2>8. Count(node2) >= Count(node) /\ Count(node2) >= 1
      <3>1. Positions(node) = 1 .. Count(node)
        BY <1>1, NodeFields
      <3> QED BY <3>1, <1>1, <2>3
    <2> DEFINE fs == Entries(node) \union es
               rs == RectsOf(node) \union {rect}
    <2> HIDE DEF fs, rs
    <2>9. Entries(node2) = fs /\ NodeCover(node2) = Cover(rs)
      BY <2>6, <2>7 DEF fs, rs
    <2>10. InsertOutcome(l, Count(node), fs, rs, r)
      BY <2>3, <2>5, <2>8, <2>9 DEF InsertOutcome
    <2> QED BY <2>4, <2>10 DEF fs, rs
  <1>10. CASE sub.sibling # <<>>
    <2>1. PICK sibling :
             /\ sub.sibling = <<sibling>>
             /\ Sound(l - 1, sub.node) /\ Sound(l - 1, sibling)
             /\ Count(sub.node) >= MIN_NODES /\ Count(sibling) >= MIN_NODES
             /\ Entries(sub.node) \union Entries(sibling) = Entries(child) \union es
             /\ Apart(Entries(sub.node), Entries(sibling))
             /\ CombineRect(NodeCover(sub.node), NodeCover(sibling)) = grown
      BY <1>10, <1>6 DEF InsertOutcome, child
    <2>2. /\ Sound(l, node2) /\ Count(node2) = Count(node) /\ Entries(node2) = Entries(sub.node) \union others
          /\ RectsOf(node2) = {NodeCover(sub.node)} \union os
      BY <2>1, <1>8
    <2> DEFINE sb == BranchOf(sibling)
               g == AddBranch(sb, node2)
    <2>3. AfterInsertion(rect, node, i, sub) = g
      <3>1. sub.sibling[1] = sibling
        BY <2>1
      <3> QED BY <3>1, <1>10 DEF AfterInsertion, nb
    <2>4. GoodBranch(l, sb) /\ Under(l, sb) = Entries(sibling) /\ sb.rect = NodeCover(sibling)
      <3>1. GoodBranch((l - 1) + 1, sb) /\ Under((l - 1) + 1, sb) = Entries(sibling) /\ sb.rect = NodeCover(sibling)
        BY <2>1, <1>2, GoodBranchOf
      <3>2. (l - 1) + 1 = l
        OBVIOUS
      <3> QED BY <3>1, <3>2
    <2> HIDE DEF sb, node2
    <2>5. Apart(Under(l, sb), Entries(node2))
      <3>1. Apart(Entries(sibling), others)
        BY <2>1, <1>4
      <3>2. Apart(Entries(sibling), Entries(sub.node))
        BY <2>1 DEF Apart
      <3> QED BY <3>1, <3>2, <2>2, <2>4 DEF Apart
    <2>6. InsertOutcome(l, Count(node2) + 1, Entries(node2) \union Under(l, sb), RectsOf(node2) \union {sb.rect}, g)
      BY <2>2, <2>4, <2>5, AddOutcome
    <2>7. Entries(node2) \union Under(l, sb) = Entries(node) \union es
      BY <2>1, <2>2, <2>4, <1>3
    <2>8. Cover(RectsOf(node2) \union {sb.rect}) = Cover(RectsOf(node) \union {rect})
      <3> DEFINE a == NodeCover(sub.node)
                 b == NodeCover(sibling)
      <3>1. a \in RectType /\ b \in RectType
        BY <2>1, <1>2, NodeCoverType DEF Sound
      <3>2. RectsOf(node2) \union {sb.rect} = os \union {a, b}
        BY <2>2, <2>4
      <3>3. CombineRect(a, b) = grown
        BY <2>1
      <3> HIDE DEF a, b
      <3>4. Cover(os \union {a, b}) = Cover(os \union {CombineRect(a, b)})
        BY <3>1, <1>5, CoverPair
      <3> QED BY <3>2, <3>3, <3>4, <1>7
    <2> DEFINE fs == Entries(node) \union es
               rs == RectsOf(node) \union {rect}
               ss == RectsOf(node2) \union {sb.rect}
    <2>9. InsertOutcome(l, Count(node2) + 1, fs, ss, g) /\ Cover(rs) = Cover(ss)
      BY <2>6, <2>7, <2>8
    <2>10. Count(node) <= Count(node2) + 1 /\ Count(node2) + 1 \in Nat /\ l \in Nat
      BY <1>1, <2>2
    <2> HIDE DEF fs, rs, ss, g
    <2>11. InsertOutcome(l, Count(node), fs, rs, g)
      BY <2>9, <2>10, <1>1, OutcomeLike
    <2> QED BY <2>3, <2>11 DEF fs, rs
  <1> QED BY <1>9, <1>10

\* insertRectRec puts a branch among those of a node of its level.
LEMMA InsertRecOutcome ==
    ASSUME NEW k \in Nat, NEW b, GoodBranch(k, b), NEW l \in Nat, k <= l,
           NEW node, Sound(l, node), k < l => Count(node) # 0,
           Apart(Under(k, b), Entries(node))
    PROVE  InsertOutcome(l, Count(node), Entries(node) \union Under(k, b), RectsOf(node) \union {b.rect},
                         InsertRectRec(b, node, k))
  <1> DEFINE P(n, x) ==
                Sound(n, x) /\ (k < n => Count(x) # 0) /\ Apart(Under(k, b), Entries(x)) =>
                   InsertOutcome(n, Count(x), Entries(x) \union Under(k, b), RectsOf(x) \union {b.rect},
                                 InsertRectRec(b, x, k))
             S == {n \in Nat : k <= n => \A x \in Node[n] : P(n, x)}
  <1>0. b.rect \in RectType
    BY BranchRect DEF GoodBranch
  <1>1. ASSUME NEW x \in Node[k] PROVE P(k, x)
    <2> SUFFICES ASSUME Sound(k, x), Apart(Under(k, b), Entries(x))
                 PROVE  InsertOutcome(k, Count(x), Entries(x) \union Under(k, b), RectsOf(x) \union {b.rect},
                                      InsertRectRec(b, x, k))
      OBVIOUS
    <2>1. InsertRectRec(b, x, k) = AddBranch(b, x)
      BY InsertIs
    <2> DEFINE es == Entries(x) \union Under(k, b)
               rs == RectsOf(x) \union {b.rect}
               g == AddBranch(b, x)
    <2>2. InsertOutcome(k, Count(x) + 1, es, rs, g)
      BY AddOutcome
    <2>3. Count(x) \in Nat /\ Count(x) + 1 \in Nat /\ Count(x) <= Count(x) + 1
      BY SoundFields
    <2> HIDE DEF es, rs, g
    <2>4. InsertOutcome(k, Count(x), es, rs, g)
      BY <2>2, <2>3, OutcomeLike
    <2> QED BY <2>1, <2>4 DEF es, rs, g
  <1>2. ASSUME NEW n \in Nat, n \in S PROVE n + 1 \in S
    <2> SUFFICES ASSUME k <= n + 1, NEW x \in Node[n + 1] PROVE P(n + 1, x)
      BY <1>2
    <2>1. CASE k = n + 1
      BY <2>1, <1>1
    <2>2. CASE k # n + 1
      <3> SUFFICES ASSUME Sound(n + 1, x), Count(x) # 0, Apart(Under(k, b), Entries(x))
                   PROVE  InsertOutcome(n + 1, Count(x), Entries(x) \union Under(k, b), RectsOf(x) \union {b.rect},
                                        InsertRectRec(b, x, k))
        BY <2>2, <1>2
      <3>1. n + 1 \in Nat \ {0} /\ (n + 1) - 1 = n /\ k <= n /\ n + 1 \in Nat /\ n + 1 > k
        BY <2>2
      <3> DEFINE i == PickBranch(b.rect, x)
                 child == x.branch[i].child
                 sub == InsertRectRec(b, child, k)
      <3>2. i \in Positions(x)
        BY <3>1, <1>0, PickBranchIs
      <3>3. InsertRectRec(b, x, k) = AfterInsertion(b.rect, x, i, sub)
        BY <3>1, <3>2, InsertIs
      <3> HIDE DEF i
      <3>4. /\ Sound((n + 1) - 1, child) /\ Count(child) >= MIN_NODES
            /\ Entries(child) \subseteq Entries(x) /\ child \in Node[(n + 1) - 1]
        BY <3>1, <3>2, SoundChild
      <3>5. Apart(Under(k, b), Entries(child)) /\ Count(child) # 0
        <4>1. Count(child) # 0
          BY <3>4, MinNodes
        <4> QED BY <3>4, <4>1 DEF Apart
      <3>6. P(n, child)
        BY <1>2, <3>1, <3>4
      <3>7. InsertOutcome((n + 1) - 1, Count(child), Entries(child) \union Under(k, b), RectsOf(child) \union {b.rect}, sub)
        BY <3>1, <3>4, <3>5, <3>6
      <3> HIDE DEF sub
      <3>8. InsertOutcome(n + 1, Count(x), Entries(x) \union Under(k, b), RectsOf(x) \union {b.rect},
                          AfterInsertion(b.rect, x, i, sub))
        BY <3>1, <3>2, <3>7, <1>0, AfterInsertionOutcome
      <3> QED BY <3>3, <3>8, Zenon
    <2> QED BY <2>1, <2>2
  <1>3. 0 \in S
    <2>1. CASE k = 0
      BY <2>1, <1>1
    <2>2. CASE k # 0
      BY <2>2
    <2> QED BY <2>1, <2>2
  <1>4. Nat \subseteq S
    <2> HIDE DEF S
    <2> QED BY <1>2, <1>3, NatSubset
  <1>5. node \in Node[l]
    BY DEF Sound
  <1>6. P(l, node)
    BY <1>4, <1>5
  <1> QED BY <1>6

\* insertRect: the tree keeps its height and does not lose branches, or a new root is over two nodes.
LEMMA InsertRectIs ==
    ASSUME NEW k \in Nat, NEW b, GoodBranch(k, b), NEW l \in Nat, k <= l,
           NEW tree, Sound(l, tree), k < l => Count(tree) # 0,
           Apart(Under(k, b), Entries(tree))
    PROVE  LET new == InsertRect(tree, b, k)
           IN  /\ Entries(new) = Entries(tree) \union Under(k, b)
               /\ \/ Sound(l, new) /\ Count(new) >= Count(tree) /\ Count(new) >= 1
                  \/ Sound(l + 1, new) /\ Count(new) = 2
  <1> DEFINE g == InsertRectRec(b, tree, k)
             es == Entries(tree) \union Under(k, b)
  <1>1. InsertOutcome(l, Count(tree), es, RectsOf(tree) \union {b.rect}, g)
    BY InsertRecOutcome
  <1>2. InsertRect(tree, b, k) = GrowRoot(g)
    BY DEF InsertRect
  <1> HIDE DEF g, es
  <1>3. CASE g.sibling = <<>>
    <2>1. GrowRoot(g) = g.node
      BY <1>3 DEF GrowRoot
    <2>2. Sound(l, g.node) /\ Entries(g.node) = es /\ Count(g.node) >= Count(tree) /\ Count(g.node) >= 1
      BY <1>1, <1>3 DEF InsertOutcome
    <2> QED BY <1>2, <2>1, <2>2 DEF es
  <1>4. CASE g.sibling # <<>>
    <2>1. PICK sibling :
             /\ g.sibling = <<sibling>>
             /\ Sound(l, g.node) /\ Sound(l, sibling)
             /\ Count(g.node) >= MIN_NODES /\ Count(sibling) >= MIN_NODES
             /\ Entries(g.node) \union Entries(sibling) = es
             /\ Apart(Entries(g.node), Entries(sibling))
      BY <1>1, <1>4 DEF InsertOutcome
    <2> DEFINE a == BranchOf(g.node)
               c == BranchOf(sibling)
               s == <<a, c>>
               new == [level |-> l + 1, branch |-> s]
    <2>2. GrowRoot(g) = new
      <3>1. g.sibling[1] = sibling
        BY <2>1
      <3>2. g.node.level = l
        BY <2>1, SoundFields
      <3> QED BY <1>4, <3>1, <3>2 DEF GrowRoot
    <2>3. GoodBranch(l + 1, a) /\ Under(l + 1, a) = Entries(g.node)
      BY <2>1, GoodBranchOf
    <2>4. GoodBranch(l + 1, c) /\ Under(l + 1, c) = Entries(sibling)
      BY <2>1, GoodBranchOf
    <2> HIDE DEF a, c
    <2>5. /\ s \in Seq(BranchType(l + 1)) /\ Len(s) = 2 /\ DOMAIN s = {1, 2} /\ s[1] = a /\ s[2] = c
      <3>1. a \in BranchType(l + 1) /\ c \in BranchType(l + 1)
        BY <2>3, <2>4 DEF GoodBranch
      <3> QED BY <3>1
    <2> HIDE DEF s
    <2>6. GoodBranches(l + 1, s)
      <3>1. \A i \in DOMAIN s : GoodBranch(l + 1, s[i])
        BY <2>3, <2>4, <2>5
      <3>2. Apart(Entries(sibling), Entries(g.node))
        BY <2>1 DEF Apart
      <3>3. \A i, j \in DOMAIN s : i # j => Apart(Under(l + 1, s[i]), Under(l + 1, s[j]))
        BY <2>1, <2>3, <2>4, <2>5, <3>2
      <3> QED BY <3>1, <3>3, <2>5 DEF GoodBranches
    <2>7. UnderAll(l + 1, s) = es
      <3>1. UnderAll(l + 1, s) = Under(l + 1, a) \union Under(l + 1, c)
        BY <2>5 DEF UnderAll
      <3> QED BY <3>1, <2>1, <2>3, <2>4
    <2>8. Sound(l + 1, new) /\ Count(new) = Len(s) /\ Entries(new) = UnderAll(l + 1, s)
      <3>1. l + 1 \in Nat /\ Len(s) <= MAX_NODES
        BY <2>5, MinNodes
      <3> QED BY <3>1, <2>6, SoundMade
    <2> HIDE DEF new
    <2> QED BY <1>2, <2>2, <2>5, <2>7, <2>8 DEF es
  <1> QED BY <1>3, <1>4

-----------------------------------------------------------------------------
(***************************************************************************)
(* Removal.                                                                *)
(***************************************************************************)
\* A sequence with its last element moved into the place of one taken out.
LEMMA TailFilled ==
    ASSUME NEW l \in Nat, NEW s \in Seq(BranchType(l)), NEW i \in DOMAIN s
    PROVE  Selection(Front([s EXCEPT ![i] = Last(s)]), l, s, (DOMAIN s) \ {i})
  <1> DEFINE n == Len(s)
             t == Front([s EXCEPT ![i] = Last(s)])
             group == (DOMAIN s) \ {i}
             p == [j \in 1 .. n - 1 |-> IF j = i THEN n ELSE j]
  <1>1. n \in Nat /\ n >= 1 /\ DOMAIN s = 1 .. n /\ i \in 1 .. n
    OBVIOUS
  <1>2. Last(s) = s[n] /\ s[n] \in BranchType(l)
    BY <1>1 DEF Last
  <1> DEFINE u == [s EXCEPT ![i] = s[n]]
  <1>3. /\ u \in Seq(BranchType(l)) /\ Len(u) = n /\ u[i] = s[n]
        /\ \A j \in 1 .. n : j # i => u[j] = s[j]
    BY <1>1, <1>2
  <1>4. t = SubSeq(u, 1, n - 1)
    BY <1>2, <1>3 DEF Front
  <1> HIDE DEF u, t
  <1>5. t \in Seq(BranchType(l)) /\ Len(t) = n - 1 /\ \A j \in 1 .. n - 1 : t[j] = u[j]
    BY <1>1, <1>3, <1>4
  <1> HIDE DEF n
  <1>6. p \in [1 .. n - 1 -> group]
    <2> SUFFICES ASSUME NEW j \in 1 .. n - 1 PROVE p[j] \in group
      OBVIOUS
    <2> QED BY <1>1
  <1>7. \A j, k \in 1 .. n - 1 : p[j] = p[k] => j = k
    BY <1>1
  <1>8. \A m \in group : \E j \in 1 .. n - 1 : p[j] = m
    <2> SUFFICES ASSUME NEW m \in group PROVE \E j \in 1 .. n - 1 : p[j] = m
      OBVIOUS
    <2>1. CASE m = n
      <3>1. i \in 1 .. n - 1 /\ p[i] = m
        BY <2>1, <1>1
      <3> QED BY <3>1
    <2>2. CASE m # n
      <3>1. m \in 1 .. n - 1 /\ p[m] = m
        BY <2>2, <1>1
      <3> QED BY <3>1
    <2> QED BY <2>1, <2>2
  <1>9. \A j \in 1 .. n - 1 : t[j] = s[p[j]]
    <2> SUFFICES ASSUME NEW j \in 1 .. n - 1 PROVE t[j] = s[p[j]]
      OBVIOUS
    <2>1. j \in 1 .. n
      BY <1>1
    <2>2. CASE j = i
      BY <2>1, <2>2, <1>3, <1>5
    <2>3. CASE j # i
      BY <2>1, <2>3, <1>3, <1>5
    <2> QED BY <2>2, <2>3
  <1> HIDE DEF p, group
  <1>10. Selection(t, l, s, group)
    <2>1. p \in [1 .. Len(t) -> group]
      BY <1>5, <1>6, Zenon
    <2>2. /\ \A j, k \in 1 .. Len(t) : p[j] = p[k] => j = k
          /\ \A m \in group : \E j \in 1 .. Len(t) : p[j] = m
          /\ \A j \in 1 .. Len(t) : t[j] = s[p[j]]
      BY <1>5, <1>7, <1>8, <1>9
    <2> QED BY <1>5, <2>1, <2>2, Zenon DEF Selection
  <1> QED BY <1>10 DEF t, group

\* DisconnectBranch takes one branch out, and only that one.
LEMMA DisconnectIs ==
    ASSUME NEW l \in Nat, NEW node, Sound(l, node), NEW i \in Positions(node)
    PROVE  LET new == DisconnectBranch(node, i)
           IN  /\ Sound(l, new) /\ Count(new) = Count(node) - 1
               /\ Entries(new) = UNION {Under(l, node.branch[j]) : j \in Positions(node) \ {i}}
  <1> DEFINE s == node.branch
             t == Front([s EXCEPT ![i] = Last(s)])
             group == (DOMAIN s) \ {i}
             new == [level |-> l, branch |-> t]
  <1>1. /\ node = [level |-> l, branch |-> s] /\ GoodBranches(l, s) /\ Positions(node) = DOMAIN s
        /\ Count(node) = Len(s) /\ Count(node) <= MAX_NODES /\ s \in Seq(BranchType(l))
    BY SoundFields
  <1>2. DisconnectBranch(node, i) = new
    <2>1. DisconnectBranch(node, i) = [node EXCEPT !.branch = t]
      BY DEF DisconnectBranch
    <2> HIDE DEF t
    <2> QED BY <2>1, <1>1
  <1>3. Selection(t, l, s, group)
    BY <1>1, TailFilled
  <1> HIDE DEF t
  <1>4. group \in SUBSET DOMAIN s
    OBVIOUS
  <1>5. GoodBranches(l, t) /\ Len(t) = Cardinality(group)
    BY <1>1, <1>3, <1>4, BranchesSelect
  <1>6. UnderAll(l, t) = UNION {Under(l, s[j]) : j \in group}
    BY <1>1, <1>3, <1>4, BranchesSelect
  <1>7. Cardinality(group) = Len(s) - 1
    <2>1. IsFiniteSet(DOMAIN s) /\ Cardinality(DOMAIN s) = Len(s)
      BY <1>1, BufferFields
    <2>2. i \in DOMAIN s
      BY <1>1
    <2> QED BY <2>1, <2>2, FS_RemoveElement
  <1>8. Len(s) \in Nat /\ MAX_NODES \in Nat /\ Len(t) <= MAX_NODES
    BY <1>1, <1>5, <1>7, MinNodes
  <1>9. Sound(l, new) /\ Count(new) = Len(t) /\ Entries(new) = UnderAll(l, t)
    BY <1>5, <1>8, SoundMade
  <1> HIDE DEF new
  <1>10. Entries(new) = UNION {Under(l, node.branch[j]) : j \in Positions(node) \ {i}}
    BY <1>1, <1>6, <1>9
  <1>11. Count(new) = Count(node) - 1
    BY <1>1, <1>5, <1>7, <1>9
  <1> QED BY <1>2, <1>9, <1>10, <1>11

\* What a tree holds lies within its cover.
LEMMA EntriesWithin ==
    ASSUME NEW l \in Nat, NEW node, Sound(l, node), NEW e \in Entries(node)
    PROVE  e.rect \in RectType /\ Within(e.rect, NodeCover(node))
  <1> DEFINE P(n, x) == Sound(n, x) => \A f \in Entries(x) : f.rect \in RectType /\ Within(f.rect, NodeCover(x))
             S == {n \in Nat : \A x \in Node[n] : P(n, x)}
  <1>1. ASSUME NEW n \in Nat, NEW x, Sound(n, x), NEW i \in Positions(x)
        PROVE  x.branch[i].rect \in RectType /\ Within(x.branch[i].rect, NodeCover(x)) /\ NodeCover(x) \in RectType
    <2>1. x \in Node[n] /\ x.branch[i].rect \in RectsOf(x)
      <3>1. x \in Node[n]
        BY <1>1 DEF Sound
      <3> QED BY <3>1 DEF RectsOf
    <2>2. RectsOf(x) \in SUBSET RectType /\ IsFiniteSet(RectsOf(x)) /\ NodeCover(x) = Cover(RectsOf(x)) /\ NodeCover(x) \in RectType
      BY <2>1, NodeCoverType
    <2> QED BY <2>1, <2>2, CoverType
  <1>2. 0 \in S
    <2> SUFFICES ASSUME NEW x \in Node[0], Sound(0, x), NEW f \in Entries(x)
                 PROVE  f.rect \in RectType /\ Within(f.rect, NodeCover(x))
      OBVIOUS
    <2>1. Entries(x) = UnderAll(0, x.branch) /\ Positions(x) = DOMAIN x.branch
      BY SoundFields
    <2>2. PICK i \in Positions(x) : f = x.branch[i]
      BY <2>1 DEF UnderAll, Under
    <2> QED BY <2>2, <1>1
  <1>3. ASSUME NEW n \in Nat, n \in S PROVE n + 1 \in S
    <2> SUFFICES ASSUME NEW x \in Node[n + 1], Sound(n + 1, x), NEW f \in Entries(x)
                 PROVE  f.rect \in RectType /\ Within(f.rect, NodeCover(x))
      OBVIOUS
    <2>0. n + 1 \in Nat \ {0} /\ (n + 1) - 1 = n /\ n + 1 \in Nat
      OBVIOUS
    <2>1. Entries(x) = UnderAll(n + 1, x.branch) /\ Positions(x) = DOMAIN x.branch
      BY <2>0, SoundFields
    <2>2. PICK i \in Positions(x) : f \in Under(n + 1, x.branch[i])
      BY <2>1 DEF UnderAll
    <2> DEFINE child == x.branch[i].child
    <2>3. /\ Sound(n, child) /\ x.branch[i].rect = NodeCover(child)
          /\ Under(n + 1, x.branch[i]) = Entries(child) /\ child \in Node[n]
      BY <2>0, SoundChild
    <2>4. f.rect \in RectType /\ Within(f.rect, NodeCover(child))
      BY <2>2, <2>3, <1>3
    <2>5. x.branch[i].rect \in RectType /\ Within(x.branch[i].rect, NodeCover(x)) /\ NodeCover(x) \in RectType
      BY <2>0, <1>1
    <2> QED BY <2>3, <2>4, <2>5, WithinTransitive
  <1>4. Nat \subseteq S
    <2> HIDE DEF S
    <2> QED BY <1>2, <1>3, NatSubset
  <1> QED BY <1>4 DEF Sound

\* Entries that are in a node of level l and in nodes of lower levels that were taken out of it.
Scattered(l, es, node, underfull) ==
    /\ Sound(l, node)
    /\ underfull \in Seq(UNION {Node[m] : m \in Nat})
    /\ \A k \in DOMAIN underfull : \E m \in Nat : m < l /\ Sound(m, underfull[k])
    /\ \A k \in DOMAIN underfull : Apart(Entries(node), Entries(underfull[k]))
    /\ \A j, k \in DOMAIN underfull : j # k => Apart(Entries(underfull[j]), Entries(underfull[k]))
    /\ es = Entries(node) \union UNION {Entries(underfull[k]) : k \in DOMAIN underfull}

\* What removeRectRec does of a node: it is left as it was if no entry with the item overlaps
\* the rectangle, or the item is gone from it.
RemoveOutcome(l, node, rect, item, r) ==
    \/ /\ r.found = FALSE
       /\ r.node = node
       /\ \A e \in Entries(node) : ~(e.item = item /\ Overlap(rect, e.rect))
    \/ /\ r.found = TRUE
       /\ \E e \in Entries(node) : e.item = item
       /\ Scattered(l, {e \in Entries(node) : e.item # item}, r.node, r.underfull)
       /\ Count(r.node) >= Count(node) - 1

\* Removing from a leaf is as RemoveOutcome says.
LEMMA LeafRemoval ==
    ASSUME NEW node, Sound(0, node), NEW rect, NEW item
    PROVE  RemoveOutcome(0, node, rect, item, RemoveFromLeaf(item, node))
  <1> DEFINE P == Positions(node)
             at == {i \in P : node.branch[i].item = item}
             r == RemoveFromLeaf(item, node)
  <1>1. /\ GoodBranches(0, node.branch) /\ P = DOMAIN node.branch /\ P = 1 .. Count(node) /\ Count(node) \in Nat
        /\ Entries(node) = UnderAll(0, node.branch) /\ node.branch \in Seq(BranchType(0))
    BY SoundFields
  <1>2. Entries(node) = {node.branch[i] : i \in P}
    BY <1>1 DEF UnderAll, Under
  <1>3. CASE at = {}
    <2>1. r = NotFound(node)
      BY <1>3 DEF RemoveFromLeaf
    <2>2. r.found = FALSE /\ r.node = node
      BY <2>1 DEF NotFound, Removal
    <2>3. \A e \in Entries(node) : ~(e.item = item)
      BY <1>2, <1>3
    <2> HIDE DEF r
    <2>4. RemoveOutcome(0, node, rect, item, r)
      BY <2>2, <2>3 DEF RemoveOutcome
    <2> QED BY <2>4 DEF r
  <1>4. CASE at # {}
    <2> DEFINE i == Min(at)
               new == DisconnectBranch(node, i)
    <2>1. r = Removal(TRUE, new, <<>>)
      BY <1>4 DEF RemoveFromLeaf
    <2>2. r.found = TRUE /\ r.node = new /\ r.underfull = <<>>
      BY <2>1 DEF Removal
    <2>3. i \in at
      <3>1. IsFiniteSet(P) /\ P \in SUBSET Int
        BY <1>1, BufferFields
      <3>2. IsFiniteSet(at) /\ at \in SUBSET Int
        BY <3>1, FS_Subset
      <3> HIDE DEF at
      <3> QED BY <3>2, <1>4, LeastAndGreatest
    <2> HIDE DEF i
    <2>4. /\ Sound(0, new) /\ Count(new) = Count(node) - 1
          /\ Entries(new) = UNION {Under(0, node.branch[j]) : j \in P \ {i}}
      BY <2>3, DisconnectIs
    <2>5. Entries(new) = {node.branch[j] : j \in P \ {i}}
      BY <2>4 DEF Under
    <2>6. \A j \in P \ {i} : node.branch[j].item # item
      <3> SUFFICES ASSUME NEW j \in P \ {i} PROVE node.branch[j].item # item
        OBVIOUS
      <3>1. Apart(Under(0, node.branch[i]), Under(0, node.branch[j]))
        BY <1>1, <2>3 DEF GoodBranches
      <3>2. node.branch[i].item # node.branch[j].item
        BY <3>1 DEF Apart, Under
      <3> QED BY <3>2, <2>3
    <2>7. node.branch[i].item = item /\ node.branch[i] \in Entries(node)
      BY <1>2, <2>3
    <2>8. {e \in Entries(node) : e.item # item} = Entries(new)
      <3>1. \A e : e \in Entries(node) <=> \E j \in P : e = node.branch[j]
        BY <1>2
      <3>2. \A e : e \in Entries(new) <=> \E j \in P \ {i} : e = node.branch[j]
        BY <2>5
      <3> HIDE DEF P, new
      <3> QED BY <2>6, <2>7, <3>1, <3>2
    <2> HIDE DEF new, r
    <2>9. Scattered(0, Entries(new), new, <<>>)
      <3>1. <<>> \in Seq(UNION {Node[m] : m \in Nat}) /\ DOMAIN <<>> = {}
        OBVIOUS
      <3> QED BY <2>4, <3>1 DEF Scattered
    <2>10. Count(new) >= Count(node) - 1
      BY <1>1, <2>4
    <2>11. Scattered(0, {e \in Entries(node) : e.item # item}, r.node, r.underfull)
      BY <2>2, <2>8, <2>9, Zenon
    <2>12. \E e \in Entries(node) : e.item = item
      BY <2>7
    <2>13. RemoveOutcome(0, node, rect, item, r)
      BY <2>2, <2>10, <2>11, <2>12, Zenon DEF RemoveOutcome
    <2> QED BY <2>13 DEF r
  <1> QED BY <1>3, <1>4

\* A sequence with one element put in front, as the list of underfull nodes grows.
LEMMA Prepended ==
    ASSUME NEW T, NEW x \in T, NEW s \in Seq(T)
    PROVE  /\ <<x>> \o s \in Seq(T) /\ DOMAIN (<<x>> \o s) = 1 .. Len(s) + 1
           /\ (<<x>> \o s)[1] = x
           /\ \A k \in DOMAIN s : k + 1 \in 1 .. Len(s) + 1 /\ (<<x>> \o s)[k + 1] = s[k]
           /\ \A k \in 1 .. Len(s) + 1 : k = 1 \/ (k - 1 \in DOMAIN s /\ (<<x>> \o s)[k] = s[k - 1])
  OBVIOUS

\* The way back up from the child the item was found under.
LEMMA AfterRemovalOutcome ==
    ASSUME NEW l \in Nat \ {0}, NEW node, Sound(l, node), NEW i \in Positions(node), NEW rect, NEW item,
           NEW sub, RemoveOutcome(l - 1, node.branch[i].child, rect, item, sub), sub.found
    PROVE  RemoveOutcome(l, node, rect, item, AfterRemoval(node, i, sub.node, sub.underfull))
  <1> DEFINE child == node.branch[i].child
             kept == sub.node
             uf == sub.underfull
             others == UNION {Under(l, node.branch[j]) : j \in Positions(node) \ {i}}
             rest == {e \in Entries(child) : e.item # item}
             all == {e \in Entries(node) : e.item # item}
             r == AfterRemoval(node, i, kept, uf)
             held == UNION {Entries(uf[k]) : k \in DOMAIN uf}
  <1>0. l \in Nat /\ l - 1 \in Nat /\ l - 1 < l /\ (l - 1) + 1 = l
    OBVIOUS
  <1>1. /\ GoodBranches(l, node.branch) /\ Positions(node) = DOMAIN node.branch /\ node \in Node[l]
        /\ Entries(node) = UnderAll(l, node.branch) /\ Count(node) \in Nat
    BY SoundFields
  <1>2. Sound(l - 1, child) /\ Under(l, node.branch[i]) = Entries(child)
    BY SoundChild
  <1>3. /\ \E e \in Entries(child) : e.item = item
        /\ Scattered(l - 1, rest, kept, uf)
    BY DEF RemoveOutcome
  <1>4. Entries(node) = Entries(child) \union others
    <2>1. UnderAll(l, node.branch) = Under(l, node.branch[i]) \union others
      BY <1>1 DEF UnderAll
    <2> QED BY <2>1, <1>1, <1>2
  <1>5. Apart(Entries(child), others) /\ \A j \in Positions(node) \ {i} : Apart(Entries(child), Under(l, node.branch[j]))
    <2>1. \A j \in Positions(node) \ {i} : Apart(Under(l, node.branch[i]), Under(l, node.branch[j]))
      BY <1>1 DEF GoodBranches
    <2> QED BY <2>1, <1>2 DEF Apart
  <1> HIDE DEF others, child
  <1>6. all = rest \union others
    <2>1. \A e \in others : e.item # item
      BY <1>3, <1>5 DEF Apart
    <2> QED BY <2>1, <1>4
  <1> HIDE DEF all
  <1>7. /\ Sound(l - 1, kept)
        /\ uf \in Seq(UNION {Node[m] : m \in Nat})
        /\ \A k \in DOMAIN uf : \E m \in Nat : m < l - 1 /\ Sound(m, uf[k])
        /\ \A k \in DOMAIN uf : Apart(Entries(kept), Entries(uf[k]))
        /\ \A j, k \in DOMAIN uf : j # k => Apart(Entries(uf[j]), Entries(uf[k]))
        /\ rest = Entries(kept) \union held
    BY <1>3 DEF Scattered
  <1> HIDE DEF kept, uf
  <1>8. \A k \in DOMAIN uf : \E m \in Nat : m < l /\ Sound(m, uf[k])
    <2> SUFFICES ASSUME NEW k \in DOMAIN uf PROVE \E m \in Nat : m < l /\ Sound(m, uf[k])
      OBVIOUS
    <2>1. PICK m \in Nat : m < l - 1 /\ Sound(m, uf[k])
      BY <1>7
    <2>2. m < l
      BY <2>1
    <2> QED BY <2>1, <2>2
  <1>9. rest \subseteq Entries(child) /\ Entries(kept) \subseteq Entries(child)
    BY <1>7
  <1> HIDE DEF rest
  <1>10. /\ Apart(Entries(kept), others)
         /\ \A k \in DOMAIN uf : Apart(Entries(uf[k]), others) /\ Apart(others, Entries(uf[k]))
         /\ \A k \in DOMAIN uf : Apart(Entries(uf[k]), Entries(kept))
    BY <1>5, <1>7, <1>9 DEF Apart
  <1>11. \E e \in Entries(node) : e.item = item
    BY <1>3, <1>4
  <1>12. CASE Count(kept) >= MIN_NODES
    <2> DEFINE nb == BranchOf(kept)
               new == [node EXCEPT !.branch[i] = nb]
    <2>1. r = Removal(TRUE, new, uf)
      BY <1>12 DEF AfterRemoval
    <2>2. r.found = TRUE /\ r.node = new /\ r.underfull = uf
      BY <2>1 DEF Removal
    <2>3. GoodBranch(l, nb) /\ Under(l, nb) = Entries(kept)
      <3>1. GoodBranch((l - 1) + 1, nb) /\ Under((l - 1) + 1, nb) = Entries(kept)
        BY <1>0, <1>7, <1>12, GoodBranchOf
      <3> QED BY <3>1, <1>0
    <2>4. \A j \in Positions(node) \ {i} : Apart(Under(l, nb), Under(l, node.branch[j]))
      BY <2>3, <1>5, <1>9 DEF Apart
    <2>5. Sound(l, new) /\ Count(new) = Count(node) /\ Entries(new) = Entries(kept) \union others
      <3> HIDE DEF nb
      <3>1. new = [node EXCEPT !.branch[i] = nb]
        OBVIOUS
      <3> HIDE DEF new
      <3>2. Sound(l, new) /\ Count(new) = Count(node)
        BY <1>0, <2>3, <2>4, <3>1, SoundReplaced
      <3> USE DEF others
      <3>3. Entries(new) = Under(l, nb) \union others
        BY <1>0, <2>3, <2>4, <3>1, SoundReplaced
      <3> QED BY <2>3, <3>2, <3>3
    <2> HIDE DEF new, r, nb
    <2>6. all = Entries(new) \union held
      BY <2>5, <1>6, <1>7
    <2>7. \A k \in DOMAIN uf : Apart(Entries(new), Entries(uf[k]))
      BY <2>5, <1>7, <1>10 DEF Apart
    <2>8. Scattered(l, all, new, uf)
      BY <2>5, <2>6, <2>7, <1>7, <1>8 DEF Scattered
    <2>9. Scattered(l, all, r.node, r.underfull)
      BY <2>2, <2>8
    <2>10. Count(r.node) >= Count(node) - 1
      BY <2>2, <2>5, <1>1
    <2>11. RemoveOutcome(l, node, rect, item, r)
      BY <2>2, <2>9, <2>10, <1>11, Zenon DEF RemoveOutcome, all
    <2> QED BY <2>11 DEF r, kept, uf
  <1>13. CASE ~(Count(kept) >= MIN_NODES)
    <2> DEFINE new == DisconnectBranch(node, i)
               more == <<kept>> \o uf
    <2>1. r = Removal(TRUE, new, more)
      BY <1>13 DEF AfterRemoval
    <2>2. r.found = TRUE /\ r.node = new /\ r.underfull = more
      BY <2>1 DEF Removal
    <2>3. Sound(l, new) /\ Count(new) = Count(node) - 1 /\ Entries(new) = others
      BY <1>0, DisconnectIs DEF others
    <2> HIDE DEF new, r
    <2>4. kept \in UNION {Node[m] : m \in Nat}
      <3>1. kept \in Node[l - 1]
        BY <1>7 DEF Sound
      <3> QED BY <3>1, <1>0
    <2>5. /\ more \in Seq(UNION {Node[m] : m \in Nat}) /\ DOMAIN more = 1 .. Len(uf) + 1
          /\ more[1] = kept
          /\ \A k \in DOMAIN uf : k + 1 \in 1 .. Len(uf) + 1 /\ more[k + 1] = uf[k]
          /\ \A k \in 1 .. Len(uf) + 1 : k = 1 \/ (k - 1 \in DOMAIN uf /\ more[k] = uf[k - 1])
      <3> DEFINE T == UNION {Node[m] : m \in Nat}
      <3>1. kept \in T /\ uf \in Seq(T)
        BY <2>4, <1>7
      <3> HIDE DEF T
      <3>2. /\ more \in Seq(T) /\ DOMAIN more = 1 .. Len(uf) + 1
            /\ more[1] = kept
            /\ \A k \in DOMAIN uf : k + 1 \in 1 .. Len(uf) + 1 /\ more[k + 1] = uf[k]
            /\ \A k \in 1 .. Len(uf) + 1 : k = 1 \/ (k - 1 \in DOMAIN uf /\ more[k] = uf[k - 1])
        BY <3>1, Prepended
      <3> QED BY <3>2 DEF T
    <2>6. 1 \in DOMAIN more
      <3>1. Len(uf) \in Nat
        BY <1>7
      <3> QED BY <3>1, <2>5
    <2> HIDE DEF more
    <2>7. \A k \in DOMAIN more : \E m \in Nat : m < l /\ Sound(m, more[k])
      <3> SUFFICES ASSUME NEW k \in DOMAIN more PROVE \E m \in Nat : m < l /\ Sound(m, more[k])
        OBVIOUS
      <3>1. CASE k = 1
        BY <3>1, <2>5, <1>0, <1>7
      <3>2. CASE k # 1
        <4>1. k - 1 \in DOMAIN uf /\ more[k] = uf[k - 1]
          BY <3>2, <2>5
        <4> QED BY <4>1, <1>8
      <3> QED BY <3>1, <3>2
    <2>8. \A k \in DOMAIN more : Apart(Entries(new), Entries(more[k]))
      <3> SUFFICES ASSUME NEW k \in DOMAIN more PROVE Apart(others, Entries(more[k]))
        BY <2>3
      <3>1. CASE k = 1
        BY <3>1, <2>5, <1>10 DEF Apart
      <3>2. CASE k # 1
        <4>1. k - 1 \in DOMAIN uf /\ more[k] = uf[k - 1]
          BY <3>2, <2>5
        <4> QED BY <4>1, <1>10
      <3> QED BY <3>1, <3>2
    <2>9. ASSUME NEW j \in DOMAIN more, NEW k \in DOMAIN more, j # k
          PROVE  Apart(Entries(more[j]), Entries(more[k]))
      <3>1. CASE j = 1
        <4>1. k - 1 \in DOMAIN uf /\ more[k] = uf[k - 1] /\ more[j] = kept
          BY <3>1, <2>5, <2>9
        <4> QED BY <4>1, <1>7
      <3>2. CASE k = 1
        <4>1. j - 1 \in DOMAIN uf /\ more[j] = uf[j - 1] /\ more[k] = kept
          BY <3>2, <2>5, <2>9
        <4> QED BY <4>1, <1>10
      <3>3. CASE j # 1 /\ k # 1
        <4>1. j - 1 \in DOMAIN uf /\ more[j] = uf[j - 1] /\ k - 1 \in DOMAIN uf /\ more[k] = uf[k - 1]
          BY <3>3, <2>5
        <4>2. j - 1 # k - 1
          BY <2>5, <2>9
        <4> QED BY <4>1, <4>2, <1>7
      <3> QED BY <3>1, <3>2, <3>3
    <2>10. all = Entries(new) \union UNION {Entries(more[k]) : k \in DOMAIN more}
      <3>1. UNION {Entries(more[k]) : k \in DOMAIN more} = Entries(kept) \union held
        <4>1. \A x \in DOMAIN more : x = 1 \/ (x - 1 \in DOMAIN uf /\ more[x] = uf[x - 1])
          BY <2>5
        <4>2. \A x \in DOMAIN uf : x + 1 \in DOMAIN more /\ more[x + 1] = uf[x]
          BY <2>5
        <4>3. ASSUME NEW e, e \in UNION {Entries(more[k]) : k \in DOMAIN more} PROVE e \in Entries(kept) \union held
          BY <4>1, <4>3, <2>5
        <4>4. ASSUME NEW e \in Entries(kept) \union held PROVE e \in UNION {Entries(more[k]) : k \in DOMAIN more}
          BY <4>2, <2>5, <2>6
        <4> QED BY <4>3, <4>4
      <3> QED BY <3>1, <2>3, <1>6, <1>7
    <2>11. Scattered(l, all, new, more)
      BY <2>3, <2>5, <2>7, <2>8, <2>9, <2>10 DEF Scattered
    <2>12. Scattered(l, all, r.node, r.underfull)
      BY <2>2, <2>11
    <2>13. Count(r.node) >= Count(node) - 1
      BY <2>2, <2>3, <1>1
    <2>14. RemoveOutcome(l, node, rect, item, r)
      BY <2>2, <2>12, <2>13, <1>11, Zenon DEF RemoveOutcome, all
    <2> QED BY <2>14 DEF r, kept, uf
  <1> QED BY <1>12, <1>13

\* RemoveRectRec is as RemoveOutcome says, by induction on the level: the item is removed from a
\* sound node, which stays sound and keeps its other entries but for those of the nodes listed
\* for reinsertion, or no entry of that item overlaps the rectangle.
LEMMA RemoveRecOutcome ==
    ASSUME NEW rect \in RectType, NEW item, NEW l \in Nat, NEW node, Sound(l, node)
    PROVE  RemoveOutcome(l, node, rect, item, RemoveRectRec(rect, item, node))
  <1> DEFINE P(n, x) == Sound(n, x) => RemoveOutcome(n, x, rect, item, RemoveRectRec(rect, item, x))
             S == {n \in Nat : \A x \in Node[n] : P(n, x)}
  <1>1. 0 \in S
    <2> SUFFICES ASSUME NEW x \in Node[0], Sound(0, x)
                 PROVE  RemoveOutcome(0, x, rect, item, RemoveRectRec(rect, item, x))
      OBVIOUS
    <2>1. RemoveRectRec(rect, item, x) = RemoveFromLeaf(item, x)
      BY RemoveIs
    <2>2. RemoveOutcome(0, x, rect, item, RemoveFromLeaf(item, x))
      BY LeafRemoval
    <2> QED BY <2>1, <2>2, Zenon
  <1>2. ASSUME NEW n \in Nat, n \in S PROVE n + 1 \in S
    <2> SUFFICES ASSUME NEW x \in Node[n + 1], Sound(n + 1, x)
                 PROVE  RemoveOutcome(n + 1, x, rect, item, RemoveRectRec(rect, item, x))
      OBVIOUS
    <2> DEFINE m == n + 1
               sub == SubRemovals(rect, item, x)
               at == {i \in DOMAIN sub : sub[i].found}
               r == RemoveRectRec(rect, item, x)
    <2>0. m \in Nat \ {0} /\ m - 1 = n /\ m \in Nat /\ m # 0
      OBVIOUS
    <2>1. r = IF at = {} THEN NotFound(x) ELSE AfterRemoval(x, Min(at), sub[Min(at)].node, sub[Min(at)].underfull)
      <3> HIDE DEF m
      <3>1. x \in Node[m]
        BY DEF m
      <3> QED BY <2>0, <3>1, RemoveIs
    <2> HIDE DEF m, r
    <2>2. /\ Positions(x) = DOMAIN x.branch /\ Positions(x) = 1 .. Count(x) /\ x.branch \in Seq(BranchType(m))
          /\ Entries(x) = UnderAll(m, x.branch) /\ x \in Node[m] /\ Sound(m, x)
      BY <2>0, SoundFields DEF m
    <2>3. DOMAIN sub = Overlapping(rect, x) /\ Overlapping(rect, x) \subseteq Positions(x)
      BY DEF SubRemovals, Overlapping
    <2>4. ASSUME NEW i \in DOMAIN sub
          PROVE  RemoveOutcome(n, x.branch[i].child, rect, item, sub[i])
      <3>1. sub[i] = RemoveRectRec(rect, item, x.branch[i].child)
        BY DEF SubRemovals
      <3>2. Sound(n, x.branch[i].child) /\ x.branch[i].child \in Node[n]
        BY <2>0, <2>2, <2>3, SoundChild
      <3>3. P(n, x.branch[i].child)
        BY <3>2, <1>2
      <3> QED BY <3>1, <3>2, <3>3
    <2> HIDE DEF sub
    <2>5. CASE at = {}
      <3>1. r = NotFound(x)
        BY <2>1, <2>5
      <3>2. r.found = FALSE /\ r.node = x
        BY <3>1 DEF NotFound, Removal
      <3>3. ASSUME NEW e \in Entries(x), e.item = item, Overlap(rect, e.rect) PROVE FALSE
        <4>1. PICK i \in Positions(x) : e \in Under(m, x.branch[i])
          BY <2>2 DEF UnderAll
        <4> DEFINE child == x.branch[i].child
        <4>2. /\ Sound(n, child) /\ x.branch[i].rect = NodeCover(child) /\ Under(m, x.branch[i]) = Entries(child)
              /\ child \in Node[n]
          BY <2>0, <2>2, SoundChild
        <4>3. e.rect \in RectType /\ Within(e.rect, NodeCover(child)) /\ NodeCover(child) \in RectType
          BY <4>1, <4>2, EntriesWithin, NodeCoverType
        <4>4. Overlap(rect, x.branch[i].rect)
          BY <3>3, <4>2, <4>3, OverlapWithin
        <4>5. i \in DOMAIN sub
          BY <4>4, <2>3 DEF Overlapping
        <4>6. RemoveOutcome(n, child, rect, item, sub[i]) /\ ~sub[i].found
          BY <4>5, <2>4, <2>5
        <4>7. \A f \in Entries(child) : ~(f.item = item /\ Overlap(rect, f.rect))
          BY <4>6 DEF RemoveOutcome
        <4> QED BY <4>1, <4>2, <4>7, <3>3
      <3>4. RemoveOutcome(m, x, rect, item, r)
        BY <3>2, <3>3, Zenon DEF RemoveOutcome
      <3> QED BY <3>4 DEF m, r
    <2>6. CASE at # {}
      <3> DEFINE i == Min(at)
      <3>1. i \in at
        <4>1. IsFiniteSet(Positions(x)) /\ Positions(x) \in SUBSET Int
          BY <2>2, <2>0, BufferFields
        <4>2. IsFiniteSet(at) /\ at \in SUBSET Int
          BY <4>1, <2>3, FS_Subset
        <4> HIDE DEF at
        <4> QED BY <4>2, <2>6, LeastAndGreatest
      <3>2. r = AfterRemoval(x, i, sub[i].node, sub[i].underfull)
        BY <2>1, <2>6
      <3> HIDE DEF i
      <3>3. RemoveOutcome(m - 1, x.branch[i].child, rect, item, sub[i]) /\ sub[i].found /\ i \in Positions(x)
        BY <3>1, <2>0, <2>3, <2>4
      <3>4. RemoveOutcome(m, x, rect, item, AfterRemoval(x, i, sub[i].node, sub[i].underfull))
        BY <3>3, <2>0, <2>2, AfterRemovalOutcome
      <3>5. RemoveOutcome(m, x, rect, item, r)
        BY <3>2, <3>4, Zenon
      <3> QED BY <3>5 DEF m, r
    <2> QED BY <2>5, <2>6
  <1>3. Nat \subseteq S
    <2> HIDE DEF S
    <2> QED BY <1>1, <1>2, NatSubset
  <1> QED BY <1>3 DEF Sound

-----------------------------------------------------------------------------
(***************************************************************************)
(* Reinsertion.                                                            *)
(***************************************************************************)
\* A tree of at least some level with these entries, as it is between two reinsertions.
Standing(low, es, tree) ==
    \E l \in Nat : /\ low <= l
                   /\ Sound(l, tree)
                   /\ l # 0 => Count(tree) # 0
                   /\ Entries(tree) = es

\* An insertion leaves the tree standing, with the entries of the branch added.
LEMMA InsertStanding ==
    ASSUME NEW low \in Nat, NEW es, NEW tree, Standing(low, es, tree),
           NEW k \in Nat, k <= low, NEW b, GoodBranch(k, b), Apart(Under(k, b), es)
    PROVE  Standing(low, es \union Under(k, b), InsertRect(tree, b, k))
  <1>1. PICK l \in Nat : low <= l /\ Sound(l, tree) /\ (l # 0 => Count(tree) # 0) /\ Entries(tree) = es
    BY DEF Standing
  <1>2. k <= l /\ (k < l => Count(tree) # 0) /\ Apart(Under(k, b), Entries(tree))
    BY <1>1
  <1> DEFINE new == InsertRect(tree, b, k)
  <1>3. /\ Entries(new) = Entries(tree) \union Under(k, b)
        /\ \/ Sound(l, new) /\ Count(new) >= Count(tree) /\ Count(new) >= 1
           \/ Sound(l + 1, new) /\ Count(new) = 2
    BY <1>1, <1>2, InsertRectIs
  <1> HIDE DEF new
  <1>4. CASE Sound(l, new) /\ Count(new) >= Count(tree) /\ Count(new) >= 1
    <2>1. Count(new) # 0
      BY <1>4, SoundFields
    <2> QED BY <2>1, <1>1, <1>3, <1>4 DEF Standing, new
  <1>5. CASE Sound(l + 1, new) /\ Count(new) = 2
    <2>1. l + 1 \in Nat /\ low <= l + 1 /\ Count(new) # 0
      BY <1>1, <1>5
    <2> QED BY <2>1, <1>1, <1>3, <1>5 DEF Standing, new
  <1> QED BY <1>3, <1>4, <1>5

\* Each branch of a node goes back in.
LEMMA ReinsertStanding ==
    ASSUME NEW low \in Nat, NEW es, NEW tree, Standing(low, es, tree),
           NEW k \in Nat, k <= low, NEW node, Sound(k, node), Apart(Entries(node), es)
    PROVE  Standing(low, es \union Entries(node), Reinsert(tree, node))
  <1> DEFINE s == node.branch
             n == Count(node)
             first(j) == UNION {Under(k, s[i]) : i \in 1 .. j}
  <1>1. /\ GoodBranches(k, s) /\ n \in Nat /\ DOMAIN s = 1 .. n /\ Entries(node) = UnderAll(k, s) /\ node.level = k
    BY SoundFields
  <1>2. PICK f : /\ f[0] = tree
                 /\ \A j \in 1 .. n : f[j] = InsertRect(f[j - 1], s[j], k)
                 /\ Reinsert(tree, node) = f[n]
    <2>1. \E f : /\ f[0] = tree
                 /\ \A j \in 1 .. Count(node) : f[j] = InsertRect(f[j - 1], node.branch[j], node.level)
                 /\ Reinsert(tree, node) = f[Count(node)]
      BY <1>1, ReinsertIs
    <2> QED BY <2>1, <1>1
  <1> DEFINE S == {j \in 0 .. n : Standing(low, es \union first(j), f[j])}
  <1>3. 0 \in S
    <2>1. first(0) = {} /\ 0 \in 0 .. n
      BY <1>1
    <2>2. es \union first(0) = es
      BY <2>1
    <2> QED BY <2>1, <2>2, <1>2
  <1>4. ASSUME NEW j \in 0 .. n - 1, j \in S PROVE j + 1 \in S
    <2>1. j + 1 \in 1 .. n /\ j + 1 \in 0 .. n /\ (j + 1) - 1 = j /\ j + 1 \in DOMAIN s
      BY <1>1
    <2>2. f[j + 1] = InsertRect(f[j], s[j + 1], k)
      BY <2>1, <1>2, Zenon
    <2>3. Standing(low, es \union first(j), f[j])
      BY <1>4
    <2>4. GoodBranch(k, s[j + 1])
      BY <2>1, <1>1 DEF GoodBranches
    <2>5. Apart(Under(k, s[j + 1]), es \union first(j))
      <3>1. Under(k, s[j + 1]) \subseteq Entries(node)
        BY <2>1, <1>1 DEF UnderAll
      <3>2. \A i \in 1 .. j : Apart(Under(k, s[j + 1]), Under(k, s[i]))
        <4> SUFFICES ASSUME NEW i \in 1 .. j PROVE Apart(Under(k, s[j + 1]), Under(k, s[i]))
          OBVIOUS
        <4>1. i \in DOMAIN s /\ i # j + 1
          BY <2>1, <1>1
        <4> QED BY <4>1, <2>1, <1>1 DEF GoodBranches
      <3> QED BY <3>1, <3>2 DEF Apart
    <2>6. first(j + 1) = first(j) \union Under(k, s[j + 1])
      <3>1. j \in Nat /\ \A i \in 1 .. j + 1 : i \in 1 .. j \/ i = j + 1
        BY <1>1
      <3>2. \A i \in 1 .. j : i \in 1 .. j + 1
        BY <3>1
      <3>3. j + 1 \in 1 .. j + 1
        BY <3>1
      <3> QED BY <3>1, <3>2, <3>3
    <2> HIDE DEF first, s, n
    <2>7. Standing(low, (es \union first(j)) \union Under(k, s[j + 1]), InsertRect(f[j], s[j + 1], k))
      BY <2>3, <2>4, <2>5, InsertStanding
    <2>8. (es \union first(j)) \union Under(k, s[j + 1]) = es \union first(j + 1)
      BY <2>6
    <2>9. Standing(low, es \union first(j + 1), f[j + 1])
      BY <2>2, <2>7, <2>8
    <2> QED BY <2>1, <2>9
  <1>5. n \in S
    <2> HIDE DEF S, n
    <2>1. 0 .. n \subseteq S
      BY <1>1, <1>3, <1>4, UpTo
    <2>2. n \in 0 .. n
      BY <1>1
    <2> QED BY <2>1, <2>2
  <1>6. first(n) = Entries(node)
    BY <1>1 DEF UnderAll
  <1>7. Standing(low, es \union first(n), f[n])
    BY <1>5
  <1> HIDE DEF first, n
  <1> QED BY <1>2, <1>6, <1>7

\* All the nodes that were taken out go back in.
LEMMA ReinsertAllStanding ==
    ASSUME NEW low \in Nat, NEW es, NEW node, NEW underfull, Scattered(low, es, node, underfull),
           low # 0 => Count(node) # 0
    PROVE  Standing(low, es, ReinsertAll(node, underfull))
  <1> DEFINE uf == underfull
             n == Len(uf)
             first(j) == UNION {Entries(uf[i]) : i \in 1 .. j}
             own == Entries(node)
  <1>1. /\ Sound(low, node)
        /\ n \in Nat /\ DOMAIN uf = 1 .. n
        /\ \A k \in DOMAIN uf : \E m \in Nat : m < low /\ Sound(m, uf[k])
        /\ \A k \in DOMAIN uf : Apart(own, Entries(uf[k]))
        /\ \A j, k \in DOMAIN uf : j # k => Apart(Entries(uf[j]), Entries(uf[k]))
        /\ es = own \union first(n)
    <2>1. uf \in Seq(UNION {Node[m] : m \in Nat})
      BY DEF Scattered
    <2>2. n \in Nat /\ DOMAIN uf = 1 .. n
      BY <2>1
    <2> QED BY <2>2 DEF Scattered
  <1>2. PICK f : /\ f[0] = node
                 /\ \A j \in 1 .. n : f[j] = Reinsert(f[j - 1], uf[j])
                 /\ ReinsertAll(node, uf) = f[n]
    BY <1>1, ReinsertAllIs
  <1> DEFINE S == {j \in 0 .. n : Standing(low, own \union first(j), f[j])}
  <1>3. 0 \in S
    <2>1. own \union first(0) = own /\ 0 \in 0 .. n
      BY <1>1
    <2>2. Standing(low, own, node)
      BY <1>1 DEF Standing
    <2> QED BY <2>1, <2>2, <1>2
  <1>4. ASSUME NEW j \in 0 .. n - 1, j \in S PROVE j + 1 \in S
    <2>1. j + 1 \in 1 .. n /\ j + 1 \in 0 .. n /\ (j + 1) - 1 = j /\ j + 1 \in DOMAIN uf
      BY <1>1
    <2>2. f[j + 1] = Reinsert(f[j], uf[j + 1])
      BY <2>1, <1>2, Zenon
    <2>3. Standing(low, own \union first(j), f[j])
      BY <1>4
    <2>4. PICK m \in Nat : m < low /\ Sound(m, uf[j + 1])
      BY <2>1, <1>1
    <2>5. Apart(Entries(uf[j + 1]), own \union first(j))
      <3>1. Apart(own, Entries(uf[j + 1]))
        BY <2>1, <1>1
      <3>2. \A i \in 1 .. j : Apart(Entries(uf[j + 1]), Entries(uf[i]))
        <4> SUFFICES ASSUME NEW i \in 1 .. j PROVE Apart(Entries(uf[j + 1]), Entries(uf[i]))
          OBVIOUS
        <4>1. i \in DOMAIN uf /\ i # j + 1
          BY <2>1, <1>1
        <4> QED BY <4>1, <2>1, <1>1
      <3> QED BY <3>1, <3>2 DEF Apart
    <2>6. first(j + 1) = first(j) \union Entries(uf[j + 1])
      <3>1. j \in Nat /\ \A i \in 1 .. j + 1 : i \in 1 .. j \/ i = j + 1
        BY <1>1
      <3>2. \A i \in 1 .. j : i \in 1 .. j + 1
        BY <3>1
      <3>3. j + 1 \in 1 .. j + 1
        BY <3>1
      <3> QED BY <3>1, <3>2, <3>3
    <2> HIDE DEF first, own, n
    <2>7. Standing(low, (own \union first(j)) \union Entries(uf[j + 1]), Reinsert(f[j], uf[j + 1]))
      <3>1. m <= low
        BY <2>4
      <3> QED BY <2>3, <2>4, <2>5, <3>1, ReinsertStanding
    <2>8. (own \union first(j)) \union Entries(uf[j + 1]) = own \union first(j + 1)
      BY <2>6
    <2>9. Standing(low, own \union first(j + 1), f[j + 1])
      BY <2>2, <2>7, <2>8
    <2> QED BY <2>1, <2>9
  <1>5. n \in S
    <2> HIDE DEF S, n
    <2>1. 0 .. n \subseteq S
      BY <1>1, <1>3, <1>4, UpTo
    <2>2. n \in 0 .. n
      BY <1>1
    <2> QED BY <2>1, <2>2
  <1>6. Standing(low, own \union first(n), f[n])
    BY <1>5
  <1> HIDE DEF first, own, n
  <1> QED BY <1>1, <1>2, <1>6

-----------------------------------------------------------------------------
(***************************************************************************)
(* Whole trees.                                                            *)
(***************************************************************************)
\* A tree between two calls: sound, and with a choice at a root above the leaves.
Tree(t) == \E l \in Nat : Sound(l, t) /\ (l # 0 => Count(t) >= 2)

\* CollapseRoot makes a tree again of what is left standing.
LEMMA CollapseIs ==
    ASSUME NEW low \in Nat, NEW es, NEW tree, Standing(low, es, tree)
    PROVE  Tree(CollapseRoot(tree)) /\ Entries(CollapseRoot(tree)) = es
  <1>1. PICK l \in Nat : Sound(l, tree) /\ (l # 0 => Count(tree) # 0) /\ Entries(tree) = es
    BY DEF Standing
  <1>2. /\ tree.level = l /\ Count(tree) \in Nat /\ Positions(tree) = 1 .. Count(tree)
        /\ Entries(tree) = UnderAll(l, tree.branch) /\ Positions(tree) = DOMAIN tree.branch
    BY <1>1, SoundFields
  <1>3. CASE Count(tree) = 1 /\ l # 0
    <2> DEFINE child == tree.branch[1].child
    <2>1. CollapseRoot(tree) = child
      BY <1>2, <1>3 DEF CollapseRoot
    <2>2. l \in Nat \ {0} /\ 1 \in Positions(tree) /\ DOMAIN tree.branch = {1}
      BY <1>2, <1>3
    <2>3. l - 1 \in Nat /\ Sound(l - 1, child) /\ Count(child) >= MIN_NODES /\ Under(l, tree.branch[1]) = Entries(child)
      BY <1>1, <2>2, SoundChild
    <2>4. UnderAll(l, tree.branch) = Under(l, tree.branch[1])
      BY <2>2 DEF UnderAll
    <2>5. Count(child) >= 2
      <3>1. Count(child) \in Nat
        BY <2>3, SoundFields
      <3> QED BY <3>1, <2>3, MinNodes
    <2> QED BY <2>1, <2>3, <2>4, <2>5, <1>1, <1>2 DEF Tree
  <1>4. CASE ~(Count(tree) = 1 /\ l # 0)
    <2>1. CollapseRoot(tree) = tree
      BY <1>2, <1>4 DEF CollapseRoot
    <2>2. l # 0 => Count(tree) >= 2
      BY <1>1, <1>2, <1>4
    <2> QED BY <2>1, <2>2, <1>1 DEF Tree
  <1> QED BY <1>3, <1>4

\* RemoveRect takes the item out of the tree, or leaves its entries alone when no entry of the
\* item overlaps the rectangle; all that is underfull on the way is reinserted.
LEMMA RemoveRectIs ==
    ASSUME NEW tree, Tree(tree), NEW rect \in RectType, NEW item
    PROVE  LET new == RemoveRect(tree, rect, item)
           IN  /\ Tree(new)
               /\ \/ /\ Entries(new) = Entries(tree)
                     /\ \A e \in Entries(tree) : ~(e.item = item /\ Overlap(rect, e.rect))
                  \/ Entries(new) = {e \in Entries(tree) : e.item # item}
  <1> DEFINE r == RemoveRectRec(rect, item, tree)
  <1>1. PICK l \in Nat : Sound(l, tree) /\ (l # 0 => Count(tree) >= 2)
    BY DEF Tree
  <1>2. RemoveOutcome(l, tree, rect, item, r)
    BY <1>1, RemoveRecOutcome
  <1>3. RemoveRect(tree, rect, item) = Restored(r)
    BY DEF RemoveRect
  <1> HIDE DEF r
  <1>4. CASE /\ r.found = FALSE
             /\ r.node = tree
             /\ \A e \in Entries(tree) : ~(e.item = item /\ Overlap(rect, e.rect))
    <2>1. Restored(r) = tree
      BY <1>4 DEF Restored
    <2> QED BY <2>1, <1>3, <1>4
  <1>5. CASE /\ r.found = TRUE
             /\ Scattered(l, {e \in Entries(tree) : e.item # item}, r.node, r.underfull)
             /\ Count(r.node) >= Count(tree) - 1
    <2> DEFINE es == {e \in Entries(tree) : e.item # item}
               back == ReinsertAll(r.node, r.underfull)
    <2>1. Restored(r) = CollapseRoot(back)
      BY <1>5 DEF Restored
    <2>2. l # 0 => Count(r.node) # 0
      <3>1. Count(tree) \in Nat
        BY <1>1, SoundFields
      <3>2. Sound(l, r.node)
        BY <1>5 DEF Scattered
      <3>3. Count(r.node) \in Nat
        BY <3>2, SoundFields
      <3> QED BY <3>1, <3>3, <1>1, <1>5
    <2>3. Standing(l, es, back)
      BY <2>2, <1>5, ReinsertAllStanding
    <2> HIDE DEF es, back
    <2>4. Tree(CollapseRoot(back)) /\ Entries(CollapseRoot(back)) = es
      BY <2>3, CollapseIs
    <2>5. Tree(RemoveRect(tree, rect, item)) /\ Entries(RemoveRect(tree, rect, item)) = es
      BY <2>1, <2>4, <1>3
    <2> QED BY <2>5 DEF es
  <1> QED BY <1>2, <1>4, <1>5 DEF RemoveOutcome

-----------------------------------------------------------------------------
(***************************************************************************)
(* Search.                                                                 *)
(***************************************************************************)
\* The items a scan of some entries reports.
Hit(es, window) == {e.item : e \in {e \in es : Overlap(window, e.rect)}}

\* A list of exactly these, each of them once.
Listed(hits, es, window) ==
    hits \in Seq(Items) /\ ToSet(hits) = Hit(es, window) /\ IsInjective(hits)

\* When no entry overlaps the window, listing nothing is right.
LEMMA NothingListed ==
    ASSUME NEW es, NEW window, \A e \in es : ~Overlap(window, e.rect)
    PROVE  Listed(<<>>, es, window)
  <1>1. Hit(es, window) = {}
    BY DEF Hit
  <1>2. ToSet(<<>>) = {} /\ <<>> \in Seq(Items)
    BY DEF ToSet
  <1>3. IsInjective(<<>>)
    BY DEF IsInjective
  <1> QED BY <1>1, <1>2, <1>3 DEF Listed

\* What search finds under a branch.
LEMMA SearchListed ==
    ASSUME NEW window \in RectType, NEW l \in Nat, NEW node, Sound(l, node)
    PROVE  Listed(SearchNode(node, window), Entries(node), window)
  <1> DEFINE P(n, x) == Sound(n, x) => Listed(SearchNode(x, window), Entries(x), window)
             S == {n \in Nat : \A x \in Node[n] : P(n, x)}
  <1>1. ASSUME NEW n \in Nat, n = 0 \/ n - 1 \in S, NEW x, Sound(n, x)
        PROVE  Listed(SearchNode(x, window), Entries(x), window)
    <2> DEFINE parts == [i \in Positions(x) |-> IF i \notin Visited(window, x) THEN <<>>
                                                ELSE IF n = 0 THEN <<x.branch[i].item>>
                                                ELSE SearchNode(x.branch[i].child, window)]
               under(i) == Under(n, x.branch[i])
    <2>1. /\ x \in Node[n] /\ GoodBranches(n, x.branch) /\ Positions(x) = DOMAIN x.branch
          /\ Positions(x) = 1 .. Count(x) /\ Count(x) \in Nat /\ Entries(x) = UnderAll(n, x.branch)
      BY <1>1, SoundFields
    <2>2. SearchNode(x, window) = FlattenSeq(parts)
      BY <2>1, SearchIs
    <2>3. ASSUME NEW i \in Positions(x) PROVE Listed(parts[i], under(i), window)
      <3>1. x.branch[i] \in BranchType(n) /\ GoodBranch(n, x.branch[i])
        BY <2>1 DEF GoodBranches, GoodBranch
      <3>2. i \in Visited(window, x) <=> Overlap(window, x.branch[i].rect)
        BY DEF Visited, Overlapping
      <3>3. CASE n = 0
        <4>1. under(i) = {x.branch[i]} /\ x.branch[i].item \in Items
          BY <3>1, <3>3, LeafBranch DEF Under
        <4>2. CASE i \notin Visited(window, x)
          <5>1. parts[i] = <<>>
            BY <4>2
          <5>2. \A e \in under(i) : ~Overlap(window, e.rect)
            BY <4>1, <4>2, <3>2
          <5> HIDE DEF parts, under
          <5> QED BY <5>1, <5>2, NothingListed
        <4>3. CASE i \in Visited(window, x)
          <5> DEFINE item == x.branch[i].item
          <5>1. parts[i] = <<item>>
            BY <4>3, <3>3
          <5>2. Hit(under(i), window) = {item}
            BY <4>1, <4>3, <3>2 DEF Hit
          <5> HIDE DEF parts, under
          <5>3. item \in Items
            BY <4>1
          <5> HIDE DEF item
          <5>4. <<item>> \in Seq(Items) /\ ToSet(<<item>>) = {item} /\ IsInjective(<<item>>)
            BY <5>3 DEF ToSet, IsInjective
          <5> QED BY <5>1, <5>2, <5>4 DEF Listed
        <4> QED BY <4>2, <4>3
      <3>4. CASE n # 0
        <4> DEFINE child == x.branch[i].child
        <4>0. n \in Nat \ {0} /\ n - 1 \in S
          BY <1>1, <3>4
        <4>1. /\ n - 1 \in Nat /\ Sound(n - 1, child) /\ x.branch[i].rect = NodeCover(child)
              /\ under(i) = Entries(child) /\ child \in Node[n - 1]
          BY <4>0, <1>1, SoundChild
        <4>2. CASE i \notin Visited(window, x)
          <5>1. parts[i] = <<>>
            BY <4>2
          <5>2. \A e \in under(i) : ~Overlap(window, e.rect)
            <6> SUFFICES ASSUME NEW e \in Entries(child), Overlap(window, e.rect) PROVE FALSE
              BY <4>1
            <6>1. e.rect \in RectType /\ Within(e.rect, NodeCover(child)) /\ NodeCover(child) \in RectType
              BY <4>1, EntriesWithin, NodeCoverType
            <6>2. Overlap(window, NodeCover(child))
              BY <6>1, OverlapWithin
            <6> QED BY <6>2, <4>1, <4>2, <3>2
          <5> HIDE DEF parts, under
          <5> QED BY <5>1, <5>2, NothingListed
        <4>3. CASE i \in Visited(window, x)
          <5>1. parts[i] = SearchNode(child, window)
            BY <4>3, <3>4
          <5>2. Listed(SearchNode(child, window), Entries(child), window)
            BY <4>0, <4>1
          <5> HIDE DEF parts, under
          <5> QED BY <5>1, <5>2, <4>1
        <4> QED BY <4>2, <4>3
      <3> QED BY <3>3, <3>4
    <2>4. DOMAIN parts = 1 .. Count(x)
      BY <2>1
    <2>5. parts = [i \in 1 .. Count(x) |-> parts[i]]
      BY <2>1
    <2> HIDE DEF parts
    <2>6. parts \in Seq(Seq(Items)) /\ Len(parts) = Count(x)
      <3>1. \A i \in 1 .. Count(x) : parts[i] \in Seq(Items)
        BY <2>1, <2>3 DEF Listed
      <3> QED BY <2>1, <2>4, <2>5, <3>1
    <2>7. ToSet(FlattenSeq(parts)) = Hit(Entries(x), window)
      <3>1. ToSet(FlattenSeq(parts)) = UNION {ToSet(parts[i]) : i \in 1 .. Count(x)}
        BY <2>6, FlattenMembers
      <3>2. \A i \in 1 .. Count(x) : ToSet(parts[i]) = Hit(under(i), window)
        BY <2>1, <2>3 DEF Listed
      <3>3. Entries(x) = UNION {under(i) : i \in 1 .. Count(x)}
        BY <2>1 DEF UnderAll
      <3>4. Hit(Entries(x), window) = UNION {Hit(under(i), window) : i \in 1 .. Count(x)}
        BY <3>3 DEF Hit
      <3>5. {ToSet(parts[i]) : i \in 1 .. Count(x)} = {Hit(under(i), window) : i \in 1 .. Count(x)}
        BY <3>2
      <3> QED BY <3>1, <3>4, <3>5, Zenon
    <2>8. IsInjective(FlattenSeq(parts))
      <3>1. \A i \in 1 .. Len(parts) : IsInjective(parts[i])
        BY <2>1, <2>3, <2>6 DEF Listed
      <3>2. \A i, j \in 1 .. Len(parts) : i # j => ToSet(parts[i]) \cap ToSet(parts[j]) = {}
        <4> SUFFICES ASSUME NEW i \in 1 .. Len(parts), NEW j \in 1 .. Len(parts), i # j
                     PROVE  ToSet(parts[i]) \cap ToSet(parts[j]) = {}
          OBVIOUS
        <4>1. Apart(under(i), under(j))
          BY <2>1, <2>6 DEF GoodBranches
        <4>2. ToSet(parts[i]) = Hit(under(i), window) /\ ToSet(parts[j]) = Hit(under(j), window)
          BY <2>1, <2>3, <2>6 DEF Listed
        <4> QED BY <4>1, <4>2 DEF Apart, Hit
      <3> QED BY <3>1, <3>2, <2>6, FlattenInjective
    <2>9. FlattenSeq(parts) \in Seq(Items)
      BY <2>6, FlattenSteps
    <2> QED BY <2>2, <2>7, <2>8, <2>9 DEF Listed
  <1>2. 0 \in S
    BY <1>1
  <1>3. ASSUME NEW n \in Nat, n \in S PROVE n + 1 \in S
    <2>1. n + 1 \in Nat /\ (n + 1) - 1 \in S
      BY <1>3
    <2> HIDE DEF S
    <2>2. \A x \in Node[n + 1] : P(n + 1, x)
      BY <2>1, <1>1
    <2> QED BY <2>1, <2>2 DEF S
  <1>4. Nat \subseteq S
    <2> HIDE DEF S
    <2> QED BY <1>2, <1>3, NatSubset
  <1> QED BY <1>4 DEF Sound

\* Inserting an entry whose item is not in the tree adds it to the tree and changes no other.
LEMMA InsertTree ==
    ASSUME NEW tree, Tree(tree), NEW entry \in Entry, \A e \in Entries(tree) : e.item # entry.item
    PROVE  /\ Tree(InsertRect(tree, entry, 0))
           /\ Entries(InsertRect(tree, entry, 0)) = Entries(tree) \union {entry}
  <1>1. PICK l \in Nat : Sound(l, tree) /\ (l # 0 => Count(tree) >= 2)
    BY DEF Tree
  <1>2. GoodBranch(0, entry) /\ Under(0, entry) = {entry}
    BY DEF GoodBranch, BranchType, Under
  <1>3. Apart(Under(0, entry), Entries(tree))
    BY <1>2 DEF Apart
  <1>4. Count(tree) \in Nat
    BY <1>1, SoundFields
  <1>5. 0 \in Nat /\ 0 <= l /\ (0 < l => Count(tree) # 0)
    BY <1>1, <1>4
  <1> DEFINE new == InsertRect(tree, entry, 0)
  <1>6. /\ Entries(new) = Entries(tree) \union Under(0, entry)
        /\ \/ Sound(l, new) /\ Count(new) >= Count(tree) /\ Count(new) >= 1
           \/ Sound(l + 1, new) /\ Count(new) = 2
    BY <1>1, <1>2, <1>3, <1>5, InsertRectIs
  <1> HIDE DEF new
  <1>7. Tree(new)
    <2>1. CASE Sound(l, new) /\ Count(new) >= Count(tree)
      <3>1. Count(new) \in Nat
        BY <2>1, SoundFields
      <3> QED BY <2>1, <3>1, <1>1, <1>4 DEF Tree
    <2>2. CASE Sound(l + 1, new) /\ Count(new) = 2
      <3>1. l + 1 \in Nat
        OBVIOUS
      <3> QED BY <2>2, <3>1 DEF Tree
    <2> QED BY <2>1, <2>2, <1>6
  <1> QED BY <1>2, <1>6, <1>7 DEF new

\* The empty leaf the first insertion starts from is a tree without entries.
LEMMA EmptyTree == Tree(EmptyLeaf) /\ Entries(EmptyLeaf) = {}
  <1> DEFINE s == <<>>
             new == [level |-> 0, branch |-> s]
  <1>1. s \in Seq(BranchType(0)) /\ DOMAIN s = {} /\ Len(s) = 0
    OBVIOUS
  <1> HIDE DEF s
  <1>2. GoodBranches(0, s) /\ UnderAll(0, s) = {}
    BY <1>1 DEF GoodBranches, UnderAll
  <1>3. Len(s) <= MAX_NODES
    BY <1>1, MinNodes
  <1>4. Sound(0, new) /\ Entries(new) = UnderAll(0, s)
    BY <1>2, <1>3, SoundMade
  <1>5. EmptyLeaf = new
    BY DEF EmptyLeaf, s
  <1> HIDE DEF new
  <1> QED BY <1>2, <1>4, <1>5 DEF Tree

\* A tree not made yet has no entries, and is told from one that is made.
LEMMA NullEmpty == Entries(Null) = {} /\ \A t : Tree(t) => t # Null
  <1>1. Entries(Null) = {}
    BY DEF Entries
  <1>2. ASSUME NEW t, Tree(t) PROVE t # Null
    <2>1. PICK l \in Nat : Sound(l, t)
      BY <1>2 DEF Tree
    <2> QED BY <2>1, NotNull DEF Sound
  <1> QED BY <1>1, <1>2

\* The tree a call inserts into.
Planting(t) == IF t = Null THEN EmptyLeaf ELSE t

\* No tree yet, or one that is sound.
Good(t) == t = Null \/ Tree(t)

\* Whatever the tree before, there is one to insert into, with the same entries.
LEMMA PlantedIn ==
    ASSUME NEW t, Good(t)
    PROVE  Tree(Planting(t)) /\ Entries(Planting(t)) = Entries(t)
  BY EmptyTree, NullEmpty DEF Good, Planting

-----------------------------------------------------------------------------
(***************************************************************************)
(* The specification.                                                      *)
(***************************************************************************)
TreeInv == Good(root)

\* A step of the tree, seen as a set of entries.
LEMMA StepOutcome ==
    ASSUME TreeInv, Next
    PROVE  /\ TreeInv'
           /\ \/ \E item \in Items, rect \in Rects :
                    /\ \A e \in Entries(root) : e.item # item
                    /\ Entries(root') = Entries(root) \union {[item |-> item, rect |-> rect]}
              \/ \E item \in Items, rect \in Rects :
                    \/ /\ Entries(root') = Entries(root)
                       /\ \A e \in Entries(root) : ~(e.item = item /\ Overlap(rect, e.rect))
                    \/ Entries(root') = {e \in Entries(root) : e.item # item}
              \/ Entries(root') = {}
  <1>1. ASSUME NEW item \in Items, NEW rect \in Rects, RtreeInsert(item, rect)
        PROVE  /\ Good(root')
               /\ \A e \in Entries(root) : e.item # item
               /\ Entries(root') = Entries(root) \union {[item |-> item, rect |-> rect]}
    <2> DEFINE entry == [item |-> item, rect |-> rect]
               tree == Planting(root)
    <2>1. entry \in Entry /\ entry.item = item /\ entry = [rect |-> rect, item |-> item]
      BY DEF Entry
    <2>2. root' = InsertRect(tree, entry, 0) /\ \A e \in Entries(root) : e.item # item
      BY <1>1, <2>1 DEF RtreeInsert, Planting
    <2> HIDE DEF entry, tree
    <2>3. Tree(tree) /\ Entries(tree) = Entries(root)
      BY PlantedIn DEF TreeInv, tree
    <2>4. Tree(root') /\ Entries(root') = Entries(tree) \union {entry}
      BY <2>1, <2>2, <2>3, InsertTree
    <2> QED BY <2>2, <2>3, <2>4 DEF Good, entry
  <1>2. ASSUME NEW item \in Items, NEW rect \in Rects, RtreeRemove(item, rect)
        PROVE  /\ Good(root')
               /\ \/ /\ Entries(root') = Entries(root)
                     /\ \A e \in Entries(root) : ~(e.item = item /\ Overlap(rect, e.rect))
                  \/ Entries(root') = {e \in Entries(root) : e.item # item}
    <2>1. Tree(root) /\ root' = RemoveRect(root, rect, item) /\ rect \in RectType
      BY <1>2, RectsAssumption DEF RtreeRemove, TreeInv, Good
    <2> DEFINE new == RemoveRect(root, rect, item)
    <2>2. /\ Tree(new)
          /\ \/ /\ Entries(new) = Entries(root)
                /\ \A e \in Entries(root) : ~(e.item = item /\ Overlap(rect, e.rect))
             \/ Entries(new) = {e \in Entries(root) : e.item # item}
      BY <2>1, RemoveRectIs
    <2> HIDE DEF new
    <2>3. root' = new
      BY <2>1 DEF new
    <2> QED BY <2>2, <2>3 DEF Good
  <1>3. CASE RtreeRemoveAll
    <2>1. root' = Null
      BY <1>3 DEF RtreeRemoveAll
    <2> QED BY <2>1, NullEmpty DEF Good, TreeInv
  <1>4. CASE \E item \in Items, rect \in Rects : RtreeInsert(item, rect)
    BY <1>1, <1>4 DEF TreeInv
  <1>5. CASE \E item \in Items, rect \in Rects : RtreeRemove(item, rect)
    BY <1>2, <1>5 DEF TreeInv
  <1> QED BY <1>3, <1>4, <1>5 DEF Next

\* Through any sequence of insertions, removals and clearings, with any rectangles and items, the
\* tree stays sound.
THEOREM Invariant == Spec => []TreeInv
  <1>1. Init => TreeInv
    BY DEF Init, TreeInv, Good
  <1>2. TreeInv /\ [Next]_root => TreeInv'
    <2>1. CASE UNCHANGED root
      BY <2>1 DEF TreeInv
    <2> QED BY <2>1, StepOutcome
  <1> QED BY <1>1, <1>2, PTL DEF Spec

\* The nodes of a sound tree are sound, and all but its root are children with enough branches.
LEMMA NodesSound ==
    ASSUME NEW l \in Nat, NEW tree, Sound(l, tree), NEW node \in NodesFrom(tree)
    PROVE  node = tree \/ Count(node) >= MIN_NODES
  <1> DEFINE P(n, x) == Sound(n, x) => \A y \in NodesFrom(x) : y = x \/ Count(y) >= MIN_NODES
             S == {n \in Nat : \A x \in Node[n] : P(n, x)}
  <1>1. 0 \in S
    BY NodesAre
  <1>2. ASSUME NEW n \in Nat, n \in S PROVE n + 1 \in S
    <2> SUFFICES ASSUME NEW x \in Node[n + 1], Sound(n + 1, x), NEW y \in NodesFrom(x), y # x
                 PROVE  Count(y) >= MIN_NODES
      OBVIOUS
    <2>1. n + 1 \in Nat \ {0} /\ (n + 1) - 1 = n /\ n + 1 \in Nat /\ n + 1 # 0
      OBVIOUS
    <2>2. NodesFrom(x) = {x} \union UNION {NodesFrom(x.branch[i].child) : i \in Positions(x)}
      BY <2>1, NodesAre
    <2>3. PICK i \in Positions(x) : y \in NodesFrom(x.branch[i].child)
      BY <2>2
    <2>4. /\ Sound(n, x.branch[i].child) /\ Count(x.branch[i].child) >= MIN_NODES
          /\ x.branch[i].child \in Node[n]
      BY <2>1, SoundChild
    <2> QED BY <2>3, <2>4, <1>2
  <1>3. Nat \subseteq S
    <2> HIDE DEF S
    <2> QED BY <1>1, <1>2, NatSubset
  <1> QED BY <1>3 DEF Sound

\* Leaves at one depth, children one level below their parents, and no node over capacity.
THEOREM TypeCorrect == Spec => []TypeOK
  <1>1. TreeInv => TypeOK
    <2> SUFFICES ASSUME root # Null, Tree(root)
                 PROVE  /\ root.level \in Nat
                        /\ root \in Node[root.level]
                        /\ \A node \in Nodes : Count(node) <= MAX_NODES
      BY DEF TreeInv, Good, TypeOK
    <2>1. PICK l \in Nat : Sound(l, root)
      BY DEF Tree
    <2>2. root.level = l /\ root \in Node[l]
      BY <2>1, SoundFields
    <2>3. \A node \in Nodes : Count(node) <= MAX_NODES
      BY <2>1 DEF Sound, Fit, Nodes
    <2> QED BY <2>2, <2>3
  <1> QED BY <1>1, Invariant, PTL

\* Splits (MIN_NODES branches to each half), removals and reinsertions never leave a node other
\* than the root with fewer than MIN_NODES branches.
THEOREM FilledNodes == Spec => []MinimumFill
  <1>1. TreeInv => MinimumFill
    <2> SUFFICES ASSUME TreeInv, NEW node \in Nodes \ {root} PROVE Count(node) >= MIN_NODES
      BY DEF MinimumFill
    <2>1. root # Null /\ node \in NodesFrom(root) /\ node # root
      BY DEF Nodes
    <2>2. PICK l \in Nat : Sound(l, root)
      BY <2>1 DEF TreeInv, Good, Tree
    <2> QED BY <2>1, <2>2, NodesSound
  <1> QED BY <1>1, Invariant, PTL

\* A root that is not a leaf has two branches at least: RemoveRect collapses a root left with one.
THEOREM ChoiceAtRoot == Spec => []RootBranches
  <1>1. TreeInv => RootBranches
    <2> SUFFICES ASSUME root # Null, Tree(root), root.level > 0 PROVE Count(root) >= 2
      BY DEF TreeInv, Good, RootBranches
    <2>1. PICK l \in Nat : Sound(l, root) /\ (l # 0 => Count(root) >= 2)
      BY DEF Tree
    <2>2. root.level = l
      BY <2>1, SoundFields
    <2> QED BY <2>1, <2>2
  <1> QED BY <1>1, Invariant, PTL

\* The rectangle of every branch is exactly the cover of the node it leads to, however the node
\* was last changed: neither too small, so that a search would miss entries, nor left too large.
THEOREM ExactCovers == Spec => []TightCovers
  <1>1. TreeInv => TightCovers
    <2> SUFFICES ASSUME TreeInv, NEW node \in Nodes, node.level > 0, NEW i \in Positions(node)
                 PROVE  node.branch[i].rect = NodeCover(node.branch[i].child)
      BY DEF TightCovers
    <2>1. root # Null /\ node \in NodesFrom(root)
      BY DEF Nodes
    <2>2. PICK l \in Nat : Sound(l, root)
      BY <2>1 DEF TreeInv, Good, Tree
    <2>3. Fit(node)
      BY <2>1, <2>2 DEF Sound
    <2>4. node.level # 0
      OBVIOUS
    <2> QED BY <2>3, <2>4 DEF Fit
  <1> QED BY <1>1, Invariant, PTL

\* A search lists the items of the entries that overlap the window, each of them once.
THEOREM ExactSearch == Spec => []SearchExact
  <1>1. TreeInv => SearchExact
    <2> SUFFICES ASSUME TreeInv, NEW window \in Windows
                 PROVE  LET hits == rtreeSearch(root, window)
                        IN  /\ ToSet(hits) = Hit(Entries(root), window)
                            /\ Len(hits) = Cardinality(ToSet(hits))
      BY DEF SearchExact, Hit
    <2> DEFINE hits == rtreeSearch(root, window)
    <2>1. Listed(hits, Entries(root), window)
      <3>1. CASE root = Null
        <4>1. hits = <<>>
          BY <3>1 DEF rtreeSearch
        <4>2. Entries(root) = {}
          BY <3>1, NullEmpty
        <4> HIDE DEF hits
        <4>3. \A e \in Entries(root) : ~Overlap(window, e.rect)
          BY <4>2
        <4> QED BY <4>1, <4>3, NothingListed
      <3>2. CASE root # Null
        <4>1. PICK l \in Nat : Sound(l, root)
          BY <3>2 DEF TreeInv, Good, Tree
        <4>2. window \in RectType
          BY RectsAssumption
        <4> QED BY <3>2, <4>1, <4>2, SearchListed DEF rtreeSearch
      <3> QED BY <3>1, <3>2
    <2> HIDE DEF hits
    <2>2. Len(hits) = Cardinality(ToSet(hits))
      BY <2>1, InjectiveCardinality DEF Listed
    <2> QED BY <2>1, <2>2 DEF Listed, hits
  <1> QED BY <1>1, Invariant, PTL

\* The tree implements a set of entries with the insertions, removals and clearings of RTreeSpec,
\* step by step: splits, covers and reinsertions are not seen from outside.
THEOREM Refinement == Spec => ImplementsRTreeSpec
  <1>1. Init => Abstract!Init
    BY NullEmpty DEF Init, Abstract!Init
  <1>2. TreeInv /\ [Next]_root => [Abstract!Next]_(Entries(root))
    <2> SUFFICES ASSUME TreeInv, Next PROVE Abstract!Next \/ Entries(root)' = Entries(root)
      <3>1. CASE UNCHANGED root
        BY <3>1
      <3> QED BY <3>1
    <2> DEFINE es == Entries(root)
               new == Entries(root')
    <2>1. ASSUME NEW item \in Items, NEW rect \in Rects,
                 \A e \in es : e.item # item, new = es \union {[item |-> item, rect |-> rect]}
          PROVE  Abstract!Insert(item, rect)
      BY <2>1 DEF Abstract!Insert, Abstract!ItemsOf, Abstract!Inserted
    <2>2. ASSUME NEW item \in Items, NEW rect \in Rects,
                 \/ /\ new = es
                    /\ \A e \in es : ~(e.item = item /\ Overlap(rect, e.rect))
                 \/ new = {e \in es : e.item # item}
          PROVE  Abstract!Remove(item, rect)
      <3>1. CASE new = es /\ \A e \in es : ~(e.item = item /\ Overlap(rect, e.rect))
        BY <3>1 DEF Abstract!Remove, Abstract!RemoveOutcomes, Abstract!Overlap, Overlap, Abstract!Dims, Dims
      <3>2. CASE new = {e \in es : e.item # item}
        BY <3>2 DEF Abstract!Remove, Abstract!RemoveOutcomes
      <3> QED BY <2>2, <3>1, <3>2
    <2>3. CASE new = {}
      BY <2>3 DEF Abstract!Next, Abstract!RemoveAll
    <2>4. CASE \E item \in Items, rect \in Rects :
                  /\ \A e \in es : e.item # item
                  /\ new = es \union {[item |-> item, rect |-> rect]}
      BY <2>1, <2>4 DEF Abstract!Next
    <2>5. CASE \E item \in Items, rect \in Rects :
                  \/ /\ new = es
                     /\ \A e \in es : ~(e.item = item /\ Overlap(rect, e.rect))
                  \/ new = {e \in es : e.item # item}
      BY <2>2, <2>5 DEF Abstract!Next
    <2> QED BY <2>3, <2>4, <2>5, StepOutcome
  <1> QED BY <1>1, <1>2, Invariant, PTL DEF Spec, ImplementsRTreeSpec, Abstract!Spec

-----------------------------------------------------------------------------
(***************************************************************************)
(* The tree of a key (SpatialTree), for any fields, any rectangles with    *)
(* their bounds in order and any number of sets: the index, which the      *)
(* commands change by insertions and removals, keeps up with its fields.   *)
(***************************************************************************)
\* An item is in a tree once.
LEMMA ItemsOnce ==
    ASSUME NEW l \in Nat, NEW tree, Sound(l, tree),
           NEW e \in Entries(tree), NEW f \in Entries(tree), e.item = f.item
    PROVE  e = f
  <1> DEFINE P(n, x) == Sound(n, x) => \A y, z \in Entries(x) : y.item = z.item => y = z
             S == {n \in Nat : \A x \in Node[n] : P(n, x)}
  <1>1. ASSUME NEW n \in Nat, n = 0 \/ n - 1 \in S, NEW x, Sound(n, x),
               NEW y \in Entries(x), NEW z \in Entries(x), y.item = z.item
        PROVE  y = z
    <2>1. GoodBranches(n, x.branch) /\ Positions(x) = DOMAIN x.branch /\ Entries(x) = UnderAll(n, x.branch)
      BY <1>1, SoundFields
    <2>2. PICK i \in Positions(x) : y \in Under(n, x.branch[i])
      BY <2>1 DEF UnderAll
    <2>3. PICK j \in Positions(x) : z \in Under(n, x.branch[j])
      BY <2>1 DEF UnderAll
    <2>4. i = j
      <3>1. i # j => Apart(Under(n, x.branch[i]), Under(n, x.branch[j]))
        BY <2>1 DEF GoodBranches
      <3> QED BY <3>1, <2>2, <2>3, <1>1 DEF Apart
    <2>5. CASE n = 0
      BY <2>2, <2>3, <2>4, <2>5 DEF Under
    <2>6. CASE n # 0
      <3>1. n \in Nat \ {0} /\ n - 1 \in S
        BY <1>1, <2>6
      <3>2. Sound(n - 1, x.branch[i].child) /\ Under(n, x.branch[i]) = Entries(x.branch[i].child)
                /\ x.branch[i].child \in Node[n - 1]
        BY <3>1, <1>1, SoundChild
      <3>3. P(n - 1, x.branch[i].child)
        BY <3>1, <3>2
      <3> QED BY <3>2, <3>3, <2>2, <2>3, <2>4, <1>1
    <2> QED BY <2>5, <2>6
  <1>2. 0 \in S
    BY <1>1
  <1>3. ASSUME NEW n \in Nat, n \in S PROVE n + 1 \in S
    <2>1. n + 1 \in Nat /\ (n + 1) - 1 \in S
      BY <1>3
    <2> HIDE DEF S
    <2>2. \A x \in Node[n + 1] : P(n + 1, x)
      BY <2>1, <1>1
    <2> QED BY <2>1, <2>2 DEF S
  <1>4. Nat \subseteq S
    <2> HIDE DEF S
    <2> QED BY <1>2, <1>3, NatSubset
  <1> QED BY <1>4 DEF Sound

\* The current entry of each field is in the tree, no two fields share an id, and no entry,
\* left behind or not, has an id that is still to be given out.
Current(es, st, n) ==
    /\ n \in Nat
    /\ \A e \in es : e.item \in 1 .. n
    /\ \A f \in DOMAIN st : st[f] \in es
    /\ \A f, g \in DOMAIN st : f # g => st[f].item # st[g].item

\* The inductive invariant of the specification.
FieldsInv == Good(root) /\ Current(Entries(root), stored, idx)

\* A set whose field exists removes the entry it had with the rectangle of the NEW value, so that
\* entry may stay behind; the entry of the new value is in the tree in any case, under a new id.
LEMMA SetStep ==
    ASSUME FieldsInv, NEW f \in Fields, NEW rect \in Rects, TreeSet(f, rect)
    PROVE  /\ FieldsInv'
           /\ Entries(root') \in {Index!Inserted(es, idx', rect) :
                        es \in IF f \in DOMAIN stored
                              THEN Index!RemoveOutcomes(Entries(root), stored[f].item, rect)
                              ELSE {Entries(root)}}
  <1> DEFINE entry == [item |-> idx + 1, rect |-> rect]
             cleared == IF f \in DOMAIN stored THEN RemoveRect(root, rect, stored[f].item) ELSE root
             before == Entries(root)
             left == Entries(cleared)
  <1>1. /\ Good(root) /\ idx \in Nat /\ \A e \in before : e.item \in 1 .. idx
        /\ \A g \in DOMAIN stored : stored[g] \in before
        /\ \A g, h \in DOMAIN stored : g # h => stored[g].item # stored[h].item
    BY DEF FieldsInv, Current
  <1>2. /\ idx < MaxSets /\ root' = Planted(cleared, entry) /\ idx' = idx + 1
        /\ stored' = [x \in DOMAIN stored \union {f} |-> IF x = f THEN entry ELSE stored[x]]
    BY DEF TreeSet
  <1>3. entry \in Entry /\ entry.item = idx + 1 /\ entry.rect = rect
    <2>1. idx + 1 \in Items
      BY <1>1, <1>2, SetsAssumption
    <2> QED BY <2>1 DEF Entry
  <1> HIDE DEF entry, cleared
  <1>4. /\ Good(cleared)
        /\ \A e \in left : e \in before
        /\ \A e \in before : e \in left \/ (f \in DOMAIN stored /\ e.item = stored[f].item)
        /\ left \in IF f \in DOMAIN stored
                    THEN Index!RemoveOutcomes(before, stored[f].item, rect)
                    ELSE {before}
    <2>1. CASE f \notin DOMAIN stored
      <3>1. cleared = root
        BY <2>1 DEF cleared
      <3> QED BY <2>1, <3>1, <1>1
    <2>2. CASE f \in DOMAIN stored
      <3> DEFINE item == stored[f].item
                 after == RemoveRect(root, rect, item)
      <3>1. cleared = after
        BY <2>2 DEF cleared
      <3>2. Tree(root)
        <4>1. before # {}
          BY <2>2, <1>1
        <4> QED BY <4>1, <1>1, NullEmpty DEF Good
      <3>3. rect \in RectType
        BY RectsAssumption
      <3> HIDE DEF item
      <3>4. /\ Tree(after)
            /\ \/ /\ Entries(after) = before
                  /\ \A e \in before : ~(e.item = item /\ Overlap(rect, e.rect))
               \/ Entries(after) = {e \in before : e.item # item}
        BY <3>2, <3>3, RemoveRectIs
      <3> HIDE DEF after
      <3>5. Entries(after) \in Index!RemoveOutcomes(before, item, rect)
        <4>1. CASE Entries(after) = before /\ \A e \in before : ~(e.item = item /\ Overlap(rect, e.rect))
          BY <4>1 DEF Index!RemoveOutcomes, Index!Overlap, Overlap, Index!Dims, Dims
        <4>2. CASE Entries(after) = {e \in before : e.item # item}
          BY <4>2 DEF Index!RemoveOutcomes
        <4> QED BY <3>4, <4>1, <4>2
      <3>6. /\ \A e \in left : e \in before
            /\ \A e \in before : e \in left \/ e.item = item
        BY <3>1, <3>4
      <3> QED BY <2>2, <3>1, <3>4, <3>5, <3>6 DEF Good, item
    <2> QED BY <2>1, <2>2
  <1>5. Tree(Planting(cleared)) /\ Entries(Planting(cleared)) = left
    BY <1>4, PlantedIn
  <1>6. \A e \in left : e.item # entry.item
    <2> SUFFICES ASSUME NEW e \in left PROVE e.item # idx + 1
      BY <1>3
    <2>1. e.item \in 1 .. idx
      BY <1>1, <1>4
    <2> QED BY <2>1, <1>1
  <1>7. Tree(root') /\ Entries(root') = left \union {entry}
    <2>1. root' = InsertRect(Planting(cleared), entry, 0)
      BY <1>2 DEF Planted, Planting
    <2>2. /\ Tree(InsertRect(Planting(cleared), entry, 0))
          /\ Entries(InsertRect(Planting(cleared), entry, 0)) = left \union {entry}
      BY <1>3, <1>5, <1>6, InsertTree
    <2> QED BY <2>1, <2>2
  <1>8. Current(Entries(root'), stored', idx')
    <2>1. idx' \in Nat /\ \A e \in Entries(root') : e.item \in 1 .. idx'
      <3>1. \A e \in left : e.item \in 1 .. idx
        BY <1>1, <1>4
      <3> QED BY <3>1, <1>1, <1>2, <1>3, <1>7
    <2>2. /\ DOMAIN stored' = DOMAIN stored \union {f} /\ stored'[f] = entry
          /\ \A g \in DOMAIN stored' : g # f => g \in DOMAIN stored /\ stored'[g] = stored[g]
      BY <1>2
    <2>3. \A g \in DOMAIN stored' : stored'[g] \in Entries(root')
      <3> SUFFICES ASSUME NEW g \in DOMAIN stored' PROVE stored'[g] \in Entries(root')
        OBVIOUS
      <3>1. CASE g = f
        BY <3>1, <2>2, <1>7
      <3>2. CASE g # f
        <4>1. g \in DOMAIN stored /\ stored'[g] = stored[g]
          BY <3>2, <2>2
        <4>2. f \in DOMAIN stored => stored[g].item # stored[f].item
          BY <3>2, <4>1, <1>1
        <4>3. stored[g] \in left
          BY <4>1, <4>2, <1>1, <1>4
        <4> QED BY <4>1, <4>3, <1>7
      <3> QED BY <3>1, <3>2
    <2>4. \A g \in DOMAIN stored : stored[g].item # entry.item
      <3> SUFFICES ASSUME NEW g \in DOMAIN stored PROVE stored[g].item # idx + 1
        BY <1>3
      <3>1. stored[g].item \in 1 .. idx
        BY <1>1
      <3> QED BY <3>1, <1>1
    <2>5. ASSUME NEW g \in DOMAIN stored', NEW h \in DOMAIN stored', g # h
          PROVE  stored'[g].item # stored'[h].item
      <3>1. CASE g = f
        BY <3>1, <2>2, <2>4, <2>5
      <3>2. CASE h = f
        BY <3>2, <2>2, <2>4, <2>5
      <3>3. CASE g # f /\ h # f
        BY <3>3, <2>2, <2>5, <1>1
      <3> QED BY <3>1, <3>2, <3>3
    <2> QED BY <2>1, <2>3, <2>5 DEF Current
  <1>9. Entries(root') = Index!Inserted(left, idx', rect)
    BY <1>2, <1>7 DEF Index!Inserted, entry
  <1>10. FieldsInv'
    BY <1>7, <1>8 DEF FieldsInv, Good
  <1> QED BY <1>4, <1>9, <1>10

\* A deletion removes with the rectangle of the stored value, which finds its entry.
LEMMA DelStep ==
    ASSUME FieldsInv, NEW f \in Fields, TreeDel(f)
    PROVE  /\ FieldsInv'
           /\ f \in DOMAIN stored
           /\ Entries(root') = IF DOMAIN stored = {f} THEN {}
                               ELSE {e \in Entries(root) : e.item # stored[f].item}
  <1> DEFINE item == stored[f].item
             rect == stored[f].rect
             before == Entries(root)
  <1>1. /\ Good(root) /\ idx \in Nat /\ \A e \in before : e.item \in 1 .. idx
        /\ \A g \in DOMAIN stored : stored[g] \in before
        /\ \A g, h \in DOMAIN stored : g # h => stored[g].item # stored[h].item
    BY DEF FieldsInv, Current
  <1>2. /\ f \in DOMAIN stored /\ idx' = idx
        /\ stored' = [x \in DOMAIN stored \ {f} |-> stored[x]]
        /\ root' = IF DOMAIN stored = {f} THEN Null ELSE RemoveRect(root, rect, item)
    BY DEF TreeDel
  <1>3. /\ DOMAIN stored' = DOMAIN stored \ {f}
        /\ \A g \in DOMAIN stored' : g # f /\ g \in DOMAIN stored /\ stored'[g] = stored[g]
    BY <1>2
  <1>4. CASE DOMAIN stored = {f}
    <2>1. root' = Null /\ Entries(root') = {}
      BY <1>2, <1>4, NullEmpty
    <2>2. DOMAIN stored' = {}
      BY <1>3, <1>4
    <2>3. FieldsInv'
      BY <2>1, <2>2, <1>1, <1>2 DEF FieldsInv, Current, Good
    <2> QED BY <2>1, <2>3, <1>2, <1>4
  <1>5. CASE DOMAIN stored # {f}
    <2> DEFINE new == RemoveRect(root, rect, item)
    <2>1. stored[f] \in before
      BY <1>1, <1>2
    <2>2. Tree(root)
      BY <2>1, <1>1, NullEmpty DEF Good
    <2>3. rect \in Rects /\ rect \in RectType /\ Overlap(rect, rect)
      <3>1. PICK l \in Nat : Sound(l, root)
        BY <2>2 DEF Tree
      <3>2. before \in SUBSET Entry
        BY <3>1, EntriesType DEF Sound
      <3>3. rect \in Rects
        BY <2>1, <3>2 DEF Entry
      <3>4. Ordered(rect) /\ rect \in RectType
        BY <3>3, BoundsAssumption, RectsAssumption
      <3> QED BY <3>3, <3>4 DEF Ordered, Overlap
    <2>4. /\ Tree(new)
          /\ \/ /\ Entries(new) = before
                /\ \A e \in before : ~(e.item = item /\ Overlap(rect, e.rect))
             \/ Entries(new) = {e \in before : e.item # item}
      <3> HIDE DEF item, rect
      <3> QED BY <2>2, <2>3, RemoveRectIs
    <2> HIDE DEF new
    <2>5. Entries(new) = {e \in before : e.item # item}
      BY <2>1, <2>3, <2>4
    <2>6. root' = new
      BY <1>2, <1>5 DEF new
    <2>7. Current(Entries(new), stored', idx')
      <3>1. \A e \in Entries(new) : e.item \in 1 .. idx'
        BY <1>1, <1>2, <2>5
      <3>2. \A g \in DOMAIN stored' : stored'[g] \in Entries(new)
        BY <1>1, <1>2, <1>3, <2>5
      <3>3. \A g, h \in DOMAIN stored' : g # h => stored'[g].item # stored'[h].item
        BY <1>1, <1>3
      <3> QED BY <3>1, <3>2, <3>3, <1>1, <1>2 DEF Current
    <2>8. FieldsInv'
      BY <2>4, <2>6, <2>7 DEF FieldsInv, Good
    <2> QED BY <2>5, <2>6, <2>8, <1>2, <1>5
  <1> QED BY <1>4, <1>5

\* Through any sequence of sets and deletions the tree stays sound and has the current entry of
\* every field.
THEOREM FieldsInvariant == TreeSpec => []FieldsInv
  <1>1. TreeInit => FieldsInv
    BY NullEmpty DEF TreeInit, FieldsInv, Current, Good, NoFields
  <1>2. FieldsInv /\ [TreeNext]_treeVars => FieldsInv'
    <2>1. CASE UNCHANGED treeVars
      BY <2>1 DEF treeVars, FieldsInv
    <2>2. CASE TreeNext
      BY <2>2, SetStep, DelStep DEF TreeNext
    <2> QED BY <2>1, <2>2
  <1> QED BY <1>1, <1>2, PTL DEF TreeSpec

\* Every set and every deletion changes the index as the specification of the index says, with
\* the removal that may miss its entry where the code calls it with the new rectangle.
THEOREM IndexAsSpecified == TreeSpec => IndexSteps
  <1> DEFINE Step == \E f \in Fields :
          \/ \E rect \in Rects :
                Entries(root)' \in
                    {Index!Inserted(es, idx', rect) :
                        es \in IF f \in DOMAIN stored
                              THEN Index!RemoveOutcomes(Entries(root), stored[f].item, rect)
                              ELSE {Entries(root)}}
          \/ /\ f \in DOMAIN stored
             /\ Entries(root)' =
                   IF DOMAIN stored = {f} THEN {}
                   ELSE {e \in Entries(root) : e.item # stored[f].item}
  <1>1. FieldsInv /\ [TreeNext]_treeVars => [Step]_treeVars
    <2>1. CASE UNCHANGED treeVars
      BY <2>1
    <2>2. ASSUME FieldsInv, NEW f \in Fields, NEW rect \in Rects, TreeSet(f, rect) PROVE Step
      BY <2>2, SetStep
    <2>3. ASSUME FieldsInv, NEW f \in Fields, TreeDel(f) PROVE Step
      BY <2>3, DelStep
    <2> QED BY <2>1, <2>2, <2>3 DEF TreeNext
  <1>2. IndexSteps <=> [][Step]_treeVars
    BY PTL DEF IndexSteps
  <1> QED BY <1>1, <1>2, FieldsInvariant, PTL DEF TreeSpec

\* A search finds a field exactly once when its rectangle overlaps the window and not otherwise,
\* whatever entries earlier values have left behind.
THEOREM FieldsFound == TreeSpec => []LiveFieldsFound
  <1>1. FieldsInv => LiveFieldsFound
    <2> SUFFICES ASSUME FieldsInv, NEW window \in Windows, NEW f \in DOMAIN stored
                 PROVE  Cardinality({n \in DOMAIN rtreeSearch(root, window) :
                                         rtreeSearch(root, window)[n] = stored[f].item})
                           = IF Overlap(window, stored[f].rect) THEN 1 ELSE 0
      BY DEF LiveFieldsFound
    <2> DEFINE hits == rtreeSearch(root, window)
               item == stored[f].item
               live == {n \in DOMAIN hits : hits[n] = item}
    <2>1. Good(root) /\ stored[f] \in Entries(root)
      BY DEF FieldsInv, Current
    <2>2. PICK l \in Nat : Sound(l, root)
      BY <2>1, NullEmpty DEF Good, Tree
    <2>3. root # Null
      BY <2>2, NotNull DEF Sound
    <2>4. Listed(hits, Entries(root), window)
      <3>1. window \in RectType
        BY RectsAssumption
      <3> QED BY <3>1, <2>2, <2>3, SearchListed DEF rtreeSearch
    <2> HIDE DEF hits
    <2>5. ToSet(hits) = Hit(Entries(root), window) /\ IsInjective(hits)
      BY <2>4 DEF Listed
    <2>6. item \in Hit(Entries(root), window) <=> Overlap(window, stored[f].rect)
      <3>1. \A e \in Entries(root) : e.item = item => e = stored[f]
        BY <2>1, <2>2, ItemsOnce
      <3> QED BY <3>1, <2>1 DEF Hit
    <2>7. CASE Overlap(window, stored[f].rect)
      <3>1. PICK n \in DOMAIN hits : hits[n] = item
        BY <2>5, <2>6, <2>7 DEF ToSet
      <3>2. live = {n}
        BY <3>1, <2>5 DEF IsInjective
      <3>3. Cardinality(live) = 1
        BY <3>2, FS_Singleton
      <3> QED BY <3>3, <2>7 DEF hits
    <2>8. CASE ~Overlap(window, stored[f].rect)
      <3>1. live = {}
        BY <2>5, <2>6, <2>8 DEF ToSet
      <3>2. Cardinality(live) = 0
        BY <3>1, FS_EmptySet
      <3> QED BY <3>2, <2>8 DEF hits
    <2> QED BY <2>7, <2>8
  <1> QED BY <1>1, FieldsInvariant, PTL
=============================================================================
