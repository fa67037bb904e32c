---------------------------- MODULE ServerProofs ----------------------------
(***************************************************************************)
(* Proofs about Server, for any keys, fields and geometries: what a master *)
(* and the readers of its commands agree on.                               *)
(***************************************************************************)
EXTENDS Server, SequenceLemmas, TLAPS

-----------------------------------------------------------------------------
(***************************************************************************)
(* Values and commands.                                                    *)
(***************************************************************************)
\* A map is a function on a part of Fields.
LEMMA MapMembers ==
    ASSUME NEW m
    PROVE  m \in Maps <=> DOMAIN m \subseteq Fields /\ m \in [DOMAIN m -> Geoms]
  BY DEF Maps

\* Only a value of the module has fields.
WellFormed(v) == v \in Value /\ (v.type # "exgistype" => v.map = NoFields)

LEMMA SimpleValues ==
    /\ WellFormed(Absent)
    /\ WellFormed(RedisString)
    /\ \A m \in Maps : WellFormed(Gis(m))
  BY MapMembers DEF WellFormed, Value, Absent, RedisString, Gis, NoFields

\* The positions that are stored hold pairs that decode.
LEMMA DecodedPairs ==
    ASSUME NEW pairs \in Seq(Fields \X (Geoms \union {Bad})), NEW n \in Decoded(pairs)
    PROVE  n \in DOMAIN pairs /\ pairs[n][1] \in Fields /\ pairs[n][2] \in Geoms
  <1>1. n \in DOMAIN pairs /\ n \in Nat /\ pairs[n] \in Fields \X (Geoms \union {Bad})
    BY DEF Decoded
  <1>2. pairs[n][2] # Bad
    BY <1>1 DEF Decoded
  <1> QED BY <1>1, <1>2

\* Some position is the last one for its field.
LEMMA LastPosition ==
    ASSUME NEW n \in Nat, NEW S \in SUBSET (1 .. n), S # {}
    PROVE  \E m \in S : \A x \in S : x <= m
  <1> DEFINE T == {n - x : x \in S}
  <1>1. T \in SUBSET Nat /\ T # {}
    OBVIOUS
  <1>2. PICK k \in T : \A x \in T : k <= x
    <2> DEFINE less == {p \in Nat \X Nat : p[1] < p[2]}
    <2>1. IsWellFoundedOn(less, Nat)
      BY Zenon, NatLessThanWellFounded DEF OpToRel
    <2>2. PICK k \in T : \A x \in T : <<x, k>> \notin less
      BY <1>1, <2>1, WFMin
    <2>3. \A x \in T : ~(x < k)
      BY <1>1, <2>2
    <2> QED BY <1>1, <2>3
  <1>3. PICK m \in S : k = n - m
    BY <1>2
  <1>4. \A x \in S : n - m <= n - x
    BY <1>2, <1>3
  <1> QED BY <1>3, <1>4

\* Storing the pairs of a GIS.ADD leaves the fields that are not among them alone.
LEMMA StoredMap ==
    ASSUME NEW m \in Maps, NEW pairs \in Seq(Fields \X (Geoms \union {Bad}))
    PROVE  /\ Stored(m, pairs) \in Maps
           /\ FieldsOf(pairs, Decoded(pairs)) \subseteq Fields
           /\ DOMAIN Stored(m, pairs) = DOMAIN m \union FieldsOf(pairs, Decoded(pairs))
           /\ \A f \in DOMAIN m \ FieldsOf(pairs, Decoded(pairs)) : Stored(m, pairs)[f] = m[f]
  <1> DEFINE positions == Decoded(pairs)
             named == FieldsOf(pairs, positions)
             last(f) == CHOOSE x \in positions :
                           pairs[x][1] = f /\ \A y \in positions : pairs[y][1] = f => y <= x
  <1>1. \A x \in positions : pairs[x][1] \in Fields /\ pairs[x][2] \in Geoms
    BY DecodedPairs
  <1>2. named \subseteq Fields
    BY <1>1 DEF FieldsOf
  <1>3. ASSUME NEW f \in named PROVE pairs[last(f)][2] \in Geoms
    <2> DEFINE S == {x \in positions : pairs[x][1] = f}
    <2>1. S \in SUBSET (1 .. Len(pairs)) /\ S # {} /\ Len(pairs) \in Nat
      BY DEF FieldsOf, Decoded
    <2>2. \E x \in S : \A y \in S : y <= x
      BY <2>1, LastPosition
    <2>3. last(f) \in positions
      BY <2>2
    <2> QED BY <2>3, <1>1
  <1>4. DOMAIN m \subseteq Fields /\ m \in [DOMAIN m -> Geoms]
    BY MapMembers
  <1>5. Stored(m, pairs) = [f \in DOMAIN m \union named |-> IF f \in named THEN pairs[last(f)][2] ELSE m[f]]
    BY DEF Stored
  <1> HIDE DEF positions, named, last
  <1>6. DOMAIN Stored(m, pairs) \subseteq Fields /\ Stored(m, pairs) \in [DOMAIN Stored(m, pairs) -> Geoms]
    BY <1>2, <1>3, <1>4, <1>5
  <1>7. Stored(m, pairs) \in Maps
    BY <1>6, MapMembers
  <1> QED BY <1>2, <1>5, <1>7 DEF named, positions

\* It sets a field that is among them to one and the same geometry in every map.
LEMMA StoredAlike ==
    ASSUME NEW m, NEW n, NEW pairs
    PROVE  \A f \in FieldsOf(pairs, Decoded(pairs)) : Stored(m, pairs)[f] = Stored(n, pairs)[f]
  BY DEF Stored

-----------------------------------------------------------------------------
(***************************************************************************)
(* Agreement of a master's value d and a reader's value v, except on the   *)
(* fields of S.                                                            *)
(***************************************************************************)
Agree(v, d, S) ==
    /\ WellFormed(v)
    /\ WellFormed(d)
    /\ v.type = "string" <=> d.type = "string"
    /\ \A f \in Fields \ S :
          /\ f \in DOMAIN v.map <=> f \in DOMAIN d.map
          /\ f \in DOMAIN d.map => v.map[f] = d.map[f]

\* The fields of a set of key-field pairs that belong to one key.
SuspectOf(s, k) == {f \in Fields : <<k, f>> \in s}

\* A value agrees with itself.
LEMMA AgreeWithItself ==
    ASSUME NEW v, WellFormed(v), NEW S
    PROVE  Agree(v, v, S)
  BY DEF Agree

\* A command leaves a well-formed value.
LEMMA ResultWellFormed ==
    ASSUME NEW v, WellFormed(v), NEW cmd \in Commands
    PROVE  WellFormed(Result(v, cmd))
  <1>1. CASE cmd.op = "gis.add"
    <2>1. cmd.pairs \in Seq(Fields \X (Geoms \union {Bad})) /\ v.map \in Maps
      BY <1>1 DEF Commands, WellFormed, Value
    <2>2. Stored(v.map, cmd.pairs) \in Maps
      BY <2>1, StoredMap
    <2> QED BY <1>1, <2>2, SimpleValues DEF Result, GisAddTo
  <1>2. CASE cmd.op = "gis.del"
    <2> DEFINE rest == [x \in DOMAIN v.map \ {cmd.field} |-> v.map[x]]
    <2>1. v.map \in Maps
      BY DEF WellFormed, Value
    <2>2. DOMAIN rest \subseteq Fields /\ rest \in [DOMAIN rest -> Geoms]
      BY <2>1, MapMembers
    <2>3. rest \in Maps
      BY <2>2, MapMembers
    <2>4. WellFormed(Gis(rest))
      BY <2>3, SimpleValues
    <2> QED BY <1>2, <2>4, SimpleValues DEF Result, GisDelFrom
  <1>3. CASE cmd.op \in {"set", "del"}
    BY <1>3, SimpleValues DEF Result
  <1> QED BY <1>1, <1>2, <1>3 DEF Commands

\* A replicated command makes the fields it touches agree, and the others stay as they are.
LEMMA ReplicatedAgree ==
    ASSUME NEW v, NEW d, NEW S, NEW T, Agree(v, d, S), NEW cmd \in Commands,
           Replicated(d, cmd),
           \A f \in Fields : f \in T <=> f \in S /\ <<cmd.key, f>> \notin Touched(d, cmd)
    PROVE  Agree(Result(v, cmd), Result(d, cmd), T)
  <1>a. WellFormed(v) /\ WellFormed(d) /\ v.map \in Maps /\ d.map \in Maps
    BY DEF Agree, WellFormed, Value
  <1>b. WellFormed(Result(v, cmd)) /\ WellFormed(Result(d, cmd))
    BY <1>a, ResultWellFormed
  <1>1. CASE cmd.op = "gis.add"
    <2> DEFINE named == FieldsOf(cmd.pairs, Decoded(cmd.pairs))
    <2>1. cmd.pairs \in Seq(Fields \X (Geoms \union {Bad}))
      BY <1>1 DEF Commands
    <2>2. d.type # "string" /\ v.type # "string"
      BY <1>1 DEF Replicated, Agree
    <2>3. Result(v, cmd) = Gis(Stored(v.map, cmd.pairs)) /\ Result(d, cmd) = Gis(Stored(d.map, cmd.pairs))
      BY <1>1, <2>2 DEF Result, GisAddTo
    <2>4. \A f \in Fields : <<cmd.key, f>> \in Touched(d, cmd) <=> f \in named
      BY <1>1, <2>2 DEF Touched
    <2>5. /\ DOMAIN Stored(v.map, cmd.pairs) = DOMAIN v.map \union named
          /\ DOMAIN Stored(d.map, cmd.pairs) = DOMAIN d.map \union named
          /\ \A f \in named : Stored(v.map, cmd.pairs)[f] = Stored(d.map, cmd.pairs)[f]
          /\ \A f \in DOMAIN v.map \ named : Stored(v.map, cmd.pairs)[f] = v.map[f]
          /\ \A f \in DOMAIN d.map \ named : Stored(d.map, cmd.pairs)[f] = d.map[f]
      <3> DEFINE pairs == cmd.pairs
                 m == v.map
                 n == d.map
      <3>1. m \in Maps /\ n \in Maps /\ pairs \in Seq(Fields \X (Geoms \union {Bad}))
        BY <1>a, <2>1
      <3> HIDE DEF pairs, m, n
      <3>2. /\ DOMAIN Stored(m, pairs) = DOMAIN m \union FieldsOf(pairs, Decoded(pairs))
            /\ \A f \in DOMAIN m \ FieldsOf(pairs, Decoded(pairs)) : Stored(m, pairs)[f] = m[f]
        BY <3>1, StoredMap
      <3>3. /\ DOMAIN Stored(n, pairs) = DOMAIN n \union FieldsOf(pairs, Decoded(pairs))
            /\ \A f \in DOMAIN n \ FieldsOf(pairs, Decoded(pairs)) : Stored(n, pairs)[f] = n[f]
        BY <3>1, StoredMap
      <3>4. \A f \in FieldsOf(pairs, Decoded(pairs)) : Stored(m, pairs)[f] = Stored(n, pairs)[f]
        BY StoredAlike
      <3> QED BY <3>2, <3>3, <3>4 DEF pairs, m, n
    <2> HIDE DEF named
    <2>6. /\ Result(v, cmd).type = Result(d, cmd).type
          /\ Result(v, cmd).map = Stored(v.map, cmd.pairs)
          /\ Result(d, cmd).map = Stored(d.map, cmd.pairs)
      BY <2>3 DEF Gis
    <2>7. ASSUME NEW f \in Fields \ T
          PROVE  /\ f \in DOMAIN Result(v, cmd).map <=> f \in DOMAIN Result(d, cmd).map
                 /\ f \in DOMAIN Result(d, cmd).map => Result(v, cmd).map[f] = Result(d, cmd).map[f]
      <3>1. CASE f \in named
        BY <3>1, <2>5, <2>6
      <3>2. CASE f \notin named
        <4>1. f \in Fields \ S
          BY <3>2, <2>4
        <4>2. /\ f \in DOMAIN v.map <=> f \in DOMAIN d.map
              /\ f \in DOMAIN d.map => v.map[f] = d.map[f]
          BY <4>1 DEF Agree
        <4> QED BY <3>2, <4>2, <2>5, <2>6
      <3> QED BY <3>1, <3>2
    <2> QED BY <1>b, <2>6, <2>7 DEF Agree
  <1>2. CASE cmd.op = "gis.del"
    <2>1. cmd.field \in DOMAIN d.map /\ cmd.field \in Fields
      BY <1>2 DEF Replicated, Commands
    <2>2. \A f \in Fields : <<cmd.key, f>> \in Touched(d, cmd) <=> f = cmd.field
      BY <1>2, <2>1 DEF Touched
    <2>3. d.type = "exgistype" /\ v.type # "string"
      BY <2>1, <1>a DEF WellFormed, NoFields, Agree, Value
    <2>4. ASSUME NEW u, WellFormed(u), u.type # "string"
          PROVE  /\ Result(u, cmd).type # "string"
                 /\ DOMAIN Result(u, cmd).map = DOMAIN u.map \ {cmd.field}
                 /\ \A f \in DOMAIN u.map \ {cmd.field} : Result(u, cmd).map[f] = u.map[f]
      BY <1>2, <2>4 DEF Result, GisDelFrom, Gis, Absent, NoFields
    <2>5. d.type # "string"
      BY <2>3
    <2>6. ASSUME NEW f \in Fields \ T
          PROVE  /\ f \in DOMAIN Result(v, cmd).map <=> f \in DOMAIN Result(d, cmd).map
                 /\ f \in DOMAIN Result(d, cmd).map => Result(v, cmd).map[f] = Result(d, cmd).map[f]
      <3>1. CASE f = cmd.field
        BY <3>1, <1>a, <2>3, <2>4, <2>5
      <3>2. CASE f # cmd.field
        <4>1. f \in Fields \ S
          BY <3>2, <2>2
        <4>2. /\ f \in DOMAIN v.map <=> f \in DOMAIN d.map
              /\ f \in DOMAIN d.map => v.map[f] = d.map[f]
          BY <4>1 DEF Agree
        <4> QED BY <3>2, <4>2, <1>a, <2>3, <2>4, <2>5
      <3> QED BY <3>1, <3>2
    <2>7. Result(v, cmd).type # "string" /\ Result(d, cmd).type # "string"
      BY <1>a, <2>3, <2>4, <2>5
    <2> QED BY <1>b, <2>6, <2>7 DEF Agree
  <1>3. CASE cmd.op \in {"set", "del"}
    BY <1>3, <1>b DEF Agree, Result
  <1> QED BY <1>1, <1>2, <1>3 DEF Commands

\* A command that is not replicated changes no more of the master's value than it touches.
LEMMA UnreplicatedAgree ==
    ASSUME NEW v, NEW d, NEW S, NEW T, Agree(v, d, S), NEW cmd \in Commands,
           ~Replicated(d, cmd),
           \A f \in Fields : f \in T <=> f \in S \/ <<cmd.key, f>> \in Touched(d, cmd)
    PROVE  Agree(v, Result(d, cmd), T)
  <1>a. WellFormed(v) /\ WellFormed(d) /\ d.map \in Maps
    BY DEF Agree, WellFormed, Value
  <1>b. WellFormed(Result(d, cmd))
    BY <1>a, ResultWellFormed
  <1>1. CASE cmd.op = "gis.add" /\ d.type # "string"
    <2> DEFINE named == FieldsOf(cmd.pairs, Decoded(cmd.pairs))
    <2>1. cmd.pairs \in Seq(Fields \X (Geoms \union {Bad}))
      BY <1>1 DEF Commands
    <2>2. Result(d, cmd) = Gis(Stored(d.map, cmd.pairs))
      BY <1>1 DEF Result, GisAddTo
    <2>3. \A f \in Fields : <<cmd.key, f>> \in Touched(d, cmd) <=> f \in named
      BY <1>1 DEF Touched
    <2>4. /\ DOMAIN Stored(d.map, cmd.pairs) = DOMAIN d.map \union named
          /\ \A f \in DOMAIN d.map \ named : Stored(d.map, cmd.pairs)[f] = d.map[f]
      <3> DEFINE pairs == cmd.pairs
                 n == d.map
      <3>1. n \in Maps /\ pairs \in Seq(Fields \X (Geoms \union {Bad}))
        BY <1>a, <2>1
      <3> HIDE DEF pairs, n
      <3>2. /\ DOMAIN Stored(n, pairs) = DOMAIN n \union FieldsOf(pairs, Decoded(pairs))
            /\ \A f \in DOMAIN n \ FieldsOf(pairs, Decoded(pairs)) : Stored(n, pairs)[f] = n[f]
        BY <3>1, StoredMap
      <3> QED BY <3>2 DEF pairs, n
    <2> HIDE DEF named
    <2>5. Result(d, cmd).type = "exgistype" /\ Result(d, cmd).map = Stored(d.map, cmd.pairs)
      BY <2>2 DEF Gis
    <2>6. ASSUME NEW f \in Fields \ T
          PROVE  /\ f \in DOMAIN v.map <=> f \in DOMAIN Result(d, cmd).map
                 /\ f \in DOMAIN Result(d, cmd).map => v.map[f] = Result(d, cmd).map[f]
      <3>1. f \notin named /\ f \in Fields \ S
        BY <2>3
      <3>2. /\ f \in DOMAIN v.map <=> f \in DOMAIN d.map
            /\ f \in DOMAIN d.map => v.map[f] = d.map[f]
        BY <3>1 DEF Agree
      <3> QED BY <3>1, <3>2, <2>4, <2>5
    <2>7. v.type # "string"
      BY <1>1 DEF Agree
    <2> QED BY <1>a, <1>b, <2>5, <2>6, <2>7 DEF Agree
  <1>2. CASE cmd.op = "gis.add" /\ d.type = "string"
    BY <1>2, <1>b DEF Agree, Result, GisAddTo
  <1>3. CASE cmd.op = "gis.del"
    BY <1>3, <1>b DEF Agree, Result, GisDelFrom, Replicated
  <1>4. CASE cmd.op \in {"set", "del"}
    <2>1. cmd.op = "del" /\ d.type = "none" /\ d.map = NoFields
      BY <1>4, <1>a DEF Replicated, WellFormed
    <2> QED BY <1>b, <2>1 DEF Agree, Result, Absent
  <1> QED BY <1>1, <1>2, <1>3, <1>4 DEF Commands

-----------------------------------------------------------------------------
(***************************************************************************)
(* An AOF rewrite.                                                         *)
(***************************************************************************)
\* A value that is rewritten agrees with itself on the fields whose names survive it.
LEMMA RewrittenAgree ==
    ASSUME NEW v, WellFormed(v), NEW S, \A f \in Renamed : f \in S
    PROVE  Agree(RewrittenValue(v), v, S)
  <1> DEFINE m == NotEmpty(v).map
             new == {CString(f) : f \in DOMAIN m}
             from(c) == CHOOSE f \in DOMAIN m : CString(f) = c
             w == [c \in new |-> m[from(c)]]
  <1>1. /\ WellFormed(NotEmpty(v))
        /\ m = v.map
        /\ NotEmpty(v).type = "string" <=> v.type = "string"
    BY SimpleValues DEF NotEmpty, Absent, WellFormed
  <1>2. /\ RewrittenValue(v).type = NotEmpty(v).type
        /\ RewrittenValue(v).map = w
        /\ RewrittenValue(v) = [type |-> NotEmpty(v).type, map |-> w]
    BY <1>1 DEF RewrittenValue, WellFormed, Value
  <1>3. DOMAIN m \subseteq Fields /\ m \in [DOMAIN m -> Geoms]
    BY <1>1, MapMembers DEF WellFormed, Value
  <1>4. \A c \in new : from(c) \in DOMAIN m /\ CString(from(c)) = c
    OBVIOUS
  <1>5. new \subseteq Fields
    BY <1>3, CStringAssumption
  <1>6. w \in Maps
    <2>1. DOMAIN w \subseteq Fields /\ w \in [DOMAIN w -> Geoms]
      BY <1>3, <1>4, <1>5
    <2> QED BY <2>1, MapMembers
  <1>7. m = NoFields => w = NoFields
    BY DEF NoFields
  <1>8. WellFormed(RewrittenValue(v))
    BY <1>1, <1>2, <1>6, <1>7 DEF WellFormed, Value
  <1>9. ASSUME NEW f \in Fields \ S
        PROVE  /\ f \in DOMAIN w <=> f \in DOMAIN m
               /\ f \in DOMAIN m => w[f] = m[f]
    <2>1. \A g \in Fields : CString(g) = f <=> g = f
      BY DEF Renamed
    <2>2. f \in new <=> f \in DOMAIN m
      BY <1>3, <2>1
    <2>3. f \in new => from(f) = f
      BY <1>3, <1>4, <2>1
    <2> QED BY <2>2, <2>3
  <1> HIDE DEF m, w
  <1> QED BY <1>1, <1>2, <1>8, <1>9 DEF Agree

-----------------------------------------------------------------------------
(***************************************************************************)
(* What a sequence of commands leads to.                                   *)
(***************************************************************************)
\* f has what the first n of the commands lead to, for every n.
Execution(f, b, s) == f[0] = b /\ \A n \in 1 .. Len(s) : f[n] = Executed(f[n - 1], s[n])

\* h is the function of sets that FoldLeft chooses.
Folds(h, b, s, n) ==
    h = [t \in SUBSET (1 .. n) |->
            IF t = {} THEN b ELSE LET x == Max(t) IN Executed(h[t \ {x}], s[x])]

\* FoldLeft is the value of such a function for the whole domain.
LEMMA FoldIs ==
    ASSUME NEW b, NEW C, NEW s \in Seq(C)
    PROVE  FoldLeft(Executed, b, s) = (CHOOSE h : Folds(h, b, s, Len(s)))[1 .. Len(s)]
  <1>1. DOMAIN s = 1 .. Len(s)
    OBVIOUS
  <1> QED BY <1>1, Zenon DEF FoldLeft, MapThenFoldSet, Folds

\* The last of the numbers up to n + 1.
LEMMA MaxOfUpTo ==
    ASSUME NEW n \in Nat, NEW t \in SUBSET (1 .. n + 1), n + 1 \in t
    PROVE  Max(t) = n + 1 /\ t \ {n + 1} \in SUBSET (1 .. n)
  <1>1. \A x \in t : n + 1 >= x
    OBVIOUS
  <1>2. \A m \in t : (\A x \in t : m >= x) => m = n + 1
    OBVIOUS
  <1>3. Max(t) = n + 1
    BY <1>1, <1>2 DEF Max
  <1> QED BY <1>3

\* There is such a function, so that the CHOOSE finds it.
LEMMA FoldsExist ==
    ASSUME NEW b, NEW C, NEW s \in Seq(C)
    PROVE  \E h : Folds(h, b, s, Len(s))
  <1> DEFINE S == {n \in 0 .. Len(s) : \E h : Folds(h, b, s, n)}
  <1>0. Len(s) \in Nat
    OBVIOUS
  <1>1. 0 \in S
    <2> DEFINE h == [t \in SUBSET (1 .. 0) |-> b]
    <2>1. SUBSET (1 .. 0) = {{}}
      OBVIOUS
    <2>2. Folds(h, b, s, 0)
      BY <2>1, Zenon DEF Folds
    <2> QED BY <2>2, <1>0
  <1>2. ASSUME NEW n \in 0 .. Len(s) - 1, n \in S PROVE n + 1 \in S
    <2>0. n \in Nat /\ n + 1 \in 0 .. Len(s)
      BY <1>0
    <2>1. PICK h : Folds(h, b, s, n)
      BY <1>2
    <2> DEFINE g == [t \in SUBSET (1 .. n + 1) |->
                        IF n + 1 \in t THEN Executed(h[t \ {n + 1}], s[n + 1]) ELSE h[t]]
    <2>2. \A t \in SUBSET (1 .. n) : t \in SUBSET (1 .. n + 1) /\ n + 1 \notin t
      BY <2>0
    <2>3. \A t \in SUBSET (1 .. n) : g[t] = h[t]
      BY <2>2, Zenon
    <2>4. ASSUME NEW t \in SUBSET (1 .. n + 1)
          PROVE  g[t] = IF t = {} THEN b ELSE LET x == Max(t) IN Executed(g[t \ {x}], s[x])
      <3>1. CASE n + 1 \in t
        <4>1. Max(t) = n + 1 /\ t \ {n + 1} \in SUBSET (1 .. n)
          BY <2>0, <3>1, MaxOfUpTo
        <4>2. g[t \ {n + 1}] = h[t \ {n + 1}]
          BY <2>3, <4>1, Zenon
        <4>3. g[t] = Executed(h[t \ {n + 1}], s[n + 1])
          BY <3>1, Zenon
        <4> HIDE DEF g
        <4> QED BY <3>1, <4>1, <4>2, <4>3, Zenon
      <3>2. CASE n + 1 \notin t
        <4>1. t \in SUBSET (1 .. n)
          BY <2>0, <3>2
        <4>2. h[t] = IF t = {} THEN b ELSE LET x == Max(t) IN Executed(h[t \ {x}], s[x])
          BY <2>1, <4>1, Zenon DEF Folds
        <4>3. \A x : t \ {x} \in SUBSET (1 .. n)
          BY <4>1
        <4>4. \A x : g[t \ {x}] = h[t \ {x}]
          BY <2>3, <4>3, Zenon
        <4>5. g[t] = h[t]
          BY <2>3, <4>1, Zenon
        <4> HIDE DEF g
        <4> QED BY <4>2, <4>4, <4>5, Zenon
      <3> QED BY <3>1, <3>2, Zenon
    <2>5. Folds(g, b, s, n + 1)
      BY <2>4, Zenon DEF Folds
    <2> QED BY <2>0, <2>5
  <1>3. 0 .. Len(s) \subseteq S
    <2> HIDE DEF S
    <2> QED BY <1>0, <1>1, <1>2, UpTo
  <1> QED BY <1>0, <1>3

\* So that FoldLeft is where an execution ends.
LEMMA FoldIsExecution ==
    ASSUME NEW b, NEW C, NEW s \in Seq(C)
    PROVE  \E f : Execution(f, b, s) /\ FoldLeft(Executed, b, s) = f[Len(s)]
  <1> DEFINE h == CHOOSE h : Folds(h, b, s, Len(s))
             f == [n \in 0 .. Len(s) |-> h[1 .. n]]
  <1>0. Len(s) \in Nat
    OBVIOUS
  <1>1. Folds(h, b, s, Len(s))
    BY FoldsExist, Zenon
  <1>2. FoldLeft(Executed, b, s) = h[1 .. Len(s)]
    BY FoldIs, Zenon
  <1> HIDE DEF h
  <1>3. f[0] = b
    <2>1. 1 .. 0 = {} /\ 0 \in 0 .. Len(s) /\ {} \in SUBSET (1 .. Len(s))
      BY <1>0
    <2>2. h[{}] = b
      BY <1>1, <2>1, Zenon DEF Folds
    <2> QED BY <2>1, <2>2, Zenon
  <1>4. ASSUME NEW n \in 1 .. Len(s) PROVE f[n] = Executed(f[n - 1], s[n])
    <2>1. /\ 1 .. n \in SUBSET (1 .. Len(s)) /\ 1 .. n # {}
          /\ n - 1 \in 0 .. Len(s) /\ n \in 0 .. Len(s) /\ n - 1 \in Nat /\ (n - 1) + 1 = n
          /\ (1 .. n) \ {n} = 1 .. n - 1 /\ n \in 1 .. n
      <3>1. n \in 1 .. n
        BY <1>0
      <3>2. 1 .. n # {}
        BY <3>1
      <3>3. (1 .. n) \ {n} = 1 .. n - 1
        BY <1>0
      <3>4. \A x \in 1 .. n : x \in 1 .. Len(s)
        BY <1>0
      <3> QED BY <1>0, <3>1, <3>2, <3>3, <3>4
    <2>2. Max(1 .. n) = n
      <3> DEFINE m == n - 1
      <3>1. m \in Nat /\ m + 1 = n
        BY <2>1
      <3>2. 1 .. n \in SUBSET (1 .. m + 1) /\ m + 1 \in 1 .. n
        BY <3>1, <2>1
      <3> HIDE DEF m
      <3> QED BY <3>1, <3>2, MaxOfUpTo
    <2>3. h[1 .. n] = Executed(h[(1 .. n) \ {n}], s[n])
      BY <1>1, <2>1, <2>2, Zenon DEF Folds
    <2> QED BY <2>1, <2>3, Zenon
  <1>5. f[Len(s)] = h[1 .. Len(s)]
    BY <1>0
  <1> HIDE DEF f
  <1> QED BY <1>2, <1>3, <1>4, <1>5, Zenon DEF Execution

\* An execution is determined by where it starts and what is executed.
LEMMA OneExecution ==
    ASSUME NEW b, NEW s, NEW t, NEW f, NEW g, Execution(f, b, s), Execution(g, b, t),
           NEW n \in Nat, Len(s) \in Nat, Len(t) \in Nat, n <= Len(s), n <= Len(t), \A i \in 1 .. n : s[i] = t[i]
    PROVE  f[n] = g[n]
  <1> DEFINE S == {k \in 0 .. n : f[k] = g[k]}
  <1>1. 0 \in S
    BY DEF Execution
  <1>2. ASSUME NEW k \in 0 .. n - 1, k \in S PROVE k + 1 \in S
    <2>1. /\ k + 1 \in 0 .. n /\ (k + 1) - 1 = k
          /\ k + 1 \in 1 .. Len(s) /\ k + 1 \in 1 .. Len(t) /\ k + 1 \in 1 .. n
      OBVIOUS
    <2>2. f[k + 1] = Executed(f[k], s[k + 1]) /\ g[k + 1] = Executed(g[k], t[k + 1])
      BY <2>1, Zenon DEF Execution
    <2>3. f[k] = g[k]
      BY <1>2
    <2> QED BY <2>1, <2>2, <2>3, Zenon
  <1>3. 0 .. n \subseteq S
    <2> HIDE DEF S
    <2> QED BY <1>1, <1>2, UpTo
  <1> QED BY <1>3

\* What a sequence of commands leads to: nothing,
LEMMA FoldEmpty ==
    ASSUME NEW b
    PROVE  FoldLeft(Executed, b, <<>>) = b
  <1>1. <<>> \in Seq({}) /\ Len(<<>>) = 0
    OBVIOUS
  <1>2. PICK f : Execution(f, b, <<>>) /\ FoldLeft(Executed, b, <<>>) = f[0]
    BY <1>1, FoldIsExecution
  <1> QED BY <1>2 DEF Execution

\* one more command at its end,
LEMMA FoldAppend ==
    ASSUME NEW b, NEW C, NEW s \in Seq(C), NEW cmd \in C
    PROVE  FoldLeft(Executed, b, Append(s, cmd)) = Executed(FoldLeft(Executed, b, s), cmd)
  <1> DEFINE t == Append(s, cmd)
  <1>0. Len(s) \in Nat
    OBVIOUS
  <1>1. PICK f : Execution(f, b, s) /\ FoldLeft(Executed, b, s) = f[Len(s)]
    BY FoldIsExecution
  <1>2. /\ t \in Seq(C) /\ Len(t) = Len(s) + 1 /\ t[Len(s) + 1] = cmd
        /\ \A i \in 1 .. Len(s) : s[i] = t[i]
    OBVIOUS
  <1> HIDE DEF t
  <1>3. PICK g : Execution(g, b, t) /\ FoldLeft(Executed, b, t) = g[Len(t)]
    BY <1>2, FoldIsExecution
  <1>4. f[Len(s)] = g[Len(s)]
    <2>1. Len(t) \in Nat /\ Len(s) <= Len(t) /\ Len(s) <= Len(s)
      BY <1>0, <1>2
    <2> QED BY <1>0, <1>1, <1>2, <1>3, <2>1, OneExecution
  <1>5. Len(t) \in 1 .. Len(t) /\ Len(t) - 1 = Len(s)
    BY <1>0, <1>2
  <1>6. g[Len(t)] = Executed(g[Len(s)], t[Len(t)])
    BY <1>3, <1>5, Zenon DEF Execution
  <1> QED BY <1>1, <1>2, <1>3, <1>4, <1>6, Zenon DEF t

\* its first command on its own.
LEMMA FoldTail ==
    ASSUME NEW b, NEW C, NEW s \in Seq(C), s # <<>>
    PROVE  FoldLeft(Executed, b, s) = FoldLeft(Executed, Executed(b, Head(s)), Tail(s))
  <1> DEFINE t == Tail(s)
             c == Executed(b, Head(s))
  <1>0. Len(s) \in Nat
    OBVIOUS
  <1>1. PICK f : Execution(f, b, s) /\ FoldLeft(Executed, b, s) = f[Len(s)]
    BY FoldIsExecution
  <1>2. /\ t \in Seq(C) /\ Len(t) = Len(s) - 1 /\ Len(t) \in Nat /\ Head(s) = s[1]
        /\ \A i \in 1 .. Len(t) : t[i] = s[i + 1]
    OBVIOUS
  <1> HIDE DEF t
  <1>3. PICK g : Execution(g, c, t) /\ FoldLeft(Executed, c, t) = g[Len(t)]
    BY <1>2, FoldIsExecution
  <1> DEFINE h == [n \in 0 .. Len(t) |-> f[n + 1]]
  <1>4. Execution(h, c, t)
    <2>1. h[0] = c
      <3>1. 0 \in 0 .. Len(t) /\ 0 + 1 = 1 /\ 1 \in 1 .. Len(s) /\ 1 - 1 = 0
        BY <1>0, <1>2
      <3>2. f[1] = Executed(f[0], s[1]) /\ f[0] = b
        BY <1>1, <3>1, Zenon DEF Execution
      <3> QED BY <1>2, <3>1, <3>2, Zenon
    <2>2. ASSUME NEW n \in 1 .. Len(t) PROVE h[n] = Executed(h[n - 1], t[n])
      <3>1. /\ n \in 0 .. Len(t) /\ n - 1 \in 0 .. Len(t) /\ (n - 1) + 1 = n
            /\ n + 1 \in 1 .. Len(s) /\ (n + 1) - 1 = n
        BY <1>0, <1>2
      <3>2. f[n + 1] = Executed(f[n], s[n + 1])
        BY <1>1, <3>1, Zenon DEF Execution
      <3> QED BY <1>2, <3>1, <3>2, Zenon
    <2> HIDE DEF h, c
    <2> QED BY <2>1, <2>2, Zenon DEF Execution
  <1>5. h[Len(t)] = f[Len(s)]
    BY <1>2
  <1> HIDE DEF h, c
  <1>6. g[Len(t)] = h[Len(t)]
    <2>1. Len(t) <= Len(t) /\ \A i \in 1 .. Len(t) : t[i] = t[i]
      BY <1>2
    <2> QED BY <2>1, <1>2, <1>3, <1>4, OneExecution
  <1> QED BY <1>1, <1>3, <1>5, <1>6 DEF t, c

-----------------------------------------------------------------------------
(***************************************************************************)
(* What the readers have rebuilt once they have executed what is pending,  *)
(* and what each step makes of it.                                         *)
(***************************************************************************)
GoodKeyspace == [Keys -> {v \in Value : WellFormed(v)}]

View == [c \in Readers |-> CaughtUp(c)]

\* The readers that are fed are readers.
LEMMA FedReaders == Fed \subseteq Readers
  BY DEF Fed, Readers

\* At first that is nothing.
LEMMA InitView == ASSUME Init PROVE View = base
  <1>1. \A b : FoldLeft(Executed, b, <<>>) = b
    BY FoldEmpty
  <1> QED BY <1>1 DEF Init, View, CaughtUp

\* A command that is replicated is executed after the others.
LEMMA ExecuteView ==
    ASSUME pending \in [Readers -> Seq(Commands)], NEW cmd \in Commands, Execute(cmd)
    PROVE  View' = [c \in Readers |-> IF c \in Receivers(db[cmd.key], cmd)
                                      THEN Executed(View[c], cmd) ELSE View[c]]
  <1> DEFINE R == Receivers(db[cmd.key], cmd)
  <1>1. /\ base' = base
        /\ pending' = [c \in Readers |-> IF c \in R THEN Append(pending[c], cmd) ELSE pending[c]]
    BY DEF Execute, Propagate
  <1> HIDE DEF R
  <1>2. View' = [c \in Readers |-> FoldLeft(Executed, base'[c], pending'[c])]
    BY DEF View, CaughtUp
  <1>3. ASSUME NEW c \in Readers
        PROVE  FoldLeft(Executed, base'[c], pending'[c]) = IF c \in R THEN Executed(View[c], cmd) ELSE View[c]
    <2> DEFINE b == base[c]
               p == pending[c]
    <2>1. p \in Seq(Commands) /\ View[c] = FoldLeft(Executed, b, p)
      BY DEF View, CaughtUp
    <2>2. base'[c] = b /\ pending'[c] = IF c \in R THEN Append(p, cmd) ELSE p
      BY <1>1
    <2> HIDE DEF b, p
    <2>3. FoldLeft(Executed, b, Append(p, cmd)) = Executed(FoldLeft(Executed, b, p), cmd)
      BY <2>1, FoldAppend
    <2> QED BY <2>1, <2>2, <2>3, Zenon
  <1> HIDE DEF View
  <1> QED BY <1>2, <1>3, Zenon DEF R

\* Nothing changes when a pending command is executed,
LEMMA ApplyView ==
    ASSUME base \in [Readers -> GoodKeyspace], pending \in [Readers -> Seq(Commands)], NEW e \in Readers, Apply(e)
    PROVE  View' = View
  <1>1. View' = [c \in Readers |-> FoldLeft(Executed, base'[c], pending'[c])]
    BY DEF View, CaughtUp
  <1>2. View = [c \in Readers |-> FoldLeft(Executed, base[c], pending[c])]
    BY DEF View, CaughtUp
  <1>3. ASSUME NEW c \in Readers
        PROVE  FoldLeft(Executed, base'[c], pending'[c]) = FoldLeft(Executed, base[c], pending[c])
    <2>1. CASE c = e
      <3>1. /\ pending[c] \in Seq(Commands) /\ pending[c] # <<>> /\ pending'[c] = Tail(pending[c])
            /\ base'[c] = Executed(base[c], Head(pending[c]))
        BY <2>1 DEF Apply
      <3>2. FoldLeft(Executed, base[c], pending[c])
              = FoldLeft(Executed, Executed(base[c], Head(pending[c])), Tail(pending[c]))
        BY <3>1, FoldTail, Zenon
      <3> QED BY <3>1, <3>2, Zenon
    <2>2. CASE c # e
      <3>1. base'[c] = base[c] /\ pending'[c] = pending[c]
        BY <2>2 DEF Apply
      <3> QED BY <3>1, Zenon
    <2> QED BY <2>1, <2>2
  <1> QED BY <1>1, <1>2, <1>3, Zenon

\* a reader that starts over has what it starts from, and so has one that loses what is pending,
LEMMA StartView ==
    ASSUME NEW e \in Readers, NEW keyspace, base \in [Readers -> GoodKeyspace], pending \in [Readers -> Seq(Commands)],
           base' = [base EXCEPT ![e] = keyspace], pending' = [pending EXCEPT ![e] = <<>>]
    PROVE  View' = [c \in Readers |-> IF c = e THEN keyspace ELSE View[c]]
  <1>1. View' = [c \in Readers |-> FoldLeft(Executed, base'[c], pending'[c])]
    BY DEF View, CaughtUp
  <1>2. ASSUME NEW c \in Readers
        PROVE  FoldLeft(Executed, base'[c], pending'[c]) = IF c = e THEN keyspace ELSE View[c]
    <2>1. CASE c = e
      <3>1. base'[c] = keyspace /\ pending'[c] = <<>>
        BY <2>1
      <3> QED BY <2>1, <3>1, FoldEmpty, Zenon
    <2>2. CASE c # e
      <3>1. base'[c] = base[c] /\ pending'[c] = pending[c] /\ View[c] = FoldLeft(Executed, base[c], pending[c])
        BY <2>2 DEF View, CaughtUp
      <3> QED BY <2>2, <3>1, Zenon
    <2> QED BY <2>1, <2>2
  <1> HIDE DEF View
  <1> QED BY <1>1, <1>2, Zenon

\* the AOF takes over all of the rewrite,
LEMMA RewriteDoneView ==
    ASSUME base \in [Readers -> GoodKeyspace], pending \in [Readers -> Seq(Commands)], RewriteDone
    PROVE  View' = [c \in Readers |-> IF c = "aof" THEN View["rewrite"] ELSE View[c]]
  <1>1. View' = [c \in Readers |-> FoldLeft(Executed, base'[c], pending'[c])]
    BY DEF View, CaughtUp
  <1>2. ASSUME NEW c \in Readers
        PROVE  FoldLeft(Executed, base'[c], pending'[c]) = IF c = "aof" THEN View["rewrite"] ELSE View[c]
    <2> DEFINE e == IF c = "aof" THEN "rewrite" ELSE c
    <2>1. e \in Readers /\ base'[c] = base[e] /\ pending'[c] = pending[e]
      BY DEF RewriteDone, Readers
    <2> HIDE DEF e
    <2>2. View[e] = FoldLeft(Executed, base[e], pending[e])
      BY <2>1 DEF View, CaughtUp
    <2>3. FoldLeft(Executed, base'[c], pending'[c]) = View[e]
      BY <2>1, <2>2, Zenon
    <2> HIDE DEF View
    <2> QED BY <2>3, Zenon DEF e
  <1> HIDE DEF View
  <1> QED BY <1>1, <1>2, Zenon

\* and a crash leaves what had reached the base.
LEMMA CrashView == ASSUME Crash, base \in [Readers -> GoodKeyspace] PROVE View' = base
  <1>1. View' = [c \in Readers |-> FoldLeft(Executed, base'[c], pending'[c])]
    BY DEF View, CaughtUp
  <1>2. ASSUME NEW c \in Readers PROVE FoldLeft(Executed, base'[c], pending'[c]) = base[c]
    <2>1. base'[c] = base[c] /\ pending'[c] = <<>>
      BY DEF Crash
    <2> QED BY <2>1, FoldEmpty, Zenon
  <1>3. View' = [c \in Readers |-> base[c]]
    BY <1>1, <1>2, Zenon
  <1> QED BY <1>3

-----------------------------------------------------------------------------
(***************************************************************************)
(* The invariant: what a fed reader will have rebuilt agrees with the      *)
(* master outside its suspect fields.                                      *)
(***************************************************************************)
Shapes ==
    /\ db \in GoodKeyspace
    /\ link \in BOOLEAN
    /\ rewriting \in BOOLEAN
    /\ base \in [Readers -> GoodKeyspace]
    /\ View \in [Readers -> GoodKeyspace]
    /\ pending \in [Readers -> Seq(Commands)]
    /\ suspect \in [Readers -> SUBSET (Keys \X Fields)]
    /\ commands \in 0 .. MaxCommands

Agreement == \A c \in Fed, k \in Keys : Agree(View[c][k], db[k], SuspectOf(suspect[c], k))

IInv == Shapes /\ Agreement

\* Executing a command leaves a good keyspace, and all its other keys as they are.
LEMMA ExecutedGood ==
    ASSUME NEW ks \in GoodKeyspace, NEW cmd \in Commands
    PROVE  /\ Executed(ks, cmd) \in GoodKeyspace
           /\ cmd.key \in Keys
           /\ Executed(ks, cmd)[cmd.key] = Result(ks[cmd.key], cmd)
           /\ \A k \in Keys \ {cmd.key} : Executed(ks, cmd)[k] = ks[k]
  <1>1. cmd.key \in Keys
    BY DEF Commands
  <1>2. Result(ks[cmd.key], cmd) \in {v \in Value : WellFormed(v)}
    <2>1. WellFormed(ks[cmd.key])
      BY <1>1 DEF GoodKeyspace
    <2>2. WellFormed(Result(ks[cmd.key], cmd))
      BY <2>1, ResultWellFormed
    <2> QED BY <2>2 DEF WellFormed
  <1>3. ks \in [Keys -> {v \in Value : WellFormed(v)}]
    BY DEF GoodKeyspace
  <1>4. Executed(ks, cmd) = [ks EXCEPT ![cmd.key] = Result(ks[cmd.key], cmd)]
    BY DEF Executed
  <1>5. /\ Executed(ks, cmd)[cmd.key] = Result(ks[cmd.key], cmd)
        /\ \A k \in Keys \ {cmd.key} : Executed(ks, cmd)[k] = ks[k]
    BY <1>1, <1>3, <1>4
  <1>6. Executed(ks, cmd) \in [Keys -> {v \in Value : WellFormed(v)}]
    <2> HIDE DEF Executed
    <2> QED BY <1>1, <1>2, <1>3, <1>4
  <1> QED BY <1>1, <1>5, <1>6 DEF GoodKeyspace

\* A command touches no field of another key.
LEMMA TouchedKey ==
    ASSUME NEW v, NEW cmd \in Commands, NEW p \in Touched(v, cmd)
    PROVE  /\ p[1] = cmd.key /\ p \in Keys \X Fields
  BY DEF Touched, Commands

\* Nothing is stored at first.
LEMMA InitIInv == Init => IInv
  <1> SUFFICES ASSUME Init PROVE IInv
    OBVIOUS
  <1>1. NoKeys \in GoodKeyspace
    BY SimpleValues DEF NoKeys, GoodKeyspace, WellFormed
  <1>2. Shapes
    <2>1. db \in GoodKeyspace /\ base \in [Readers -> GoodKeyspace] /\ View \in [Readers -> GoodKeyspace]
      BY <1>1, InitView DEF Init
    <2>2. pending \in [Readers -> Seq(Commands)]
      <3>1. <<>> \in Seq(Commands)
        OBVIOUS
      <3>2. pending = [c \in Readers |-> <<>>]
        BY DEF Init
      <3> QED BY <3>1, <3>2
    <2>3. suspect \in [Readers -> SUBSET (Keys \X Fields)]
      BY DEF Init
    <2>4. link \in BOOLEAN /\ rewriting \in BOOLEAN
      BY Zenon DEF Init
    <2>5. commands \in 0 .. MaxCommands
      BY BoundsAssumption DEF Init
    <2> QED BY <2>1, <2>2, <2>3, <2>4, <2>5 DEF Shapes
  <1>3. Agreement
    <2> SUFFICES ASSUME NEW c \in Fed, NEW k \in Keys
                 PROVE  Agree(View[c][k], db[k], SuspectOf(suspect[c], k))
      BY DEF Agreement
    <2>1. View[c][k] = Absent /\ db[k] = Absent
      BY FedReaders, InitView DEF Init, NoKeys
    <2> QED BY <2>1, SimpleValues, AgreeWithItself
  <1> QED BY <1>2, <1>3 DEF IInv

\* A command of the master, replicated or not, keeps the invariant.
LEMMA ExecuteIInv ==
    ASSUME IInv, NEW cmd \in Commands, Execute(cmd)
    PROVE  IInv'
  <1> USE DEF IInv
  <1> DEFINE old == db[cmd.key]
  <1>0. View' = [c \in Readers |-> IF c \in Receivers(old, cmd) THEN Executed(View[c], cmd) ELSE View[c]]
    BY ExecuteView DEF Shapes
  <1>1. /\ db \in GoodKeyspace /\ db' = Executed(db, cmd)
        /\ View \in [Readers -> GoodKeyspace]
        /\ suspect \in [Readers -> SUBSET (Keys \X Fields)]
        /\ Fed' = Fed
    BY DEF Shapes, Execute, Fed
  <1>2. /\ db' \in GoodKeyspace
        /\ cmd.key \in Keys
        /\ db'[cmd.key] = Result(old, cmd)
        /\ \A k \in Keys \ {cmd.key} : db'[k] = db[k]
    BY <1>1, ExecutedGood
  <1>3. \A p \in Touched(old, cmd) : p[1] = cmd.key /\ p \in Keys \X Fields
    BY TouchedKey
  <1>4. link' \in BOOLEAN /\ rewriting' \in BOOLEAN /\ base' \in [Readers -> GoodKeyspace]
        /\ commands' \in 0 .. MaxCommands
    BY BoundsAssumption DEF Shapes, Execute
  <1>5. CASE Replicated(old, cmd)
    <2>a. Receivers(old, cmd) = Fed /\ ~FailedAdd(cmd)
      BY <1>5 DEF Receivers, Replicated, FailedAdd
    <2>1. /\ pending' = [c \in Readers |-> IF c \in Fed THEN Append(pending[c], cmd) ELSE pending[c]]
          /\ View' = [c \in Readers |-> IF c \in Fed THEN Executed(View[c], cmd) ELSE View[c]]
          /\ suspect' = [c \in Readers |-> suspect[c] \ Touched(old, cmd)]
      BY <1>0, <2>a DEF Execute, Propagate
    <2>2. pending' \in [Readers -> Seq(Commands)]
      BY <2>1 DEF Shapes
    <2>3. View' \in [Readers -> GoodKeyspace]
      BY <1>1, <2>1, ExecutedGood
    <2>4. suspect' \in [Readers -> SUBSET (Keys \X Fields)]
      BY <1>1, <2>1
    <2>5. ASSUME NEW c \in Fed, NEW k \in Keys
          PROVE  Agree(View'[c][k], db'[k], SuspectOf(suspect'[c], k))
      <3> DEFINE S == SuspectOf(suspect[c], k)
                 T == SuspectOf(suspect'[c], k)
      <3>1. c \in Readers /\ View'[c] = Executed(View[c], cmd) /\ View[c] \in GoodKeyspace
        BY <1>1, <2>1, FedReaders
      <3>2. Agree(View[c][k], db[k], S)
        BY DEF Agreement
      <3>3. \A f \in Fields : f \in T <=> f \in S /\ <<k, f>> \notin Touched(old, cmd)
        BY <2>1, <3>1 DEF SuspectOf
      <3>4. ASSUME k = cmd.key PROVE Agree(View'[c][k], db'[k], T)
        <4>1. View'[c][k] = Result(View[c][k], cmd) /\ db'[k] = Result(db[k], cmd)
          BY <1>2, <3>1, <3>4, ExecutedGood
        <4> HIDE DEF S, T
        <4> QED BY <1>5, <3>2, <3>3, <3>4, <4>1, ReplicatedAgree
      <3>5. ASSUME k # cmd.key PROVE Agree(View'[c][k], db'[k], T)
        <4>1. View'[c][k] = View[c][k] /\ db'[k] = db[k]
          BY <1>2, <3>1, <3>5, ExecutedGood
        <4>2. \A f \in Fields : f \in T <=> f \in S
          BY <1>3, <3>3, <3>5
        <4> HIDE DEF S, T
        <4> QED BY <3>2, <4>1, <4>2 DEF Agree
      <3> QED BY <3>4, <3>5
    <2> QED BY <1>1, <1>2, <1>4, <2>2, <2>3, <2>4, <2>5 DEF Shapes, Agreement
  <1>6. CASE ~Replicated(old, cmd)
    <2>a. Receivers(old, cmd) = {} /\ (~FailedAdd(cmd) => Touched(old, cmd) = {})
      BY <1>6 DEF Receivers, Replicated, FailedAdd, Touched, Commands
    <2>1. /\ pending' = pending /\ View' = View
          /\ suspect' = [c \in Readers |-> suspect[c] \union Touched(old, cmd)]
      <3>1. pending' = pending /\ View' = View
        <4>1. pending' = pending
          BY <2>a DEF Execute, Propagate, Shapes
        <4>2. View' = [c \in Readers |-> View[c]] /\ View = [c \in Readers |-> View[c]]
          BY <1>0, <1>1, <2>a
        <4> QED BY <4>1, <4>2
      <3>2. suspect' = [c \in Readers |-> suspect[c] \union Touched(old, cmd)]
        <4>1. CASE FailedAdd(cmd)
          BY <4>1 DEF Execute, Propagate
        <4>2. CASE ~FailedAdd(cmd)
          <5>1. suspect' = [c \in Readers |-> suspect[c] \ Touched(old, cmd)]
            BY <4>2 DEF Execute, Propagate
          <5>2. \A c \in Readers : suspect[c] \ Touched(old, cmd) = suspect[c] \union Touched(old, cmd)
            BY <2>a, <4>2
          <5> QED BY <5>1, <5>2
        <4> QED BY <4>1, <4>2
      <3> QED BY <3>1, <3>2
    <2>2. suspect' \in [Readers -> SUBSET (Keys \X Fields)]
      BY <1>1, <1>3, <2>1
    <2>3. ASSUME NEW c \in Fed, NEW k \in Keys
          PROVE  Agree(View'[c][k], db'[k], SuspectOf(suspect'[c], k))
      <3> DEFINE S == SuspectOf(suspect[c], k)
                 T == SuspectOf(suspect'[c], k)
      <3>1. View'[c] = View[c] /\ c \in Readers
        BY <2>1, FedReaders
      <3>2. Agree(View[c][k], db[k], S)
        BY DEF Agreement
      <3>3. \A f \in Fields : f \in T <=> f \in S \/ <<k, f>> \in Touched(old, cmd)
        BY <2>1, <3>1 DEF SuspectOf
      <3>4. ASSUME k = cmd.key PROVE Agree(View'[c][k], db'[k], T)
        <4>1. db'[k] = Result(db[k], cmd)
          BY <1>2, <3>4
        <4> HIDE DEF S, T
        <4> QED BY <1>6, <3>1, <3>2, <3>3, <3>4, <4>1, UnreplicatedAgree
      <3>5. ASSUME k # cmd.key PROVE Agree(View'[c][k], db'[k], T)
        <4>1. db'[k] = db[k]
          BY <1>2, <3>5
        <4>2. \A f \in Fields : f \in T <=> f \in S
          BY <1>3, <3>3, <3>5
        <4> HIDE DEF S, T
        <4> QED BY <3>1, <3>2, <4>1, <4>2 DEF Agree
      <3> QED BY <3>4, <3>5
    <2> QED BY <1>1, <1>2, <1>4, <2>1, <2>2, <2>3 DEF Shapes, Agreement
  <1> QED BY <1>5, <1>6

\* When a reader executes a command, nothing changes but how far it has come.
LEMMA ApplyIInv == ASSUME IInv, NEW c \in Readers, Apply(c) PROVE IInv'
  <1> USE DEF IInv
  <1>1. Head(pending[c]) \in Commands /\ Tail(pending[c]) \in Seq(Commands)
    <2>1. pending[c] \in Seq(Commands) /\ pending[c] # <<>>
      BY DEF Shapes, Apply
    <2> QED BY <2>1
  <1>2. Executed(base[c], Head(pending[c])) \in GoodKeyspace
    BY <1>1, ExecutedGood DEF Shapes
  <1>3. base' \in [Readers -> GoodKeyspace] /\ pending' \in [Readers -> Seq(Commands)]
    BY <1>1, <1>2 DEF Shapes, Apply
  <1>4. Fed' = Fed /\ View' = View /\ db' = db /\ suspect' = suspect
    BY ApplyView DEF Apply, Fed, Shapes
  <1> QED BY <1>3, <1>4 DEF Shapes, Agreement, Apply

\* A reader that starts from a keyspace that agrees with the master's, keeps the invariant.
LEMMA StartFromIInv ==
    ASSUME IInv, NEW c \in Readers, NEW ks \in GoodKeyspace, NEW wrong \in SUBSET (Keys \X Fields),
           StartFrom(c, ks, wrong), UNCHANGED <<db, commands>>,
           link' \in BOOLEAN, rewriting' \in BOOLEAN, Fed' \subseteq Fed \union {c},
           \A k \in Keys : Agree(ks[k], db[k], SuspectOf(wrong, k))
    PROVE  IInv'
  <1> USE DEF IInv
  <1>1. /\ View \in [Readers -> GoodKeyspace]
        /\ suspect' = [suspect EXCEPT ![c] = wrong] /\ suspect \in [Readers -> SUBSET (Keys \X Fields)]
        /\ base' = [base EXCEPT ![c] = ks] /\ base \in [Readers -> GoodKeyspace]
        /\ pending' = [pending EXCEPT ![c] = <<>>] /\ pending \in [Readers -> Seq(Commands)]
        /\ db' = db
    BY DEF StartFrom, Shapes
  <1>a. View' = [e \in Readers |-> IF e = c THEN ks ELSE View[e]]
    BY <1>1, StartView
  <1>2. /\ View' \in [Readers -> GoodKeyspace] /\ base' \in [Readers -> GoodKeyspace]
        /\ pending' \in [Readers -> Seq(Commands)]
    BY <1>1, <1>a
  <1>3. suspect' \in [Readers -> SUBSET (Keys \X Fields)]
    BY <1>1
  <1>4. Shapes'
    BY <1>1, <1>2, <1>3 DEF Shapes
  <1>5. ASSUME NEW e \in Fed', NEW k \in Keys
        PROVE  Agree(View'[e][k], db'[k], SuspectOf(suspect'[e], k))
    <2>1. CASE e = c
      BY <2>1, <1>1, <1>a
    <2>2. CASE e # c
      <3>1. e \in Fed /\ e \in Readers
        BY <2>2, FedReaders
      <3>2. View'[e] = View[e] /\ suspect'[e] = suspect[e]
        BY <1>1, <1>a, <2>2, <3>1
      <3> QED BY <1>1, <3>1, <3>2 DEF Agreement
    <2> QED BY <2>1, <2>2
  <1> QED BY <1>4, <1>5 DEF Agreement

\* A replica that synchronises starts with what the master has.
LEMMA ReplicaSyncIInv == ASSUME IInv, ReplicaSync PROVE IInv'
  <1>1. db \in GoodKeyspace /\ rewriting' \in BOOLEAN
    BY DEF IInv, Shapes, ReplicaSync
  <1>2. Fed' \subseteq Fed \union {"replica"} /\ "replica" \in Readers
    BY DEF ReplicaSync, Fed, Readers
  <1>3. \A k \in Keys : Agree(db[k], db[k], SuspectOf({}, k))
    BY <1>1, AgreeWithItself DEF GoodKeyspace
  <1> QED BY <1>1, <1>2, <1>3, StartFromIInv DEF ReplicaSync

\* So does a rewrite, but for the fields whose names do not survive it.
LEMMA RewriteStartIInv == ASSUME IInv, NEW preamble \in BOOLEAN, RewriteStart(preamble) PROVE IInv'
  <1>1. db \in GoodKeyspace /\ link' \in BOOLEAN /\ rewriting' \in BOOLEAN /\ UNCHANGED <<db, commands>>
    BY DEF IInv, Shapes, RewriteStart
  <1>2. Fed' \subseteq Fed \union {"rewrite"} /\ "rewrite" \in Readers
    BY DEF RewriteStart, Fed, Readers
  <1>3. CASE preamble
    <2>1. \A k \in Keys : Agree(db[k], db[k], SuspectOf({}, k))
      BY <1>1, AgreeWithItself DEF GoodKeyspace
    <2>2. StartFrom("rewrite", db, {})
      BY <1>3 DEF RewriteStart
    <2> QED BY <1>1, <1>2, <2>1, <2>2, StartFromIInv
  <1>4. CASE ~preamble
    <2> DEFINE wrong == Keys \X Renamed
    <2>1. StartFrom("rewrite", Rewritten(db), wrong)
      BY <1>4 DEF RewriteStart
    <2>2. wrong \in SUBSET (Keys \X Fields)
      BY DEF Renamed
    <2>3. ASSUME NEW k \in Keys PROVE Agree(Rewritten(db)[k], db[k], SuspectOf(wrong, k))
      <3>1. WellFormed(db[k]) /\ Rewritten(db)[k] = RewrittenValue(db[k])
        BY <1>1 DEF GoodKeyspace, Rewritten
      <3>2. \A f \in Renamed : f \in SuspectOf(wrong, k)
        BY DEF SuspectOf, Renamed
      <3> QED BY <3>1, <3>2, RewrittenAgree
    <2>4. Rewritten(db) \in GoodKeyspace
      <3>1. \A k \in Keys : WellFormed(Rewritten(db)[k])
        BY <2>3 DEF Agree
      <3> QED BY <3>1 DEF GoodKeyspace, Rewritten, WellFormed
    <2> HIDE DEF wrong
    <2> QED BY <1>1, <1>2, <2>1, <2>2, <2>3, <2>4, StartFromIInv
  <1> QED BY <1>3, <1>4

\* A lost connection and the end of a rewrite.
LEMMA ReplicaLostIInv == ASSUME IInv, ReplicaLost PROVE IInv'
  <1>1. /\ Fed' \subseteq Fed \ {"replica"} /\ "replica" \in Readers
        /\ pending' = [pending EXCEPT !["replica"] = <<>>]
        /\ UNCHANGED <<db, rewriting, base, suspect, commands>> /\ link' = FALSE
    BY DEF ReplicaLost, Fed, Readers
  <1>a. View' = [e \in Readers |-> IF e = "replica" THEN base["replica"] ELSE View[e]]
    <2>1. base' = [base EXCEPT !["replica"] = base["replica"]]
      BY <1>1 DEF IInv, Shapes
    <2> QED BY <1>1, <2>1, StartView DEF IInv, Shapes
  <1>2. Shapes'
    <2>1. View' \in [Readers -> GoodKeyspace] /\ pending' \in [Readers -> Seq(Commands)]
      BY <1>1, <1>a DEF IInv, Shapes
    <2> QED BY <1>1, <2>1 DEF IInv, Shapes
  <1>3. ASSUME NEW c \in Fed' PROVE c \in Fed /\ View'[c] = View[c] /\ suspect'[c] = suspect[c]
    BY <1>1, <1>a, FedReaders DEF IInv, Shapes
  <1> QED BY <1>1, <1>2, <1>3 DEF IInv, Agreement

LEMMA RewriteDoneIInv == ASSUME IInv, RewriteDone PROVE IInv'
  <1>1. /\ "rewrite" \in Fed /\ "rewrite" \in Readers /\ "aof" \in Readers
        /\ Fed' \subseteq Fed
    BY DEF RewriteDone, Fed, Readers
  <1>a. View' = [e \in Readers |-> IF e = "aof" THEN View["rewrite"] ELSE View[e]]
    BY RewriteDoneView DEF IInv, Shapes
  <1>2. /\ base' = [base EXCEPT !["aof"] = base["rewrite"]]
        /\ pending' = [pending EXCEPT !["aof"] = pending["rewrite"]]
        /\ suspect' = [suspect EXCEPT !["aof"] = suspect["rewrite"]]
        /\ UNCHANGED <<db, link, commands>> /\ rewriting' = FALSE
    BY DEF RewriteDone
  <1>3. Shapes'
    <2>1. View' \in [Readers -> GoodKeyspace] /\ base' \in [Readers -> GoodKeyspace]
      BY <1>1, <1>2, <1>a DEF IInv, Shapes
    <2>2. pending' \in [Readers -> Seq(Commands)]
      BY <1>1, <1>2 DEF IInv, Shapes
    <2>3. suspect' \in [Readers -> SUBSET (Keys \X Fields)]
      BY <1>1, <1>2 DEF IInv, Shapes
    <2> QED BY <1>2, <2>1, <2>2, <2>3 DEF IInv, Shapes
  <1>4. ASSUME NEW c \in Fed'
        PROVE  \E e \in Fed : View'[c] = View[e] /\ suspect'[c] = suspect[e]
    <2>1. CASE c = "aof"
      BY <1>1, <1>2, <1>a, <2>1 DEF IInv, Shapes
    <2>2. CASE c # "aof"
      BY <1>1, <1>2, <1>a, <2>2, FedReaders DEF IInv, Shapes
    <2> QED BY <2>1, <2>2
  <1> QED BY <1>2, <1>3, <1>4 DEF IInv, Agreement

\* After a restart only the AOF is fed, and the master has what was loaded from it.
LEMMA CrashIInv == ASSUME IInv, Crash PROVE IInv'
  <1>1. Fed' = {"aof"} /\ "aof" \in Readers
    BY DEF Crash, Fed, Readers
  <1>2. /\ db' = base["aof"] /\ View' = base /\ base' = base
        /\ base \in [Readers -> GoodKeyspace] /\ base["aof"] \in GoodKeyspace
    BY <1>1, CrashView DEF Crash, IInv, Shapes
  <1>3. pending' \in [Readers -> Seq(Commands)]
    <2>1. <<>> \in Seq(Commands)
      OBVIOUS
    <2> QED BY <2>1, Zenon DEF Crash
  <1>4. Shapes'
    BY <1>2, <1>3 DEF Crash, IInv, Shapes
  <1>5. ASSUME NEW c \in Fed', NEW k \in Keys
        PROVE  Agree(View'[c][k], db'[k], SuspectOf(suspect'[c], k))
    <2>1. View'[c][k] = db'[k] /\ WellFormed(db'[k])
      BY <1>1, <1>2 DEF GoodKeyspace
    <2> QED BY <2>1, AgreeWithItself
  <1> QED BY <1>4, <1>5 DEF IInv, Agreement

\* Every step keeps the invariant.
LEMMA NextIInv == ASSUME IInv, [Next]_vars PROVE IInv'
  <1>1. ASSUME NEW k \in Keys, NEW pairs \in Arguments, GisAdd(k, pairs) PROVE IInv'
    <2>1. pairs \in Seq(Fields \X (Geoms \union {Bad}))
      <3>1. PICK n \in 1 .. MaxPairs : pairs \in [1 .. n -> Fields \X (Geoms \union {Bad})]
        BY DEF Arguments
      <3> QED BY <3>1, BoundsAssumption
    <2>2. [op |-> "gis.add", key |-> k, pairs |-> pairs] \in Commands
      BY <2>1 DEF Commands
    <2> QED BY <1>1, <2>2, ExecuteIInv DEF GisAdd
  <1>2. ASSUME NEW k \in Keys, NEW f \in Fields, GisDel(k, f) PROVE IInv'
    <2>1. [op |-> "gis.del", key |-> k, field |-> f] \in Commands
      BY DEF Commands
    <2> QED BY <1>2, <2>1, ExecuteIInv DEF GisDel
  <1>3. ASSUME NEW k \in Keys, RedisSet(k) \/ RedisDel(k) PROVE IInv'
    <2>1. [op |-> "set", key |-> k] \in Commands /\ [op |-> "del", key |-> k] \in Commands
      BY DEF Commands
    <2> QED BY <1>3, <2>1, ExecuteIInv DEF RedisSet, RedisDel
  <1>4. ASSUME UNCHANGED vars PROVE IInv'
    BY <1>4 DEF vars, IInv, Shapes, Agreement, Fed, View, CaughtUp
  <1> QED BY <1>1, <1>2, <1>3, <1>4, ApplyIInv, ReplicaSyncIInv, ReplicaLostIInv, RewriteStartIInv,
             RewriteDoneIInv, CrashIInv DEF Next

\* The invariant holds in every state.
THEOREM Invariant == Spec => []IInv
  BY InitIInv, NextIInv, PTL DEF Spec

\* In every state the variables have their types.
THEOREM TypeCorrect == Spec => []TypeOK
  <1>1. IInv => TypeOK
    <2>1. GoodKeyspace \subseteq Keyspace
      BY DEF GoodKeyspace, Keyspace
    <2> QED BY <2>1 DEF IInv, Shapes, TypeOK
  <1> QED BY <1>1, Invariant, PTL

\* Whatever commands, lost connections, rewrites and crashes there were: a GIS.GET of a field
\* gives the same reply on the master and on everything that is rebuilt from what it
\* replicated, except for the fields a failed GIS.ADD or a rewrite left different.
THEOREM RepliesAgree == Spec => []FieldsAgree
  <1>1. IInv => FieldsAgree
    <2> SUFFICES ASSUME IInv, NEW c \in Fed, NEW k \in Keys, NEW f \in Fields, <<k, f>> \notin suspect[c]
                 PROVE  GisGet(View[c][k], f) = GisGet(db[k], f)
      BY FedReaders DEF FieldsAgree, View
    <2>1. Agree(View[c][k], db[k], SuspectOf(suspect[c], k)) /\ f \notin SuspectOf(suspect[c], k)
      BY DEF IInv, Agreement, SuspectOf
    <2> DEFINE v == View[c][k]
               d == db[k]
    <2>2. /\ v.type = "string" <=> d.type = "string"
          /\ f \in DOMAIN v.map <=> f \in DOMAIN d.map
          /\ f \in DOMAIN d.map => v.map[f] = d.map[f]
      BY <2>1 DEF Agree
    <2> HIDE DEF v, d
    <2>3. {v.map[g] : g \in {f} \intersect DOMAIN v.map} = {d.map[g] : g \in {f} \intersect DOMAIN d.map}
      BY <2>2
    <2>4. GisGet(v, f) = GisGet(d, f)
      BY <2>2, <2>3 DEF GisGet
    <2> QED BY <2>4 DEF v, d
  <1> QED BY <1>1, Invariant, PTL

\* A key without such fields is the same as a whole on both sides, but for empty values.
THEOREM ValuesAgree == Spec => []KeysAgree
  <1>1. IInv => KeysAgree
    <2> SUFFICES ASSUME IInv, NEW c \in Fed, NEW k \in Keys, \A f \in Fields : <<k, f>> \notin suspect[c]
                 PROVE  NotEmpty(View[c][k]) = NotEmpty(db[k])
      BY FedReaders DEF KeysAgree, View
    <2> DEFINE v == View[c][k]
               d == db[k]
    <2>1. Agree(v, d, {})
      BY DEF IInv, Agreement, SuspectOf, Agree
    <2> HIDE DEF v, d
    <2>2. /\ v \in Value /\ (v.type # "exgistype" => v.map = NoFields)
          /\ d \in Value /\ (d.type # "exgistype" => d.map = NoFields)
      BY <2>1 DEF Agree, WellFormed
    <2>3. v.map = d.map
      <3>1. /\ DOMAIN v.map \subseteq Fields /\ v.map \in [DOMAIN v.map -> Geoms]
            /\ DOMAIN d.map \subseteq Fields /\ d.map \in [DOMAIN d.map -> Geoms]
        BY <2>2, MapMembers DEF Value
      <3>2. \A f \in Fields : /\ f \in DOMAIN v.map <=> f \in DOMAIN d.map
                              /\ f \in DOMAIN d.map => v.map[f] = d.map[f]
        BY <2>1 DEF Agree
      <3> QED BY <3>1, <3>2
    <2>4. v.type = "string" <=> d.type = "string"
      BY <2>1 DEF Agree
    <2>5. NotEmpty(v) = NotEmpty(d)
      <3>1. CASE v.map = NoFields
        BY <3>1, <2>2, <2>3, <2>4 DEF NotEmpty, Value, Absent
      <3>2. CASE v.map # NoFields
        BY <3>2, <2>2, <2>3 DEF NotEmpty, Value
      <3> QED BY <3>1, <3>2
    <2> QED BY <2>5 DEF v, d
  <1> QED BY <1>1, Invariant, PTL

=============================================================================
