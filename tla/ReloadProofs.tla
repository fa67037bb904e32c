----------------------------- MODULE ReloadProofs ---------------------------
(***************************************************************************)
(* Proofs about Codec: what is written as WKT and read again is the        *)
(* geometry that was written, as far as the text shows it, for texts of    *)
(* any length and any depth.  CodecProofs shows that the readers are right *)
(* about what they accept; here the reader of WKT is complete: where a     *)
(* written geometry stands it takes all of it, and leaves its cells.       *)
(***************************************************************************)
EXTENDS CodecProofs

-----------------------------------------------------------------------------
(***************************************************************************)
(* The reader takes all that the writer writes.                            *)
(***************************************************************************)
\* The head of a geometry, before and after its first coordinate.
Settled(h, some) == IF some THEN h ELSE ShownHead(h)

\* The reader is in a geometry of head h: cells have been read, rest is left.
Reading(c, h, some, cells, rest) ==
    /\ c \in Context /\ c.err = "none" /\ c.heap = 1 /\ c.p = rest
    /\ c.isEmpty = FALSE /\ c.hasZ = FALSE /\ c.hasM = (h.m /\ ~h.z)
    /\ c.writtenCoord = some
    /\ some => c.mustZ = h.z /\ c.mustM = h.m
    /\ c.g = Joint(HeadCells(Settled(h, some)), cells)

\* It is between two elements.
Follows(c, h, some, cells, rest) ==
    /\ Reading(c, h, some, cells, rest)
    /\ ~some => c.foundZ = FALSE /\ c.foundM = FALSE

\* It has the numbers s of a coordinate.
Ready(c, h, s, some, cells, rest) ==
    /\ Reading(c, h, some, cells, rest)
    /\ CoordCells(c, h.z, h.m) = s
    /\ ~some => (c.hasZ \/ c.foundZ) = h.z /\ (c.hasM \/ c.foundM) = h.m

\* What a step leaves alone stays as it was.
LEMMA ReadingStays ==
    ASSUME NEW c, NEW h, NEW some, NEW cells, NEW rest, Reading(c, h, some, cells, rest),
           NEW d \in Context, d.err = c.err, SameBuffer(c, d), SameWords(c, d)
    PROVE  Reading(d, h, some, cells, d.p)
  BY Zenon DEF Reading, SameBuffer, SameWords

\* p is a and then b.
IsJoint(p, a, b, T) ==
    /\ p \in Seq(T) /\ Len(p) = Len(a) + Len(b) /\ Len(a) \in Nat /\ Len(b) \in Nat
    /\ SubSeq(p, Len(a) + 1, Len(p)) = b
    /\ \A i \in 1 .. Len(a) : p[i] = a[i]
    /\ \A i \in 1 .. Len(b) : p[Len(a) + i] = b[i]

\* What is put together begins with the first part and ends with the second.
LEMMA TextAhead ==
    ASSUME NEW T, NEW a \in Seq(T), NEW b \in Seq(T)
    PROVE  IsJoint(Joint(a, b), a, b, T)
  <1> DEFINE p == Joint(a, b)
  <1>1. /\ p \in Seq(T) /\ Len(p) = Len(a) + Len(b) /\ Len(a) \in Nat /\ Len(b) \in Nat
        /\ \A i \in 1 .. Len(a) : p[i] = a[i]
        /\ \A i \in 1 .. Len(b) : p[Len(a) + i] = b[i]
    BY ConcatProperties DEF Joint
  <1> DEFINE k == Len(a)
             l == Len(b)
             t == SubSeq(p, k + 1, Len(p))
  <1>2. k \in Nat /\ l \in Nat /\ Len(p) = k + l
    BY <1>1
  <1>3. \A i \in 1 .. l : p[k + i] = b[i]
    BY <1>1
  <1>4. Len(b) = l
    OBVIOUS
  <1> HIDE DEF k, l, p
  <1>5. t \in Seq(T) /\ Len(t) = l /\ \A i \in 1 .. l : t[i] = p[k + i]
    <2> DEFINE m == k + 1
               n == Len(p)
    <2>1. m \in 1 .. Len(p) + 1 /\ n \in m - 1 .. Len(p) /\ p \in Seq(T)
      BY <1>1, <1>2 DEF p
    <2>2. m = k + 1 /\ n = k + l
      BY <1>2
    <2>3. t = SubSeq(p, m, n)
      OBVIOUS
    <2> HIDE DEF m, n, t
    <2>4. /\ SubSeq(p, m, n) \in Seq(T) /\ Len(SubSeq(p, m, n)) = n - m + 1
          /\ \A i \in 1 .. n - m + 1 : SubSeq(p, m, n)[i] = p[m + i - 1]
      BY ONLY <2>1, SubSeqProperties
    <2>5. n - m + 1 = l /\ \A i \in 1 .. l : m + i - 1 = k + i
      BY <1>2, <2>2
    <2> QED BY <2>3, <2>4, <2>5
  <1> HIDE DEF t
  <1>6. t = b
    BY <1>3, <1>4, <1>5, SeqEqual
  <1>7. SubSeq(p, Len(a) + 1, Len(p)) = b
    BY <1>6 DEF t, k
  <1>8. IsJoint(p, a, b, T)
    BY <1>1, <1>7 DEF IsJoint, p
  <1> QED BY <1>8 DEF p

\* The numbers of a coordinate, written.
LEMMA ShownNumbers ==
    ASSUME NEW n \in Nat, NEW s \in [1 .. n -> Digit]
    PROVE  /\ Shown(s) \in Seq(Tokens) /\ Len(Shown(s)) = n
           /\ \A i \in 1 .. n : Shown(s)[i] = dstr(s[i]) /\ s[i] \in Digit
  <1>1. s \in Seq(Digit) /\ Len(s) = n
    OBVIOUS
  <1>2. \A i \in 1 .. n : s[i] \in Digit /\ dstr(s[i]) \in Tokens
    BY <1>1, Numbers
  <1> DEFINE t == [i \in 1 .. n |-> dstr(s[i])]
  <1>3. t \in Seq(Tokens) /\ Len(t) = n /\ \A i \in 1 .. n : t[i] = dstr(s[i])
    BY <1>2
  <1>4. t = Shown(s)
    BY <1>1, Zenon DEF Shown
  <1> HIDE DEF t
  <1> QED BY <1>2, <1>3, <1>4

\* The numbers that come next are those of a coordinate, up to a bracket or a comma.
NumbersNext(c, s, n, rest) ==
    /\ \A i \in 1 .. n : /\ IsNumber(Ahead(c, i)) /\ Ahead(c, i) \notin {")", ","}
                         /\ strtod(c.p[i]) = s[i] /\ s[i] \in Digit
    /\ Ahead(c, n + 1) \in {")", ","}
    /\ SubSeq(c.p, n + 1, Len(c.p)) = rest

\* The numbers of a coordinate come next, and no other token is one of them.
LEMMA NumbersComeNext ==
    ASSUME NEW c, NEW n \in Nat, NEW s \in [1 .. n -> Digit], NEW rest \in Seq(Tokens), Len(rest) >= 1,
           rest[1] \in {")", ","}, c.p = Joint(Shown(s), rest)
    PROVE  NumbersNext(c, s, n, rest)
  <1> DEFINE a == Shown(s)
  <1>1. a \in Seq(Tokens) /\ Len(a) = n /\ \A i \in 1 .. n : a[i] = dstr(s[i]) /\ s[i] \in Digit
    BY ShownNumbers
  <1>2. c.p = Joint(a, rest)
    OBVIOUS
  <1> HIDE DEF a
  <1>3. /\ c.p \in Seq(Tokens) /\ Len(c.p) = Len(a) + Len(rest) /\ Len(rest) \in Nat
        /\ SubSeq(c.p, Len(a) + 1, Len(c.p)) = rest
        /\ \A i \in 1 .. Len(a) : c.p[i] = a[i]
        /\ \A i \in 1 .. Len(rest) : c.p[Len(a) + i] = rest[i]
    <2>1. IsJoint(Joint(a, rest), a, rest, Tokens)
      BY <1>1, TextAhead
    <2> QED BY <1>2, <2>1, Zenon DEF IsJoint
  <1>4. ASSUME NEW i \in 1 .. n
        PROVE  /\ IsNumber(Ahead(c, i)) /\ Ahead(c, i) \notin {")", ","}
               /\ strtod(c.p[i]) = s[i] /\ s[i] \in Digit
    <2>1. i <= Len(c.p) /\ c.p[i] = dstr(s[i]) /\ s[i] \in Digit
      <3> DEFINE l == Len(c.p)
                 k == Len(rest)
      <3>1. l = n + k /\ k \in Nat
        BY <1>1, <1>3
      <3>2. c.p[i] = a[i] /\ a[i] = dstr(s[i]) /\ s[i] \in Digit
        BY <1>1, <1>3
      <3> HIDE DEF l, k
      <3>3. i <= l
        <4>1. i \in 1 .. n /\ n \in Nat
          OBVIOUS
        <4> QED BY ONLY <3>1, <4>1
      <3> QED BY <3>2, <3>3 DEF l
    <2>2. Ahead(c, i) = dstr(s[i])
      BY <2>1 DEF Ahead
    <2> QED BY <2>1, <2>2, Numbers
  <1>5. Ahead(c, n + 1) \in {")", ","}
    <2>1. n + 1 <= Len(c.p) /\ c.p[n + 1] = rest[1]
      <3> DEFINE l == Len(c.p)
                 k == Len(rest)
                 j == Len(a)
      <3>1. l = j + k /\ k \in Nat /\ k >= 1 /\ j = n /\ n \in Nat
        BY <1>1, <1>3
      <3>2. \A i \in 1 .. k : c.p[j + i] = rest[i]
        BY <1>3
      <3> HIDE DEF l, k, j
      <3>3. 1 \in 1 .. k /\ n + 1 <= l
        BY ONLY <3>1
      <3>4. c.p[n + 1] = rest[1]
        BY ONLY <3>1, <3>2, <3>3
      <3> QED BY <3>3, <3>4 DEF l
    <2> QED BY <2>1 DEF Ahead
  <1> QED BY <1>1, <1>3, <1>4, <1>5 DEF NumbersNext

\* Their number is found.
LEMMA NumbersFound ==
    ASSUME NEW c, NEW n \in 2 .. 4, NEW s, NEW rest, NumbersNext(c, s, n, rest)
    PROVE  NumbersAhead(c) = n
  <1> DEFINE ends(k) == Ahead(c, k + 1) \in {")", ","}
             P(k) == (k = 4 \/ ends(k)) /\ \A j \in 2 .. k - 1 : ~ends(j)
  <1>1. NumbersAhead(c) = CHOOSE k \in 2 .. 4 : P(k)
    BY DEF NumbersAhead
  <1>2. ends(n)
    BY DEF NumbersNext
  <1>3. \A j \in 2 .. n - 1 : ~ends(j)
    <2>1. \A j \in 2 .. n - 1 : j + 1 \in 1 .. n
      OBVIOUS
    <2> QED BY <2>1 DEF NumbersNext
  <1> HIDE DEF ends
  <1>4. P(n)
    BY <1>2, <1>3
  <1>5. ASSUME NEW k \in 2 .. 4, P(k) PROVE k = n
    <2>1. ~(k < n)
      BY <1>3, <1>5
    <2>2. ~(k > n)
      BY <1>2, <1>5
    <2> QED BY <2>1, <2>2
  <1> HIDE DEF P
  <1> QED BY <1>1, <1>4, <1>5

\* The cells of a coordinate of a geometry of head h.
CoordOf(h, x, y, z, m) == <<x, y>> \o (IF h.z THEN <<z>> ELSE <<>>) \o (IF h.m THEN <<m>> ELSE <<>>)

\* What the first coordinate decides is the head.
Decided(h, some, foundZ, foundM) == ~some => foundZ = h.z /\ ((h.m /\ ~h.z) \/ foundM) = h.m

\* A coordinate whose numbers are put into the fields.
LEMMA PutReady ==
    ASSUME NEW h \in Heads, NEW s, NEW some \in BOOLEAN, NEW cells, NEW c, NEW p,
           Reading(c, h, some, cells, p), NEW rest,
           NEW n, NEW x, NEW y, NEW z, NEW m, NEW foundZ, NEW foundM,
           Puttable(c, n, x, y, z, m, foundZ, foundM), SubSeq(c.p, n + 1, Len(c.p)) = rest,
           CoordOf(h, x, y, z, m) = s,
           Decided(h, some, foundZ, foundM)
    PROVE  Ready(Put(c, n, x, y, z, m, foundZ, foundM), h, s, some, cells, rest)
  <1> DEFINE d == Put(c, n, x, y, z, m, foundZ, foundM)
  <1>1. NumbersRead(c, d) /\ d.err = c.err /\ SameBuffer(c, d) /\ SameWords(c, d)
    BY NumbersPut
  <1>2. d.x = x /\ d.y = y /\ d.z = z /\ d.m = m /\ d.foundZ = foundZ /\ d.foundM = foundM
    BY NumbersPut
  <1>3. d.p = rest
    <2>1. d.p = SubSeq(c.p, n + 1, Len(c.p))
      BY NumbersPut
    <2> HIDE DEF d
    <2> QED BY <2>1
  <1> HIDE DEF d
  <1>4. d \in Context
    BY <1>1 DEF NumbersRead
  <1>5. Reading(d, h, some, cells, rest)
    <2>1. Reading(d, h, some, cells, d.p)
      BY <1>1, <1>4, ReadingStays
    <2> QED BY <1>3, <2>1, Zenon
  <1>6. CoordCells(d, h.z, h.m) = s
    BY <1>2, Zenon DEF CoordCells, CoordOf
  <1>7. d.hasZ = FALSE /\ d.hasM = (h.m /\ ~h.z)
    BY <1>5 DEF Reading
  <1>8. ~some => (d.hasZ \/ d.foundZ) = h.z /\ (d.hasM \/ d.foundM) = h.m
    <2>1. foundZ \in BOOLEAN /\ foundM \in BOOLEAN
      BY DEF Puttable
    <2> QED BY <1>2, <1>7, <2>1, Zenon DEF Decided
  <1>9. Ready(d, h, s, some, cells, rest)
    BY <1>5, <1>6, <1>8 DEF Ready
  <1> QED BY <1>9 DEF d

\* The numbers of a coordinate, put together again.
LEMMA NumbersTogether ==
    ASSUME NEW h \in Heads, NEW n \in Nat, n = Dims(h), NEW s \in [1 .. n -> Digit],
           NEW a \in Digit, h.z => a = s[3], NEW b \in Digit, h.m => b = s[n]
    PROVE  CoordOf(h, s[1], s[2], a, b) = s
  <1> DEFINE D == Digit
             x == s[1]
             y == s[2]
             A == <<x, y>>
             B == IF h.z THEN <<a>> ELSE <<>>
             E == IF h.m THEN <<b>> ELSE <<>>
             v == A \o B
             u == v \o E
             k == IF h.z THEN 3 ELSE 2
             j == IF h.m THEN 1 ELSE 0
  <1>0. h.z \in BOOLEAN /\ h.m \in BOOLEAN /\ n \in 2 .. 4
    BY HeadParts, HeadDims
  <1>1. n = k + j /\ k \in {2, 3} /\ j \in {0, 1} /\ (h.z <=> k = 3) /\ (h.m <=> j = 1)
    <2>1. n = 2 + (IF h.z THEN 1 ELSE 0) + (IF h.m THEN 1 ELSE 0)
      BY Zenon DEF Dims
    <2> QED BY <1>0, <2>1
  <1>2. s \in Seq(D) /\ Len(s) = n /\ x \in D /\ y \in D
    BY <1>0
  <1>3. a \in D /\ b \in D
    OBVIOUS
  <1> HIDE DEF D, x, y
  <1>4. A \in Seq(D) /\ Len(A) = 2 /\ A[1] = x /\ A[2] = y
    BY <1>2
  <1>5. B \in Seq(D) /\ Len(B) = k - 2 /\ (h.z => B[1] = a)
    BY <1>0, <1>3
  <1>6. E \in Seq(D) /\ Len(E) = j /\ (h.m => E[1] = b)
    BY <1>0, <1>3
  <1>7. CoordOf(h, s[1], s[2], a, b) = u
    BY Zenon DEF CoordOf, x, y
  <1>8. h.z => s[3] = a
    OBVIOUS
  <1>9. h.m => s[k + 1] = b
    BY <1>0, <1>1
  <1> HIDE DEF A, B, E, k, j, v, u
  <1>10. v \in Seq(D) /\ Len(v) = k /\ v[1] = x /\ v[2] = y /\ (k = 3 => v[3] = a)
    <2>1. /\ v \in Seq(D) /\ Len(v) = Len(A) + Len(B)
          /\ \A i \in 1 .. Len(A) + Len(B) : v[i] = IF i <= Len(A) THEN A[i] ELSE B[i - Len(A)]
      BY <1>4, <1>5, ConcatProperties DEF v
    <2>2. Len(A) + Len(B) = k /\ Len(A) = 2
      BY <1>1, <1>4, <1>5
    <2>3. \A i \in 1 .. k : v[i] = IF i <= 2 THEN A[i] ELSE B[i - 2]
      BY <2>1, <2>2
    <2>4. v[1] = A[1] /\ v[2] = A[2] /\ (k = 3 => v[3] = B[1])
      BY <1>1, <2>3
    <2> QED BY <1>1, <1>4, <1>5, <2>1, <2>2, <2>4
  <1>11. u \in Seq(D) /\ Len(u) = n /\ (\A i \in 1 .. k : u[i] = v[i]) /\ (j = 1 => u[k + 1] = b)
    <2>1. /\ u \in Seq(D) /\ Len(u) = Len(v) + Len(E)
          /\ \A i \in 1 .. Len(v) + Len(E) : u[i] = IF i <= Len(v) THEN v[i] ELSE E[i - Len(v)]
      BY <1>6, <1>10, ConcatProperties DEF u
    <2>2. \A i \in 1 .. k + j : u[i] = IF i <= k THEN v[i] ELSE E[i - k]
      BY <1>6, <1>10, <2>1
    <2>3. \A i \in 1 .. k : u[i] = v[i]
      BY <1>1, <2>2
    <2>4. j = 1 => u[k + 1] = E[1]
      BY <1>1, <2>2
    <2> QED BY <1>1, <1>6, <1>10, <2>1, <2>3, <2>4
  <1>12. \A i \in 1 .. Len(s) : s[i] = u[i]
    <2> SUFFICES ASSUME NEW i \in 1 .. Len(s) PROVE s[i] = u[i]
      OBVIOUS
    <2>1. i \in 1 .. k + j
      BY <1>1, <1>2
    <2>2. i = 1 \/ i = 2 \/ (i = 3 /\ k = 3) \/ (i = k + 1 /\ j = 1)
      BY ONLY <1>1, <2>1
    <2>3. u[1] = v[1] /\ u[2] = v[2] /\ (k = 3 => u[3] = v[3])
      BY <1>1, <1>11
    <2>4. s[1] = v[1] /\ s[2] = v[2]
      BY <1>10 DEF x, y
    <2> QED BY <1>1, <1>8, <1>9, <1>10, <1>11, <2>2, <2>3, <2>4
  <1>13. s = u
    BY <1>2, <1>11, <1>12, SeqEqual
  <1> QED BY <1>7, <1>13

\* The numbers of a coordinate are taken.
LEMMA NumbersTaken ==
    ASSUME NEW h \in Heads, NEW s \in [1 .. Dims(h) -> Digit], NEW some \in BOOLEAN, NEW cells,
           NEW rest \in Seq(Tokens), Len(rest) >= 1, rest[1] \in {")", ","},
           NEW c, Follows(c, h, some, cells, Joint(Shown(s), rest))
    PROVE  Ready(decodeNumbers(c), h, s, some, cells, rest)
  <1> DEFINE n == Dims(h)
             p == Joint(Shown(s), rest)
             D == Digit
  <1>1. h.z \in BOOLEAN /\ h.m \in BOOLEAN /\ n \in 2 .. 4 /\ n \in Nat
    BY HeadParts, HeadDims
  <1>2. n = 2 + (IF h.z THEN 1 ELSE 0) + (IF h.m THEN 1 ELSE 0)
    BY Zenon DEF Dims
  <1>3. s \in [1 .. n -> D]
    OBVIOUS
  <1>4. /\ Reading(c, h, some, cells, p) /\ c \in Context /\ c.p = p
        /\ c.hasZ = FALSE /\ c.hasM = (h.m /\ ~h.z)
        /\ ~some => c.foundZ = FALSE /\ c.foundM = FALSE
    BY Zenon DEF Follows, Reading
  <1>5. NumbersNext(c, s, n, rest)
    BY <1>1, <1>4, NumbersComeNext
  <1>6. 0 \in D
    <2>1. 0 \in 0 .. 9
      BY ONLY 0 \in Nat
    <2> QED BY <2>1, Zenon DEF Digit
  <1>7. ASSUME NEW a \in D, h.z => a = s[3], NEW b \in D, h.m => b = s[n]
        PROVE  CoordOf(h, s[1], s[2], a, b) = s
    <2>1. h \in Heads /\ n = Dims(h) /\ n \in Nat /\ s \in [1 .. n -> Digit] /\ a \in Digit /\ b \in Digit
      BY <1>1
    <2> HIDE DEF n, D
    <2> QED BY ONLY <1>7, <2>1, NumbersTogether
  <1>8. ASSUME NEW x, NEW y, NEW z, NEW m, NEW foundZ, NEW foundM,
               Puttable(c, n, x, y, z, m, foundZ, foundM),
               CoordOf(h, x, y, z, m) = s, Decided(h, some, foundZ, foundM)
        PROVE  Ready(Put(c, n, x, y, z, m, foundZ, foundM), h, s, some, cells, rest)
    <2>1. SubSeq(c.p, n + 1, Len(c.p)) = rest
      BY <1>5, Zenon DEF NumbersNext
    <2> QED BY <1>4, <1>8, <2>1, PutReady
  <1> HIDE DEF p, n
  <1>9. /\ \A i \in 1 .. n : IsNumber(Ahead(c, i)) /\ strtod(c.p[i]) = s[i] /\ s[i] \in D
        /\ SubSeq(c.p, n + 1, Len(c.p)) = rest
    BY <1>5 DEF NumbersNext
  <1> HIDE DEF D
  <1> DEFINE w == strtod(c.p[1])
             v == strtod(c.p[2])
  <1>10. w = s[1] /\ w \in D /\ v = s[2] /\ v \in D
    BY ONLY <1>1, <1>9
  <1>11. ~(\E i \in 1 .. n : ~IsNumber(Ahead(c, i)))
    BY <1>9
  <1>12. CASE h.m /\ ~h.z
    <2>1. n = 3 /\ c.hasZ = FALSE /\ c.hasM = TRUE
      <3>1. n = 3
        BY ONLY <1>1, <1>2, <1>12
      <3>2. c.hasZ = FALSE /\ c.hasM = TRUE
        BY <1>4, <1>12, Zenon
      <3> QED BY <3>1, <3>2
    <2> DEFINE z == IF c.hasZ THEN strtod(c.p[3]) ELSE 0
               m == IF c.hasM THEN strtod(c.p[n]) ELSE 0
    <2>2. z = 0 /\ m = s[3] /\ m \in D
      <3>1. 3 \in 1 .. n
        BY ONLY <2>1
      <3>2. strtod(c.p[3]) = s[3] /\ s[3] \in D
        BY ONLY <1>9, <3>1
      <3> QED BY ONLY <2>1, <3>2
    <2>3. decodeNumbers(c) = Put(c, n, w, v, z, m, c.hasZ, c.hasM)
      <3>1. 2 + (IF c.hasZ THEN 1 ELSE 0) + (IF c.hasM THEN 1 ELSE 0) = n
        BY ONLY <2>1
      <3>2. DeclaredNumbers(c) = Put(c, n, w, v, z, m, c.hasZ, c.hasM)
        BY <1>11, <3>1, Zenon DEF DeclaredNumbers, Put
      <3>3. decodeNumbers(c) = DeclaredNumbers(c)
        BY <2>1, Zenon DEF decodeNumbers
      <3> QED BY <3>2, <3>3
    <2>4. CoordOf(h, w, v, z, m) = s
      <3>1. z \in D /\ (h.z => z = s[3]) /\ (h.m => m = s[n])
        BY ONLY <1>6, <1>12, <2>1, <2>2
      <3> HIDE DEF z, m, w, v
      <3>2. CoordOf(h, s[1], s[2], z, m) = s
        BY <1>7, <2>2, <3>1
      <3> QED BY <1>10, <3>2
    <2>5. Decided(h, some, c.hasZ, c.hasM)
      <3>1. c.hasZ = h.z /\ ((h.m /\ ~h.z) \/ c.hasM) = h.m
        BY ONLY <1>1, <1>12, <2>1
      <3> QED BY <3>1 DEF Decided
    <2>6. Puttable(c, n, w, v, z, m, c.hasZ, c.hasM)
      <3>1. c.hasZ \in BOOLEAN /\ c.hasM \in BOOLEAN
        BY ONLY <2>1
      <3> HIDE DEF z, m, w, v
      <3> QED BY <1>1, <1>4, <1>6, <1>10, <2>2, <3>1 DEF Puttable, D
    <2> HIDE DEF z, m, w, v
    <2>7. Ready(Put(c, n, w, v, z, m, c.hasZ, c.hasM), h, s, some, cells, rest)
      BY <1>8, <2>4, <2>5, <2>6
    <2> QED BY <2>3, <2>7, Zenon
  <1>13. CASE ~(h.m /\ ~h.z)
    <2> DEFINE b == Skip(c, n)
               z == IF n >= 3 THEN strtod(c.p[3]) ELSE 0
               m == IF n = 4 THEN strtod(c.p[4]) ELSE IF n = 3 THEN 0 ELSE b.m
               foundZ == b.foundZ \/ n >= 3
               foundM == b.foundM \/ n = 4
    <2>1. (n >= 3) = h.z /\ (n = 4) = h.m
      BY ONLY <1>1, <1>2, <1>13
    <2>2. NumbersAhead(c) = n
      BY <1>1, <1>5, NumbersFound
    <2>3. b \in Context /\ SameNumbers(c, b)
      BY <1>1, <1>4, Skipped
    <2>4. b.m \in D /\ b.foundZ = c.foundZ /\ b.foundM = c.foundM /\ c.foundZ \in BOOLEAN /\ c.foundM \in BOOLEAN
      <3>1. b.m \in D /\ c.foundZ \in BOOLEAN /\ c.foundM \in BOOLEAN
        BY <1>4, <2>3, ContextFields DEF D
      <3> QED BY <2>3, <3>1, Zenon DEF SameNumbers
    <2>5. /\ n >= 3 => strtod(c.p[3]) = s[3] /\ s[3] \in D
          /\ n = 4 => strtod(c.p[4]) = s[4] /\ s[4] \in D
      <3>1. (n >= 3 => 3 \in 1 .. n) /\ (n = 4 => 4 \in 1 .. n)
        BY ONLY <1>1
      <3> QED BY ONLY <1>9, <3>1
    <2>6. decodeNumbers(c) = Put(c, n, w, v, z, m, foundZ, foundM)
      <3>1. decodeNumbers(c) = TakeNumbers(c, n)
        <4>1. ~(c.hasZ \/ c.hasM)
          BY ONLY <1>1, <1>4, <1>13
        <4> QED BY <2>2, <4>1, Zenon DEF decodeNumbers, FoundNumbers
      <3>2. TakeNumbers(c, n) =
               [Skip(c, n) EXCEPT !.x = strtod(c.p[1]), !.y = strtod(c.p[2]),
                            !.z = IF n >= 3 THEN strtod(c.p[3]) ELSE 0,
                            !.m = IF n = 4 THEN strtod(c.p[4]) ELSE IF n = 3 THEN 0 ELSE @,
                            !.foundZ = @ \/ n >= 3, !.foundM = @ \/ n = 4]
        BY <1>11, Zenon DEF TakeNumbers
      <3> HIDE DEF b
      <3>3. TakeNumbers(c, n) = Put(c, n, w, v, z, m, foundZ, foundM)
        BY <2>3, <3>2 DEF Context, b, Put
      <3> QED BY <3>1, <3>3
    <2> HIDE DEF b
    <2>7. z \in D /\ m \in D /\ foundZ \in BOOLEAN /\ foundM \in BOOLEAN
      BY ONLY <1>1, <1>6, <2>4, <2>5
    <2>8. (h.z => z = s[3]) /\ (h.m => m = s[n])
      BY ONLY <1>1, <2>1, <2>5
    <2>9. Decided(h, some, foundZ, foundM)
      <3>1. ASSUME ~some PROVE foundZ = h.z /\ ((h.m /\ ~h.z) \/ foundM) = h.m
        BY ONLY <1>1, <1>4, <1>13, <2>1, <2>4, <3>1
      <3> QED BY <3>1 DEF Decided
    <2> HIDE DEF z, m, w, v, foundZ, foundM
    <2>10. CoordOf(h, w, v, z, m) = s
      <3>1. CoordOf(h, s[1], s[2], z, m) = s
        BY <1>7, <2>7, <2>8
      <3> QED BY <1>10, <3>1
    <2>11. Puttable(c, n, w, v, z, m, foundZ, foundM)
      BY <1>1, <1>4, <1>10, <2>7 DEF Puttable, D
    <2>12. Ready(Put(c, n, w, v, z, m, foundZ, foundM), h, s, some, cells, rest)
      BY <1>8, <2>9, <2>10, <2>11
    <2> QED BY <2>6, <2>12, Zenon
  <1> QED BY <1>12, <1>13

\* The buffer g has the head h and then cells.
IsHeaded(g, h, cells) ==
    /\ g \in Seq(Int) /\ Len(g) = 2 + Len(cells) /\ Len(cells) \in Nat
    /\ g[1] = LittleEndian /\ g[2] = TypeCell(TypeCode(h.type), h.z, h.m)
    /\ \A i \in 1 .. Len(cells) : g[2 + i] = cells[i]

\* The cells of a head stand before the others.
LEMMA HeadedCells ==
    ASSUME NEW h \in Heads, NEW cells \in Seq(Int)
    PROVE  IsHeaded(Joint(HeadCells(h), cells), h, cells)
  <1> DEFINE a == HeadCells(h)
             g == Joint(a, cells)
  <1>1. /\ a \in Seq(Int) /\ Len(a) = 2 /\ a[1] = LittleEndian
        /\ a[2] = TypeCell(TypeCode(h.type), h.z, h.m)
    BY HeadDims
  <1>2. IsJoint(g, a, cells, Int)
    BY <1>1, TextAhead
  <1> HIDE DEF a, g
  <1>3. /\ g \in Seq(Int) /\ Len(g) = Len(a) + Len(cells) /\ Len(cells) \in Nat
        /\ \A i \in 1 .. Len(a) : g[i] = a[i]
        /\ \A i \in 1 .. Len(cells) : g[Len(a) + i] = cells[i]
    BY <1>2 DEF IsJoint
  <1>4. IsHeaded(g, h, cells)
    BY <1>1, <1>3 DEF IsHeaded
  <1> QED BY <1>4 DEF g, a

\* A head settles to itself if there was a coordinate, and to what the words show if not.
LEMMA SettledHeads ==
    ASSUME NEW h \in Heads, NEW some \in BOOLEAN
    PROVE  /\ Settled(h, some) \in Heads /\ Settled(h, some).type = h.type
           /\ some => Settled(h, some) = h
           /\ ~some => Settled(h, some) = ShownHead(h)
  BY HeadShown DEF Settled

\* The coordinate that the reader has goes to the buffer.
LEMMA CoordPut ==
    ASSUME NEW h \in Heads, NEW s \in [1 .. Dims(h) -> Digit], NEW some \in BOOLEAN, NEW cells \in Seq(Int),
           NEW rest, NEW c, Ready(c, h, s, some, cells, rest)
    PROVE  Follows(appendCoord(c), h, TRUE, Joint(cells, s), rest)
  <1> DEFINE d == appendCoord(c)
             type == h.type
             hh == Settled(h, some)
  <1>1. /\ Reading(c, h, some, cells, rest) /\ c \in Context /\ CoordCells(c, h.z, h.m) = s
        /\ ~some => (c.hasZ \/ c.foundZ) = h.z /\ (c.hasM \/ c.foundM) = h.m
    BY Zenon DEF Ready, Reading
  <1>2. /\ c.err = "none" /\ c.heap = 1 /\ c.p = rest /\ c.isEmpty = FALSE /\ c.hasZ = FALSE
        /\ c.hasM = (h.m /\ ~h.z) /\ c.writtenCoord = some /\ (some => c.mustZ = h.z /\ c.mustM = h.m)
        /\ c.g = Joint(HeadCells(hh), cells)
    BY <1>1, Zenon DEF Reading
  <1>3. hh \in Heads /\ hh.type = type /\ (some => hh = h)
    BY SettledHeads
  <1> HIDE DEF hh
  <1>4. /\ c.g \in Seq(Int) /\ Len(c.g) = 2 + Len(cells) /\ Len(cells) \in Nat
        /\ c.g[1] = LittleEndian /\ c.g[2] = TypeCell(TypeCode(hh.type), hh.z, hh.m)
        /\ \A i \in 1 .. Len(cells) : c.g[2 + i] = cells[i]
    <2>1. IsHeaded(Joint(HeadCells(hh), cells), hh, cells)
      BY <1>3, HeadedCells
    <2> QED BY <1>2, <2>1, Zenon DEF IsHeaded
  <1>5. /\ hh.z \in BOOLEAN /\ hh.m \in BOOLEAN /\ type \in TypeNames /\ h.z \in BOOLEAN /\ h.m \in BOOLEAN
    BY <1>3, HeadParts
  <1>6. Headed(c, type)
    <2>1. c.g[2] = TypeCell(TypeCode(type), hh.z, hh.m)
      BY <1>3, <1>4, Zenon
    <2>2. c.writtenCoord => hh.z = c.mustZ /\ hh.m = c.mustM
      BY <1>2, <1>3, Zenon
    <2>3. Len(c.g) >= 2 /\ c.g[1] = LittleEndian
      BY <1>4
    <2> QED BY <1>5, <2>1, <2>2, <2>3 DEF Headed
  <1>7. CoordTaken(c, d, type)
    BY <1>1, <1>5, <1>6, CoordAppended
  <1> HIDE DEF d
  <1>8. /\ d \in Context /\ d.err = c.err /\ d.heap = c.heap /\ d.p = c.p
        /\ SameWords(c, d) /\ Headed(d, type) /\ d.writtenCoord = TRUE
        /\ Grown(c, d, CoordCells(c, d.mustZ, d.mustM), 2)
    BY <1>7 DEF CoordTaken
  <1>9. d.mustZ = h.z /\ d.mustM = h.m
    <2>1. CASE some
      BY <2>1, <1>2, <1>7, Zenon DEF CoordTaken
    <2>2. CASE ~some
      BY <2>2, <1>1, <1>2, <1>7, Zenon DEF CoordTaken
    <2> QED BY <2>1, <2>2
  <1>10. Grown(c, d, s, 2)
    BY <1>1, <1>8, <1>9, Zenon
  <1>11. d.g = Joint(HeadCells(h), Joint(cells, s))
    <2> DEFINE all == Joint(cells, s)
               g == Joint(HeadCells(h), all)
               n == Len(cells)
               l == Len(s)
    <2>1. s \in Seq(Int) /\ l \in Nat
      <3>1. NumbersOf(h.z, h.m) \in 2 .. 4 /\ CoordCells(c, h.z, h.m) \in Seq(Int)
        BY <1>1, <1>5, CoordinateCells
      <3> QED BY <1>1, <3>1
    <2>2. /\ all \in Seq(Int) /\ Len(all) = n + l /\ n \in Nat
          /\ \A i \in 1 .. n : all[i] = cells[i]
          /\ \A i \in 1 .. l : all[n + i] = s[i]
      <3>1. IsJoint(all, cells, s, Int)
        BY <2>1, TextAhead
      <3> QED BY <3>1, Zenon DEF IsJoint
    <2> HIDE DEF all
    <2>3. /\ g \in Seq(Int) /\ Len(g) = 2 + Len(all)
          /\ g[1] = LittleEndian /\ g[2] = TypeCell(TypeCode(h.type), h.z, h.m)
          /\ \A i \in 1 .. Len(all) : g[2 + i] = all[i]
      <3>1. IsHeaded(g, h, all)
        BY <2>2, HeadedCells
      <3> QED BY <3>1, Zenon DEF IsHeaded
    <2> HIDE DEF g
    <2>4. /\ Len(d.g) = Len(c.g) + l
          /\ \A i \in 1 .. Len(c.g) : i # 2 => d.g[i] = c.g[i]
          /\ \A i \in 1 .. l : d.g[Len(c.g) + 1 + i - 1] = s[i]
      BY <1>10 DEF Grown, Stands
    <2>5. d.g[1] = LittleEndian /\ d.g[2] = TypeCell(TypeCode(type), h.z, h.m)
      BY <1>8, <1>9 DEF Headed
    <2>6. d.g \in Seq(Int)
      BY <1>8, ContextFields
    <2>7. Len(c.g) = 2 + n
      BY <1>4
    <2>8. \A i \in 1 .. n : d.g[2 + i] = cells[i]
      <3> SUFFICES ASSUME NEW i \in 1 .. n PROVE d.g[2 + i] = cells[i]
        OBVIOUS
      <3>1. c.g[2 + i] = cells[i]
        BY <1>4
      <3> HIDE DEF n
      <3>2. 2 + i \in 1 .. Len(c.g) /\ 2 + i # 2
        BY <2>2, <2>7
      <3> QED BY <2>4, <3>1, <3>2
    <2> HIDE DEF n, l
    <2>9. \A i \in 1 .. l : d.g[2 + n + i] = s[i]
      <3> SUFFICES ASSUME NEW i \in 1 .. l PROVE d.g[2 + n + i] = s[i]
        OBVIOUS
      <3>1. Len(c.g) + 1 + i - 1 = 2 + n + i
        BY <2>2, <2>7
      <3> QED BY <2>4, <3>1
    <2>10. Len(d.g) = Len(g) /\ Len(g) = 2 + (n + l)
      BY <2>1, <2>2, <2>3, <2>4, <2>7
    <2>11. ASSUME NEW i \in 1 .. Len(d.g) PROVE d.g[i] = g[i]
      <3>1. CASE i = 1
        BY <3>1, <2>3, <2>5
      <3>2. CASE i = 2
        BY <3>2, <2>3, <2>5
      <3>3. CASE i > 2 /\ i <= 2 + n
        <4>1. PICK j \in 1 .. n : i = 2 + j
          <5>1. i - 2 \in 1 .. n /\ i = 2 + (i - 2)
            BY <3>3, <2>2
          <5> QED BY <5>1
        <4>2. j \in 1 .. Len(all)
          BY <2>1, <2>2
        <4> QED BY <4>1, <4>2, <2>2, <2>3, <2>8
      <3>4. CASE i > 2 + n
        <4>1. PICK j \in 1 .. l : i = 2 + n + j
          <5>1. i - 2 - n \in 1 .. l /\ i = 2 + n + (i - 2 - n)
            BY <3>4, <2>1, <2>2, <2>10
          <5> QED BY <5>1
        <4>2. n + j \in 1 .. Len(all) /\ i = 2 + (n + j)
          BY <4>1, <2>1, <2>2
        <4>3. g[2 + (n + j)] = all[n + j] /\ all[n + j] = s[j] /\ d.g[2 + n + j] = s[j]
          BY <4>2, <2>2, <2>3, <2>9
        <4> QED BY <4>1, <4>2, <4>3
      <3> QED BY <3>1, <3>2, <3>3, <3>4, <2>2
    <2>12. d.g = g
      BY <2>3, <2>6, <2>10, <2>11, SeqEqual
    <2> QED BY <2>12 DEF g, all
  <1>12. Settled(h, TRUE) = h
    BY SettledHeads
  <1>13. Reading(d, h, TRUE, Joint(cells, s), rest)
    <2>1. d.isEmpty = FALSE /\ d.hasZ = FALSE /\ d.hasM = (h.m /\ ~h.z)
      BY <1>2, <1>8, Zenon DEF SameWords
    <2>2. d.g = Joint(HeadCells(Settled(h, TRUE)), Joint(cells, s))
      BY <1>11, <1>12, Zenon
    <2>3. d.err = "none" /\ d.heap = 1 /\ d.p = rest
      BY <1>2, <1>8
    <2> QED BY <1>8, <1>9, <2>1, <2>2, <2>3, Zenon DEF Reading
  <1>14. Follows(d, h, TRUE, Joint(cells, s), rest)
    BY <1>13, Zenon DEF Follows
  <1> QED BY <1>14 DEF d

\* A sequence by its first element.
LEMMA BeforeIs ==
    ASSUME NEW U, NEW a \in U, NEW b \in Seq(U), NEW c \in Seq(U), Len(c) = Len(b) + 1, c[1] = a,
           \A n \in 1 .. Len(b) : c[n + 1] = b[n]
    PROVE  c = Before(a, b)
  <1> DEFINE u == Before(a, b)
  <1>1. u \in Seq(U) /\ Len(u) = Len(b) + 1 /\ u[1] = a /\ \A n \in 1 .. Len(b) : u[n + 1] = b[n]
    BY DEF Before
  <1> HIDE DEF u
  <1>2. \A i \in 1 .. Len(c) : c[i] = u[i]
    <2> SUFFICES ASSUME NEW i \in 1 .. Len(c) PROVE c[i] = u[i]
      OBVIOUS
    <2>1. CASE i = 1
      BY <2>1, <1>1
    <2>2. CASE i # 1
      <3>1. i - 1 \in 1 .. Len(b) /\ (i - 1) + 1 = i
        BY <2>2
      <3> QED BY <3>1, <1>1
    <2> QED BY <2>1, <2>2
  <1>3. c = u
    BY <1>1, <1>2, SeqEqual
  <1> QED BY <1>3 DEF u

\* An element before others.
LEMMA BeforeParts ==
    ASSUME NEW U, NEW a \in U, NEW b \in Seq(U)
    PROVE  /\ Before(a, b) \in Seq(U) /\ Len(Before(a, b)) = Len(b) + 1 /\ Len(b) \in Nat
           /\ Before(a, b)[1] = a
           /\ \A n \in 1 .. Len(b) : Before(a, b)[n + 1] = b[n]
  BY DEF Before

\* A sequence that is not empty has a first element and others.
LEMMA FirstOf ==
    ASSUME NEW U, NEW s \in Seq(U), Len(s) >= 1
    PROVE  \E a \in U : \E b \in Seq(U) : s = Before(a, b) /\ Len(s) = Len(b) + 1
  <1> DEFINE k == Len(s)
             b == SubSeq(s, 2, k)
  <1>1. s[1] \in U
    OBVIOUS
  <1>2. b \in Seq(U) /\ Len(s) = Len(b) + 1 /\ \A n \in 1 .. Len(b) : s[n + 1] = b[n]
    <2>1. k \in Nat /\ k >= 1 /\ Len(s) = k /\ \A i \in 1 .. k : s[i] \in U
      OBVIOUS
    <2> HIDE DEF k
    <2>2. 2 \in 1 .. Len(s) + 1 /\ k \in 2 - 1 .. Len(s) /\ s \in Seq(U)
      BY <2>1
    <2>3. b \in Seq(U) /\ Len(b) = k - 2 + 1 /\ \A i \in 1 .. k - 2 + 1 : b[i] = s[2 + i - 1]
      BY ONLY <2>2, SubSeqProperties
    <2> HIDE DEF b
    <2>4. k - 2 + 1 = k - 1 /\ \A i \in 1 .. k - 1 : 2 + i - 1 = i + 1
      BY <2>1
    <2>5. Len(b) = k - 1 /\ \A i \in 1 .. k - 1 : s[i + 1] = b[i]
      BY <2>3, <2>4
    <2> QED BY <2>1, <2>3, <2>5
  <1> HIDE DEF b
  <1>3. s = Before(s[1], b)
    BY <1>1, <1>2, BeforeIs
  <1> QED BY <1>1, <1>2, <1>3

\* The texts of elements, a comma before each of them.
Comma == <<",">>
Together(els) == FlattenSeq(TextsOf(els))
CommasOf(els) == [i \in 1 .. Len(els) |-> Joint(Comma, els[i].text)]
After(els) == FlattenSeq(CommasOf(els))

\* The signs of a list are texts.
LEMMA CommaText == Comma \in Seq(Tokens) /\ <<")">> \in Seq(Tokens) /\ <<"(">> \in Seq(Tokens)
  <1>1. "," \in Tokens /\ ")" \in Tokens /\ "(" \in Tokens
    BY TokensKnown
  <1>2. \A t \in Tokens : <<t>> \in Seq(Tokens)
    OBVIOUS
  <1> QED BY <1>1, <1>2, Zenon DEF Comma

\* The other elements of a list, each behind a comma.
LEMMA CommasAre ==
    ASSUME NEW S, \A x \in S : Shaped(x), NEW els \in Seq(S)
    PROVE  /\ CommasOf(els) \in Seq(Seq(Tokens)) /\ Len(CommasOf(els)) = Len(els)
           /\ \A i \in 1 .. Len(els) : CommasOf(els)[i] = Joint(Comma, els[i].text)
           /\ After(els) \in Seq(Tokens)
  <1> DEFINE U == Seq(Tokens)
             c == CommasOf(els)
  <1>1. Len(els) \in Nat /\ \A i \in 1 .. Len(els) : els[i].text \in Seq(Tokens)
    BY SeriesParts DEF Shaped
  <1>2. \A w \in Seq(Tokens) : Joint(Comma, w) \in Seq(Tokens)
    BY CommaText, TextAhead DEF IsJoint
  <1>3. \A i \in 1 .. Len(els) : Joint(Comma, els[i].text) \in U
    BY <1>1, <1>2, Zenon
  <1> HIDE DEF U
  <1>4. c \in Seq(U) /\ Len(c) = Len(els) /\ \A i \in 1 .. Len(els) : c[i] = Joint(Comma, els[i].text)
    BY <1>1, <1>3 DEF CommasOf
  <1>5. c \in Seq(Seq(Tokens))
    BY <1>4, Zenon DEF U
  <1> HIDE DEF c
  <1>6. FlattenSeq(c) \in Seq(Tokens)
    BY <1>5, FlattenSteps
  <1> QED BY <1>4, <1>5, <1>6 DEF c, After

\* A list is its first element and the others behind it.
LEMMA TextsCons ==
    ASSUME NEW S, \A x \in S : Shaped(x), NEW y \in S, NEW els \in Seq(S)
    PROVE  Together(Before(y, els)) = Joint(y.text, After(els))
  <1> DEFINE all == Before(y, els)
             t == TextsOf(all)
             b == CommasOf(els)
             a == y.text
             U == Seq(Tokens)
  <1>1. /\ all \in Seq(S) /\ Len(all) = Len(els) + 1 /\ Len(els) \in Nat /\ all[1] = y
        /\ \A n \in 1 .. Len(els) : all[n + 1] = els[n]
    BY BeforeParts
  <1> HIDE DEF all
  <1>2. /\ t \in Seq(U) /\ Len(t) = Len(all)
        /\ \A i \in 1 .. Len(all) : t[i] = Separated(i, all[i].text)
    BY <1>1, SeriesParts
  <1>3. /\ b \in Seq(U) /\ Len(b) = Len(els)
        /\ \A i \in 1 .. Len(els) : b[i] = Joint(Comma, els[i].text)
    BY CommasAre
  <1>4. a \in U
    BY DEF Shaped
  <1>5. t[1] = a
    <2>1. 1 \in 1 .. Len(all)
      BY <1>1
    <2>2. t[1] = Separated(1, y.text)
      BY <1>1, <1>2, <2>1, Zenon
    <2>3. Separated(1, y.text) = <<>> \o y.text
      BY Zenon DEF Separated
    <2>4. Joint(<<>>, y.text) = y.text
      BY <1>4, JointNone
    <2> QED BY <2>2, <2>3, <2>4, Zenon DEF Joint
  <1>6. ASSUME NEW n \in 1 .. Len(b) PROVE t[n + 1] = b[n]
    <2>1. n \in 1 .. Len(els) /\ n + 1 \in 1 .. Len(all) /\ n + 1 # 1
      BY <1>1, <1>3
    <2>2. t[n + 1] = Separated(n + 1, els[n].text)
      BY <1>1, <1>2, <2>1, Zenon
    <2>3. Separated(n + 1, els[n].text) = Joint(Comma, els[n].text)
      BY <2>1, Zenon DEF Separated, Joint, Comma
    <2> QED BY <1>3, <2>1, <2>2, <2>3, Zenon
  <1>7. Len(t) = Len(b) + 1
    BY <1>1, <1>2, <1>3
  <1> HIDE DEF t, b, a, U
  <1>8. t = Before(a, b)
    BY <1>2, <1>3, <1>4, <1>5, <1>6, <1>7, BeforeIs
  <1>9. FlattenSeq(Before(a, b)) = a \o FlattenSeq(b)
    <2>1. a \in Seq(Tokens) /\ b \in Seq(Seq(Tokens))
      BY <1>3, <1>4 DEF U
    <2> QED BY <2>1, FlattenCons
  <1> QED BY <1>8, <1>9, Zenon DEF Together, After, t, a, b, all, Joint

\* Behind the first element there is a comma and the list of the others.
LEMMA CommasCons ==
    ASSUME NEW S, \A x \in S : Shaped(x), NEW y \in S, NEW els \in Seq(S)
    PROVE  After(Before(y, els)) = Joint(Comma, Together(Before(y, els)))
  <1> DEFINE all == Before(y, els)
             t == CommasOf(all)
             b == CommasOf(els)
             a == Joint(Comma, y.text)
             U == Seq(Tokens)
  <1>0. Together(all) = Joint(y.text, After(els))
    BY TextsCons
  <1>1. /\ all \in Seq(S) /\ Len(all) = Len(els) + 1 /\ Len(els) \in Nat /\ all[1] = y
        /\ \A n \in 1 .. Len(els) : all[n + 1] = els[n]
    BY BeforeParts
  <1> HIDE DEF all
  <1>2. /\ t \in Seq(U) /\ Len(t) = Len(all)
        /\ \A i \in 1 .. Len(all) : t[i] = Joint(Comma, all[i].text)
    BY <1>1, CommasAre
  <1>3. /\ b \in Seq(U) /\ Len(b) = Len(els)
        /\ \A i \in 1 .. Len(els) : b[i] = Joint(Comma, els[i].text)
        /\ After(els) \in Seq(Tokens)
    BY CommasAre
  <1>4. y.text \in Seq(Tokens)
    BY DEF Shaped
  <1>5. a \in U
    BY <1>4, CommaText, TextAhead DEF IsJoint
  <1>6. t[1] = a
    <2>1. 1 \in 1 .. Len(all)
      BY <1>1
    <2> QED BY <1>1, <1>2, <2>1, Zenon
  <1>7. ASSUME NEW n \in 1 .. Len(b) PROVE t[n + 1] = b[n]
    <2>1. n \in 1 .. Len(els) /\ n + 1 \in 1 .. Len(all)
      BY <1>1, <1>3
    <2> QED BY <1>1, <1>2, <1>3, <2>1, Zenon
  <1>8. Len(t) = Len(b) + 1
    BY <1>1, <1>2, <1>3
  <1> HIDE DEF t, b, a, U
  <1>9. t = Before(a, b)
    BY <1>2, <1>3, <1>5, <1>6, <1>7, <1>8, BeforeIs
  <1>10. FlattenSeq(Before(a, b)) = a \o FlattenSeq(b)
    <2>1. a \in Seq(Tokens) /\ b \in Seq(Seq(Tokens))
      BY <1>3, <1>5 DEF U
    <2> QED BY <2>1, FlattenCons
  <1>11. After(all) = Joint(a, After(els))
    BY <1>9, <1>10, Zenon DEF After, t, b, Joint
  <1>12. Joint(a, After(els)) = Joint(Comma, Joint(y.text, After(els)))
    <2> DEFINE w == y.text
               u == After(els)
    <2>1. w \in Seq(Tokens) /\ u \in Seq(Tokens) /\ Comma \in Seq(Tokens)
      BY <1>3, <1>4, CommaText
    <2> HIDE DEF w, u
    <2>2. Joint(Joint(Comma, w), u) = Joint(Comma, Joint(w, u))
      BY ONLY <2>1, ThreeTexts
    <2> QED BY <2>2, Zenon DEF a, w, u
  <1> QED BY <1>0, <1>11, <1>12, Zenon DEF all

\* There is nothing behind the last element.
LEMMA NoCommas == After(<<>>) = <<>>
  <1>1. CommasOf(<<>>) = <<>>
    <2>1. CommasOf(<<>>) = [i \in 1 .. 0 |-> Joint(Comma, <<>>[i].text)]
      BY DEF CommasOf
    <2>2. 1 .. 0 = {}
      OBVIOUS
    <2> QED BY <2>1, <2>2
  <1>2. FlattenSeq(<<>>) = <<>>
    <2>1. <<>> \in Seq(Seq(Int)) /\ SubSeq(<<>>, 1, 0) = <<>>
      OBVIOUS
    <2>2. FlattenSeq(SubSeq(<<>>, 1, 0)) = <<>>
      BY <2>1, FlattenSteps
    <2> QED BY <2>1, <2>2
  <1> QED BY <1>1, <1>2 DEF After

\* What the reader stores of elements, and whether coordinates of theirs count for the head.
Gets(level, y) == IF level = -1 THEN y.kept ELSE y.cells
GetsOf(level, els) == IF level = -1 THEN FlattenSeq(KeptOf(els)) ELSE FlattenSeq(CellsOf(els))
Some(level, y) == level # -1 /\ y.some
SomeOf(level, els) == level # -1 /\ \E i \in 1 .. Len(els) : els[i].some

\* Elements have text and get cells, members of collections as well.
LEMMA ElsParts ==
    ASSUME NEW level \in -1 .. 2, NEW n \in Nat, NEW k \in Nat
    PROVE  \A x \in Els(level, n, k) :
               /\ Shaped(x) /\ x.text \in Seq(Tokens) /\ Gets(level, x) \in Seq(Int) /\ x.some \in BOOLEAN
               /\ level = -1 => Form(x)
  <1>1. CASE level = -1
    <2>1. \A x \in Trees[k] : Form(x)
      BY TreeForm
    <2>2. Els(level, n, k) = Trees[k]
      BY <1>1 DEF Els
    <2> QED BY <1>1, <2>1, <2>2, Zenon DEF Form, Shaped, Gets
  <1>2. CASE level # -1
    <2>1. level \in 0 .. 3
      BY <1>2
    <2>2. \A x \in Elements(level, n) : Shaped(x) /\ x.some \in BOOLEAN
      BY <2>1, ElementShape
    <2>3. Els(level, n, k) = Elements(level, n)
      BY <1>2, Zenon DEF Els
    <2> QED BY <1>2, <2>2, <2>3, Zenon DEF Shaped, Gets
  <1> QED BY <1>1, <1>2

\* What is kept of members begins with what is kept of the first.
LEMMA KeptCons ==
    ASSUME NEW S, \A x \in S : Form(x), NEW y \in S, NEW els \in Seq(S)
    PROVE  FlattenSeq(KeptOf(Before(y, els))) = y.kept \o FlattenSeq(KeptOf(els))
  <1> DEFINE all == Before(y, els)
             c == KeptOf(all)
             b == KeptOf(els)
             a == y.kept
             U == Seq(Int)
  <1>1. /\ all \in Seq(S) /\ Len(all) = Len(els) + 1 /\ Len(els) \in Nat /\ all[1] = y
        /\ \A n \in 1 .. Len(els) : all[n + 1] = els[n]
    BY BeforeParts
  <1> HIDE DEF all
  <1>2. c \in Seq(U) /\ Len(c) = Len(all) /\ \A i \in 1 .. Len(all) : c[i] = all[i].kept
    BY <1>1, MemberParts
  <1>3. b \in Seq(U) /\ Len(b) = Len(els) /\ \A i \in 1 .. Len(els) : b[i] = els[i].kept
    BY MemberParts
  <1>4. a \in U
    BY DEF Form
  <1>5. c[1] = a
    <2>1. 1 \in 1 .. Len(all)
      BY <1>1
    <2> QED BY <1>1, <1>2, <2>1, Zenon
  <1>6. ASSUME NEW n \in 1 .. Len(b) PROVE c[n + 1] = b[n]
    <2>1. n \in 1 .. Len(els) /\ n + 1 \in 1 .. Len(all)
      BY <1>1, <1>3
    <2> QED BY <1>1, <1>2, <1>3, <2>1, Zenon
  <1>7. Len(c) = Len(b) + 1
    BY <1>1, <1>2, <1>3
  <1> HIDE DEF c, b, a, U
  <1>8. c = Before(a, b)
    BY <1>2, <1>3, <1>4, <1>5, <1>6, <1>7, BeforeIs
  <1>9. FlattenSeq(Before(a, b)) = a \o FlattenSeq(b)
    <2>1. a \in Seq(Int) /\ b \in Seq(Seq(Int))
      BY <1>3, <1>4 DEF U
    <2> QED BY <2>1, FlattenCons
  <1> QED BY <1>8, <1>9, Zenon DEF c, b, a, all

\* What elements get begins with what the first one gets.
LEMMA GotCons ==
    ASSUME NEW level \in -1 .. 2, NEW n \in Nat, NEW k \in Nat,
           NEW y \in Els(level, n, k), NEW els \in Seq(Els(level, n, k))
    PROVE  /\ GetsOf(level, Before(y, els)) = Joint(Gets(level, y), GetsOf(level, els))
           /\ GetsOf(level, els) \in Seq(Int)
           /\ SomeOf(level, Before(y, els)) = (Some(level, y) \/ SomeOf(level, els))
  <1> DEFINE S == Els(level, n, k)
             all == Before(y, els)
  <1>0. \A x \in S : Shaped(x) /\ (level = -1 => Form(x))
    BY ElsParts
  <1>1. y \in S /\ els \in Seq(S)
    OBVIOUS
  <1> HIDE DEF S
  <1>2. GetsOf(level, all) = Joint(Gets(level, y), GetsOf(level, els)) /\ GetsOf(level, els) \in Seq(Int)
    <2>1. CASE level = -1
      <3>1. FlattenSeq(KeptOf(all)) = y.kept \o FlattenSeq(KeptOf(els))
        BY <1>0, <1>1, <2>1, KeptCons
      <3>2. FlattenSeq(KeptOf(els)) \in Seq(Int)
        BY <1>0, <1>1, <2>1, MemberParts
      <3> QED BY <2>1, <3>1, <3>2, Zenon DEF GetsOf, Gets, Joint
    <2>2. CASE level # -1
      <3>1. FlattenSeq(CellsOf(all)) = y.cells \o FlattenSeq(CellsOf(els))
        BY <1>0, <1>1, CellsCons
      <3>2. FlattenSeq(CellsOf(els)) \in Seq(Int)
        BY <1>0, <1>1, SeriesParts
      <3> QED BY <2>2, <3>1, <3>2, Zenon DEF GetsOf, Gets, Joint
    <2> QED BY <2>1, <2>2
  <1>3. /\ Len(all) = Len(els) + 1 /\ Len(els) \in Nat /\ all[1] = y
        /\ \A i \in 1 .. Len(els) : all[i + 1] = els[i]
    <2>1. Len(Before(y, els)) = Len(els) + 1 /\ Len(els) \in Nat
      BY ONLY <1>1, BeforeParts
    <2>2. Before(y, els)[1] = y
      BY ONLY <1>1, BeforeParts
    <2>3. \A i \in 1 .. Len(els) : Before(y, els)[i + 1] = els[i]
      BY ONLY <1>1, BeforeParts
    <2> QED BY <2>1, <2>2, <2>3
  <1> HIDE DEF all
  <1>4. (\E i \in 1 .. Len(all) : all[i].some) <=> y.some \/ \E i \in 1 .. Len(els) : els[i].some
    <2>1. ASSUME NEW i \in 1 .. Len(all), all[i].some
          PROVE  y.some \/ \E j \in 1 .. Len(els) : els[j].some
      <3>1. CASE i = 1
        BY <1>3, <2>1, <3>1
      <3>2. CASE i # 1
        <4>1. i - 1 \in 1 .. Len(els) /\ (i - 1) + 1 = i
          BY <1>3, <3>2
        <4>2. els[i - 1].some
          BY <1>3, <2>1, <4>1
        <4> QED BY <4>1, <4>2
      <3> QED BY <3>1, <3>2
    <2>2. y.some => \E i \in 1 .. Len(all) : all[i].some
      <3>1. 1 \in 1 .. Len(all)
        BY <1>3
      <3> QED BY <1>3, <3>1
    <2>3. ASSUME NEW j \in 1 .. Len(els), els[j].some PROVE \E i \in 1 .. Len(all) : all[i].some
      <3>1. j + 1 \in 1 .. Len(all)
        BY <1>3
      <3> QED BY <1>3, <2>3, <3>1
    <2> QED BY <2>1, <2>2, <2>3
  <1>5. y.some \in BOOLEAN
    BY <1>1, ElsParts DEF S
  <1>6. SomeOf(level, all) = (Some(level, y) \/ SomeOf(level, els))
    BY <1>4, <1>5, Zenon DEF SomeOf, Some
  <1> QED BY <1>2, <1>6 DEF all

\* No elements get no cells.
LEMMA GotNone ==
    ASSUME NEW level \in -1 .. 2
    PROVE  GetsOf(level, <<>>) = <<>> /\ SomeOf(level, <<>>) = FALSE
  <1>1. FlattenSeq(CellsOf(<<>>)) = <<>>
    BY CellsNone
  <1>2. FlattenSeq(KeptOf(<<>>)) = <<>>
    <2>1. KeptOf(<<>>) = CellsOf(<<>>)
      <3>1. KeptOf(<<>>) = [i \in 1 .. 0 |-> <<>>[i].kept] /\ CellsOf(<<>>) = [i \in 1 .. 0 |-> <<>>[i].cells]
        BY DEF KeptOf, CellsOf
      <3>2. 1 .. 0 = {}
        OBVIOUS
      <3> QED BY <3>1, <3>2
    <2> QED BY <1>1, <2>1
  <1>3. ~ \E i \in 1 .. Len(<<>>) : <<>>[i].some
    OBVIOUS
  <1> QED BY <1>1, <1>2, <1>3, Zenon DEF GetsOf, SomeOf

\* An element does not begin as a series ends.
LEMMA FirstToken ==
    ASSUME NEW level \in -1 .. 2, NEW n \in 2 .. 4, NEW k \in Nat, NEW y \in Els(level, n, k)
    PROVE  Len(y.text) >= 1 /\ y.text[1] # ")"
  <1>1. CASE level = 0
    <2>1. y \in Elements(0, n)
      <3>1. level # -1
        BY <1>1
      <3>2. Els(level, n, k) = Elements(level, n)
        BY <3>1, Zenon DEF Els
      <3> QED BY <1>1, <3>2
    <2>2. PICK s \in [1 .. n -> Digit] : y = CoordinatePiece(s)
      BY <2>1, ElementsBelow DEF Coordinates
    <2>3. Len(y.text) = n /\ y.text[1] = dstr(s[1]) /\ s[1] \in Digit
      <3>1. y.text = Shown(s)
        BY <2>2, Zenon DEF CoordinatePiece
      <3>2. Len(Shown(s)) = n /\ \A i \in 1 .. n : Shown(s)[i] = dstr(s[i]) /\ s[i] \in Digit
        BY ShownNumbers
      <3>3. 1 \in 1 .. n
        OBVIOUS
      <3> QED BY <3>1, <3>2, <3>3
    <2>4. dstr(s[1]) # ")"
      BY <2>3, Numbers
    <2>5. n >= 1
      OBVIOUS
    <2> QED BY ONLY <2>3, <2>4, <2>5
  <1>2. CASE level \in 1 .. 2
    <2>1. y \in Elements(level, n)
      <3>1. level # -1
        BY <1>2
      <3> QED BY <3>1, Zenon DEF Els
    <2> DEFINE l == level - 1
               S == Elements(l, n)
    <2>2. l \in 0 .. 2 /\ l \in 0 .. 3 /\ l + 1 = level
      BY <1>2
    <2> HIDE DEF l
    <2>3. y \in SeriesOf(S)
      <3>1. Elements(l + 1, n) = SeriesOf(S)
        BY <2>2, ElementsBelow
      <3> QED BY <2>1, <2>2, <3>1, Zenon
    <2>4. \A x \in S : Shaped(x)
      BY <2>2, ElementShape
    <2>5. PICK els \in Seq(S) : y = SeriesPiece(els)
      BY <2>3, Zenon DEF SeriesOf
    <2> HIDE DEF S
    <2>6. y.text = ListText(els)
      BY <2>4, <2>5, SeriesShape
    <2>7. FlattenSeq(TextsOf(els)) \in Seq(Tokens)
      BY <2>4, SeriesParts
    <2> DEFINE s == FlattenSeq(TextsOf(els))
               u == Append(Opened(s), ")")
    <2>8. Len(u) = Len(s) + 2 /\ u[1] = "("
      <3>1. s \in Seq(Tokens) /\ u = Append(Opened(s), ")")
        BY <2>7
      <3> HIDE DEF s, u
      <3> QED BY <3>1, InBrackets
    <2>9. Len(s) \in Nat
      BY <2>7
    <2>10. y.text = u
      BY <2>6, Zenon DEF ListText
    <2> HIDE DEF s, u
    <2> QED BY <2>8, <2>9, <2>10
  <1>3. CASE level = -1
    <2>1. y \in Trees[k]
      BY <1>3 DEF Els
    <2>2. k # 0
      BY <2>1, TreeCases
    <2>3. \E h \in Heads : \E words \in Seq(Tokens) : y.text = Joint(TypeWords(h), words)
      <3> DEFINE d == k - 1
      <3>1. d \in Nat /\ k = d + 1
        BY <2>2
      <3> HIDE DEF d
      <3>2. y \in Trees[d + 1]
        BY <2>1, <3>1, Zenon
      <3>3. CASE \E h \in LeafHeads : \E body \in Bodies(h) : y = Leaf(h, body)
        <4>1. PICK h \in LeafHeads : \E body \in Bodies(h) : y = Leaf(h, body)
          BY <3>3
        <4>2. PICK body \in Bodies(h) : y = Leaf(h, body)
          BY <4>1
        <4> DEFINE piece == LeafPiece(h, body)
        <4>3. y.text = piece.text /\ IsLeaf(piece, h, body)
          BY <4>2, LeafForm
        <4>4. y.text = Joint(TypeWords(h), BodyText(h, body))
          BY <4>3, Zenon DEF IsLeaf, Joint
        <4>5. BodyText(h, body) \in Seq(Tokens) /\ h \in Heads
          BY BodyShape DEF LeafHeads
        <4> QED BY <4>4, <4>5, Zenon
      <3>4. CASE \E h \in CollectionHeads : \E members \in Seq(Trees[d]) : y = Collection(h, members)
        <4>1. PICK h \in CollectionHeads : \E members \in Seq(Trees[d]) : y = Collection(h, members)
          BY <3>4
        <4>2. PICK members \in Seq(Trees[d]) : y = Collection(h, members)
          BY <4>1
        <4> DEFINE S == Trees[d]
        <4>3. \A x \in S : Form(x)
          BY <3>1, TreeForm
        <4>4. members \in Seq(S)
          OBVIOUS
        <4> HIDE DEF S
        <4>5. IsCollection(y, h, members)
          BY <4>2, <4>3, <4>4, CollectionShape
        <4>6. y.text = Joint(TypeWords(h), ListText(members))
          BY <4>5, Zenon DEF IsCollection, Joint
        <4>7. ListText(members) \in Seq(Tokens) /\ h \in Heads
          <5>1. \A x \in S : Shaped(x)
            BY <4>3, Zenon DEF Form
          <5>2. ListText(members) \in Seq(Tokens)
            BY <4>4, <5>1, SeriesShape
          <5> QED BY <5>2 DEF CollectionHeads
        <4> QED BY <4>6, <4>7, Zenon
      <3> QED BY <3>1, <3>2, <3>3, <3>4, TreeCases
    <2>4. PICK h \in Heads : \E words \in Seq(Tokens) : y.text = Joint(TypeWords(h), words)
      BY <2>3
    <2>5. PICK words \in Seq(Tokens) : y.text = Joint(TypeWords(h), words)
      BY <2>4
    <2> DEFINE w == TypeWords(h)
    <2>6. w \in Seq(Tokens) /\ Len(w) >= 1 /\ w[1] = h.type
      <3>1. w \in Seq(Tokens)
        BY HeadDims
      <3>2. w = <<h.type, "M">> \/ w = <<h.type>>
        BY DEF TypeWords
      <3> QED BY <3>1, <3>2
    <2>7. h.type # ")"
      <3>1. h.type \in TypeNames
        BY HeadParts
      <3> QED BY <3>1 DEF TypeNames
    <2>8. y.text = Joint(w, words)
      BY <2>5
    <2> HIDE DEF w
    <2>9. Len(y.text) = Len(w) + Len(words) /\ Len(words) \in Nat /\ \A i \in 1 .. Len(w) : y.text[i] = w[i]
        <3>1. IsJoint(Joint(w, words), w, words, Tokens)
        BY <2>6, TextAhead
      <3> QED BY <2>8, <3>1, Zenon DEF IsJoint
    <2> QED BY <2>6, <2>7, <2>9
  <1> QED BY <1>1, <1>2, <1>3

\* A token is taken.
LEMMA TokenTaken ==
    ASSUME NEW c \in Context, NEW t \in Tokens, NEW rest \in Seq(Tokens), c.p = Joint(<<t>>, rest)
    PROVE  /\ Ahead(c, 1) = t /\ Skip(c, 1).p = rest /\ Len(c.p) = Len(rest) + 1 /\ Len(rest) \in Nat
           /\ Len(rest) >= 1 => Ahead(c, 2) = rest[1] /\ Skip(c, 2).p = SubSeq(rest, 2, Len(rest))
  <1> DEFINE a == <<t>>
  <1>1. a \in Seq(Tokens) /\ Len(a) = 1 /\ a[1] = t
    OBVIOUS
  <1>2. c.p = Joint(a, rest)
    OBVIOUS
  <1> HIDE DEF a
  <1>3. /\ Len(c.p) = Len(a) + Len(rest) /\ Len(rest) \in Nat
        /\ SubSeq(c.p, Len(a) + 1, Len(c.p)) = rest
        /\ \A i \in 1 .. Len(a) : c.p[i] = a[i]
        /\ \A i \in 1 .. Len(rest) : c.p[Len(a) + i] = rest[i]
        /\ c.p \in Seq(Tokens)
    <2>1. IsJoint(Joint(a, rest), a, rest, Tokens)
      BY <1>1, TextAhead
    <2> QED BY <1>2, <2>1, Zenon DEF IsJoint
  <1>4. Ahead(c, 1) = t
    BY <1>1, <1>3 DEF Ahead
  <1>5. Skip(c, 1).p = rest
    <2>1. Skip(c, 1).p = SubSeq(c.p, 1 + 1, Len(c.p))
      BY Skipped
    <2> QED BY <1>1, <1>3, <2>1
  <1>6. ASSUME Len(rest) >= 1
        PROVE  Ahead(c, 2) = rest[1] /\ Skip(c, 2).p = SubSeq(rest, 2, Len(rest))
    <2>1. 1 \in 1 .. Len(rest) /\ 2 <= Len(c.p) /\ c.p[2] = rest[1]
      BY SMTT(30), <1>1, <1>3, <1>6
    <2>2. Skip(c, 2).p = SubSeq(c.p, 2 + 1, Len(c.p))
      BY Skipped
    <2> DEFINE u == SubSeq(c.p, 3, Len(c.p))
               v == SubSeq(rest, 2, Len(rest))
               n == Len(rest)
    <2>3. n \in Nat /\ n >= 1 /\ Len(c.p) = n + 1 /\ \A i \in 1 .. n : c.p[1 + i] = rest[i]
      <3> DEFINE j == Len(a)
      <3>1. j = 1 /\ n \in Nat /\ n >= 1 /\ Len(c.p) = j + n /\ \A i \in 1 .. n : c.p[j + i] = rest[i]
        BY <1>1, <1>3, <1>6
      <3> HIDE DEF n, j
      <3> QED BY ONLY <3>1
    <2>4. Len(rest) = n
      OBVIOUS
    <2> HIDE DEF n
    <2>5. u \in Seq(Tokens) /\ Len(u) = n - 1 /\ \A i \in 1 .. n - 1 : u[i] = c.p[2 + i]
      <3> DEFINE p == c.p
                 l == Len(c.p)
      <3>1. p \in Seq(Tokens) /\ l = Len(p) /\ l = n + 1 /\ n \in Nat /\ n >= 1
        BY <1>3, <2>3
      <3>2. u = SubSeq(p, 3, l)
        OBVIOUS
      <3> HIDE DEF p, l, u
      <3>3. u \in Seq(Tokens) /\ Len(u) = n - 1 /\ \A i \in 1 .. n - 1 : u[i] = p[2 + i]
        <4>1. \A i \in 3 .. l : p[i] \in Tokens
          <5>1. \A i \in 1 .. Len(p) : p[i] \in Tokens
            <6> DEFINE U == Tokens
            <6>1. p \in Seq(U)
              BY <3>1
            <6> HIDE DEF U
            <6>2. \A i \in 1 .. Len(p) : p[i] \in U
              BY ONLY <6>1
            <6> QED BY <6>2 DEF U
          <5>2. \A i \in 3 .. l : i \in 1 .. l
            BY ONLY <3>1
          <5> QED BY ONLY <3>1, <5>1, <5>2
        <4>2. /\ u \in Seq(Tokens) /\ Len(u) = IF 3 <= l THEN l - 3 + 1 ELSE 0
              /\ \A i \in 1 .. l - 3 + 1 : u[i] = p[3 + i - 1]
          BY <3>1, <3>2, <4>1, SubSeqProperties
        <4> QED BY ONLY <3>1, <4>2
      <3> QED BY <3>3 DEF p
    <2>6. v \in Seq(Tokens) /\ Len(v) = n - 1 /\ \A i \in 1 .. n - 1 : v[i] = rest[1 + i]
      BY <2>3, <2>4
    <2> HIDE DEF u, v
    <2>7. \A i \in 1 .. n - 1 : u[i] = v[i]
      <3> SUFFICES ASSUME NEW i \in 1 .. n - 1 PROVE u[i] = v[i]
        OBVIOUS
      <3>1. 1 + i \in 1 .. n /\ 2 + i = 1 + (1 + i)
        BY <2>3
      <3> QED BY <2>3, <2>5, <2>6, <3>1
    <2>8. u = v
      BY <2>5, <2>6, <2>7, SeqEqual
    <2>9. Ahead(c, 2) = rest[1]
      BY <2>1 DEF Ahead
    <2> QED BY SMTT(30), <2>2, <2>8, <2>9 DEF u, v
  <1>7. Len(c.p) = Len(rest) + 1 /\ Len(rest) \in Nat
    BY ONLY <1>1, <1>3
  <1> QED BY <1>4, <1>5, <1>6, <1>7, Zenon

\* A token is taken: the buffer stays, and the rest comes next.
LEMMA ReadingStepped ==
    ASSUME NEW h, NEW some, NEW cells, NEW rest \in Seq(Tokens), NEW t \in Tokens,
           NEW c, Reading(c, h, some, cells, Joint(<<t>>, rest))
    PROVE  /\ Reading(Skip(c, 1), h, some, cells, rest) /\ SameNumbers(c, Skip(c, 1)) /\ SameWords(c, Skip(c, 1))
           /\ Ahead(c, 1) = t /\ Len(c.p) = Len(rest) + 1 /\ Len(rest) \in Nat
           /\ Len(rest) >= 1 => Ahead(c, 2) = rest[1]
  <1>1. c \in Context /\ c.p = Joint(<<t>>, rest)
    BY Zenon DEF Reading
  <1>2. /\ Ahead(c, 1) = t /\ Skip(c, 1).p = rest /\ Len(c.p) = Len(rest) + 1 /\ Len(rest) \in Nat
        /\ Len(rest) >= 1 => Ahead(c, 2) = rest[1]
    BY <1>1, TokenTaken
  <1> DEFINE d == Skip(c, 1)
  <1>3. d \in Context /\ d.err = c.err /\ SameBuffer(c, d) /\ SameWords(c, d) /\ SameNumbers(c, d)
    BY <1>1, Skipped
  <1>4. d.p = rest
    BY <1>2
  <1> HIDE DEF d
  <1>5. Reading(d, h, some, cells, d.p)
    BY <1>3, ReadingStays
  <1> QED BY <1>2, <1>3, <1>4, <1>5, Zenon DEF d

\* A token is taken before or behind an element.
LEMMA Stepped ==
    ASSUME NEW h, NEW some, NEW cells, NEW rest \in Seq(Tokens), NEW t \in Tokens,
           NEW c, Follows(c, h, some, cells, Joint(<<t>>, rest))
    PROVE  /\ Follows(Skip(c, 1), h, some, cells, rest)
           /\ Ahead(c, 1) = t /\ Len(c.p) = Len(rest) + 1 /\ Len(rest) \in Nat
           /\ Len(rest) >= 1 => Ahead(c, 2) = rest[1]
  <1>1. Reading(c, h, some, cells, Joint(<<t>>, rest)) /\ (~some => c.foundZ = FALSE /\ c.foundM = FALSE)
    BY Zenon DEF Follows
  <1>2. /\ Reading(Skip(c, 1), h, some, cells, rest) /\ SameNumbers(c, Skip(c, 1))
        /\ Ahead(c, 1) = t /\ Len(c.p) = Len(rest) + 1 /\ Len(rest) \in Nat
        /\ Len(rest) >= 1 => Ahead(c, 2) = rest[1]
    BY <1>1, ReadingStepped
  <1>3. ~some => Skip(c, 1).foundZ = FALSE /\ Skip(c, 1).foundM = FALSE
    BY <1>1, <1>2, Zenon DEF SameNumbers
  <1> QED BY <1>2, <1>3, Zenon DEF Follows

\* A token is taken behind the numbers of a coordinate.
LEMMA ReadyStepped ==
    ASSUME NEW h, NEW s, NEW some, NEW cells, NEW rest \in Seq(Tokens), NEW t \in Tokens,
           NEW c, Ready(c, h, s, some, cells, Joint(<<t>>, rest))
    PROVE  Ready(Skip(c, 1), h, s, some, cells, rest) /\ Ahead(c, 1) = t
  <1>1. /\ Reading(c, h, some, cells, Joint(<<t>>, rest)) /\ CoordCells(c, h.z, h.m) = s
        /\ ~some => (c.hasZ \/ c.foundZ) = h.z /\ (c.hasM \/ c.foundM) = h.m
    BY Zenon DEF Ready
  <1> DEFINE d == Skip(c, 1)
  <1>2. /\ Reading(d, h, some, cells, rest) /\ SameNumbers(c, d) /\ SameWords(c, d)
        /\ Ahead(c, 1) = t
    BY <1>1, ReadingStepped
  <1> HIDE DEF d
  <1>3. /\ d.x = c.x /\ d.y = c.y /\ d.z = c.z /\ d.m = c.m /\ d.foundZ = c.foundZ /\ d.foundM = c.foundM
        /\ d.hasZ = c.hasZ /\ d.hasM = c.hasM
    BY <1>2 DEF SameNumbers, SameWords
  <1>4. CoordCells(d, h.z, h.m) = s
    BY <1>1, <1>3, Zenon DEF CoordCells
  <1>5. ~some => (d.hasZ \/ d.foundZ) = h.z /\ (d.hasM \/ d.foundM) = h.m
    BY <1>1, <1>3, Zenon
  <1>6. Ready(d, h, s, some, cells, rest)
    BY <1>2, <1>4, <1>5, Zenon DEF Ready
  <1> QED BY <1>2, <1>6 DEF d

\* Cells are appended.
LEMMA GrownFollows ==
    ASSUME NEW h \in Heads, NEW some \in BOOLEAN, NEW cells \in Seq(Int), NEW more \in Seq(Int), NEW rest,
           NEW c, Follows(c, h, some, cells, rest)
    PROVE  /\ Follows(Grow(c, more), h, some, Joint(cells, more), rest)
           /\ Grow(c, more).p = c.p
           /\ Len(Grow(c, more).g) = 2 + Len(Joint(cells, more))
  <1> DEFINE d == Grow(c, more)
             a == HeadCells(Settled(h, some))
  <1>1. /\ Reading(c, h, some, cells, rest) /\ (~some => c.foundZ = FALSE /\ c.foundM = FALSE)
        /\ c \in Context /\ c.err = "none" /\ c.heap = 1 /\ c.p = rest
        /\ c.isEmpty = FALSE /\ c.hasZ = FALSE /\ c.hasM = (h.m /\ ~h.z)
        /\ c.writtenCoord = some /\ (some => c.mustZ = h.z /\ c.mustM = h.m)
        /\ c.g = Joint(a, cells)
    BY Zenon DEF Follows, Reading
  <1>2. /\ d \in Context /\ d.g = c.g \o more
        /\ d.p = c.p /\ d.err = c.err /\ d.heap = c.heap /\ d.writtenCoord = c.writtenCoord
        /\ d.mustZ = c.mustZ /\ d.mustM = c.mustM /\ SameWords(c, d) /\ SameNumbers(c, d)
    BY <1>1, GrowFields
  <1>3. a \in Seq(Int) /\ Len(a) = 2
    <2>1. Settled(h, some) \in Heads
      BY SettledHeads
    <2> QED BY <2>1, HeadDims
  <1> HIDE DEF d, a
  <1>4. d.g = Joint(a, Joint(cells, more))
    <2>1. Joint(Joint(a, cells), more) = Joint(a, Joint(cells, more))
      <3>1. cells \in Seq(Int) /\ more \in Seq(Int)
        OBVIOUS
      <3> QED BY ONLY <1>3, <3>1, ThreeTexts
    <2> QED BY <1>1, <1>2, <2>1, Zenon DEF Joint
  <1>5. /\ d.isEmpty = FALSE /\ d.hasZ = FALSE /\ d.hasM = (h.m /\ ~h.z)
        /\ d.foundZ = c.foundZ /\ d.foundM = c.foundM
    BY <1>1, <1>2, Zenon DEF SameWords, SameNumbers
  <1>6. Reading(d, h, some, Joint(cells, more), rest)
    BY <1>1, <1>2, <1>4, <1>5, Zenon DEF Reading, a
  <1>7. Follows(d, h, some, Joint(cells, more), rest)
    BY <1>1, <1>5, <1>6, Zenon DEF Follows
  <1>8. Len(d.g) = 2 + Len(Joint(cells, more))
    <2> DEFINE b == Joint(cells, more)
    <2>1. b \in Seq(Int)
      <3>1. IsJoint(b, cells, more, Int)
        BY TextAhead
      <3> QED BY <3>1 DEF IsJoint
    <2> HIDE DEF b
    <2>2. Len(Joint(a, b)) = Len(a) + Len(b)
      <3>1. IsJoint(Joint(a, b), a, b, Int)
        BY <1>3, <2>1, TextAhead
      <3> QED BY <3>1 DEF IsJoint
    <2> QED BY <1>3, <1>4, <2>2 DEF b
  <1> QED BY <1>2, <1>7, <1>8 DEF d

\* One cell in the middle is replaced.
Replaced(u, at, y) == [u EXCEPT ![at] = y]

\* u is a, the cell x at the position at, and b.
Middle(u, a, x, b, at) ==
    /\ a \in Seq(Int) /\ b \in Seq(Int) /\ x \in Int
    /\ u = Joint(a, Joint(<<x>>, b)) /\ at = Len(a) + 1

\* A cell in the middle is replaced.
LEMMA CellReplaced ==
    ASSUME NEW u, NEW a, NEW x, NEW b, NEW at, Middle(u, a, x, b, at), NEW y \in Int
    PROVE  /\ Replaced(u, at, y) = Joint(a, Joint(<<y>>, b))
           /\ u \in Seq(Int) /\ at \in 1 .. Len(u)
  <1>0. /\ a \in Seq(Int) /\ b \in Seq(Int) /\ x \in Int
        /\ u = Joint(a, Joint(<<x>>, b)) /\ at = Len(a) + 1
    BY DEF Middle
  <1> DEFINE xs == <<x>>
             ys == <<y>>
             p == Joint(xs, b)
             q == Joint(ys, b)
             v == Joint(a, q)
             w == [u EXCEPT ![at] = y]
  <1>1. /\ xs \in Seq(Int) /\ Len(xs) = 1 /\ xs[1] = x
        /\ ys \in Seq(Int) /\ Len(ys) = 1 /\ ys[1] = y
    BY <1>0
  <1>2. u = Joint(a, p)
    BY <1>0
  <1> HIDE DEF xs, ys
  <1>3. IsJoint(p, xs, b, Int) /\ IsJoint(q, ys, b, Int)
    BY <1>0, <1>1, TextAhead
  <1> HIDE DEF p, q
  <1>4. IsJoint(Joint(a, p), a, p, Int) /\ IsJoint(v, a, q, Int)
    <2>1. p \in Seq(Int) /\ q \in Seq(Int)
      BY <1>3 DEF IsJoint
    <2> QED BY <1>0, <2>1, TextAhead
  <1>5. IsJoint(u, a, p, Int)
    BY <1>2, <1>4, Zenon
  <1> HIDE DEF v
  <1> DEFINE k == Len(a)
             l == Len(b)
  <1>6. k \in Nat /\ l \in Nat /\ at = k + 1
    BY <1>0
  <1>7. /\ p \in Seq(Int) /\ Len(p) = l + 1 /\ p[1] = x /\ \A i \in 1 .. l : p[1 + i] = b[i]
    <2>1. /\ p \in Seq(Int) /\ Len(p) = Len(xs) + Len(b) /\ (\A i \in 1 .. Len(xs) : p[i] = xs[i])
          /\ \A i \in 1 .. Len(b) : p[Len(xs) + i] = b[i]
      BY <1>3 DEF IsJoint
    <2> QED BY <1>1, <1>6, <2>1
  <1>8. /\ q \in Seq(Int) /\ Len(q) = l + 1 /\ q[1] = y /\ \A i \in 1 .. l : q[1 + i] = b[i]
    <2>1. /\ q \in Seq(Int) /\ Len(q) = Len(ys) + Len(b) /\ (\A i \in 1 .. Len(ys) : q[i] = ys[i])
          /\ \A i \in 1 .. Len(b) : q[Len(ys) + i] = b[i]
      BY <1>3 DEF IsJoint
    <2> QED BY <1>1, <1>6, <2>1
  <1>9. /\ u \in Seq(Int) /\ Len(u) = Len(a) + Len(p) /\ (\A i \in 1 .. Len(a) : u[i] = a[i])
        /\ \A i \in 1 .. Len(p) : u[Len(a) + i] = p[i]
    BY <1>5 DEF IsJoint
  <1>10. /\ v \in Seq(Int) /\ Len(v) = Len(a) + Len(q) /\ (\A i \in 1 .. Len(a) : v[i] = a[i])
         /\ \A i \in 1 .. Len(q) : v[Len(a) + i] = q[i]
    BY <1>4 DEF IsJoint
  <1>11. /\ Len(u) = k + l + 1 /\ Len(v) = k + l + 1 /\ (\A i \in 1 .. k : u[i] = a[i] /\ v[i] = a[i])
         /\ \A i \in 1 .. l + 1 : u[k + i] = p[i] /\ v[k + i] = q[i]
    <2>1. Len(a) = k
      OBVIOUS
    <2> HIDE DEF k, l
    <2>2. \A i \in 1 .. l + 1 : u[k + i] = p[i] /\ v[k + i] = q[i]
      BY ONLY <1>7, <1>8, <1>9, <1>10, <2>1
    <2>3. Len(u) = k + l + 1 /\ Len(v) = k + l + 1
      BY ONLY <1>6, <1>7, <1>8, <1>9, <1>10, <2>1
    <2> QED BY <1>9, <1>10, <2>1, <2>2, <2>3
  <1> HIDE DEF k, l
  <1>12. at \in 1 .. Len(u)
    BY ONLY <1>6, <1>11
  <1>13. w \in Seq(Int) /\ Len(w) = Len(u) /\ w[at] = y /\ \A i \in 1 .. Len(u) : i # at => w[i] = u[i]
    BY ONLY <1>9, <1>12, y \in Int
  <1> HIDE DEF w
  <1>14. ASSUME NEW i \in 1 .. Len(w) PROVE w[i] = v[i]
    <2>1. CASE i <= k
      <3>1. i \in 1 .. k /\ i # at /\ i \in 1 .. Len(u)
        BY ONLY <1>6, <1>13, <2>1, i \in 1 .. Len(w)
      <3> QED BY ONLY <1>11, <1>13, <3>1
    <2>2. CASE i = at
      <3>1. 1 \in 1 .. l + 1
        BY ONLY <1>6
      <3>2. v[k + 1] = q[1]
        BY ONLY <1>11, <3>1
      <3> QED BY ONLY <1>6, <1>8, <1>13, <2>2, <3>2
    <2>3. CASE i > at
      <3> DEFINE j == i - k
                 m == j - 1
      <3>1. /\ j \in 1 .. l + 1 /\ k + j = i /\ m \in 1 .. l /\ 1 + m = j
            /\ i # at /\ i \in 1 .. Len(u)
        BY ONLY <1>6, <1>11, <1>13, <2>3, i \in 1 .. Len(w)
      <3> HIDE DEF j, m
      <3>2. u[k + j] = p[j] /\ v[k + j] = q[j] /\ p[1 + m] = b[m] /\ q[1 + m] = b[m]
        BY ONLY <1>7, <1>8, <1>11, <3>1
      <3> QED BY ONLY <1>13, <3>1, <3>2
    <2>4. i <= k \/ i = at \/ i > at
      BY ONLY <1>6, <1>11, <1>13, i \in 1 .. Len(w)
    <2> QED BY <2>1, <2>2, <2>3, <2>4
  <1>15. w = v
    <2>1. Len(w) = Len(v)
      BY ONLY <1>11, <1>13
    <2> QED BY ONLY <1>10, <1>13, <1>14, <2>1, SeqEqual
  <1> QED BY <1>9, <1>12, <1>15 DEF w, v, q, ys, Replaced

\* The count is put into its place, and the bracket is taken.
LEMMA CountFields ==
    ASSUME NEW d \in Context, NEW at \in Nat, at \in 1 .. Len(d.g), NEW n \in Nat, NEW e, e = CountAtEnd(d, at, n)
    PROVE  /\ e \in Context /\ e.err = d.err /\ e.heap = d.heap /\ e.p = SubSeq(d.p, 1 + 1, Len(d.p))
           /\ e.g = Replaced(d.g, at, n)
           /\ e.writtenCoord = d.writtenCoord /\ e.mustZ = d.mustZ /\ e.mustM = d.mustM
           /\ SameWords(d, e) /\ e.foundZ = d.foundZ /\ e.foundM = d.foundM
  <1> DEFINE b == Skip(d, 1)
             g == [d.g EXCEPT ![at] = n]
             s == d.g
  <1>1. /\ b \in Context /\ b.err = d.err /\ b.p = SubSeq(d.p, 1 + 1, Len(d.p)) /\ SameBuffer(d, b)
        /\ SameWords(d, b) /\ SameNumbers(d, b)
    BY Skipped
  <1>2. s \in Seq(Int) /\ at \in 1 .. Len(s) /\ n \in Int
    BY ContextFields
  <1>3. g \in Seq(Int)
    <2>1. g = [s EXCEPT ![at] = n]
      OBVIOUS
    <2> HIDE DEF s, g
    <2> QED BY ONLY <1>2, <2>1
  <1>4. b.g = d.g
    BY <1>1 DEF SameBuffer
  <1>5. e = [b EXCEPT !.g = g]
    <2>1. e = [b EXCEPT !.g[at] = n]
      BY DEF CountAtEnd
    <2> HIDE DEF b
    <2> QED BY <1>1, <1>4, <2>1 DEF Context
  <1> HIDE DEF b, g
  <1>6. /\ e \in Context /\ e.g = g /\ e.err = b.err /\ e.heap = b.heap /\ e.p = b.p
        /\ e.writtenCoord = b.writtenCoord /\ e.mustZ = b.mustZ /\ e.mustM = b.mustM
        /\ SameWords(b, e) /\ e.foundZ = b.foundZ /\ e.foundM = b.foundM
    BY <1>1, <1>3, <1>5 DEF Context, SameWords
  <1>7. e.heap = d.heap /\ e.writtenCoord = d.writtenCoord /\ e.mustZ = d.mustZ /\ e.mustM = d.mustM
    BY <1>1, <1>6, Zenon DEF SameBuffer
  <1>8. SameWords(d, e) /\ e.foundZ = d.foundZ /\ e.foundM = d.foundM
    BY <1>1, <1>6, Zenon DEF SameWords, SameNumbers
  <1>9. e.g = Replaced(d.g, at, n)
    BY <1>6 DEF g, Replaced
  <1> QED BY <1>1, <1>6, <1>7, <1>8, <1>9, Zenon

\* The end of a series.
LEMMA CountFollows ==
    ASSUME NEW h \in Heads, NEW some \in BOOLEAN, NEW pre \in Seq(Int), NEW got \in Seq(Int), NEW a \in Int,
           NEW after \in Seq(Tokens), NEW n \in Nat,
           NEW c, Follows(c, h, some, Joint(pre, Joint(<<a>>, got)), Joint(<<")">>, after))
    PROVE  Follows(CountAtEnd(c, 3 + Len(pre), n), h, some, Joint(pre, Joint(<<n>>, got)), after)
  <1> DEFINE hd == HeadCells(Settled(h, some))
             was == Joint(pre, Joint(<<a>>, got))
             is == Joint(pre, Joint(<<n>>, got))
             at == 3 + Len(pre)
             e == CountAtEnd(c, at, n)
             start == Joint(hd, pre)
             rest == Joint(<<")">>, after)
  <1>1. /\ Reading(c, h, some, was, rest) /\ (~some => c.foundZ = FALSE /\ c.foundM = FALSE)
        /\ c \in Context /\ c.err = "none" /\ c.heap = 1 /\ c.p = rest
        /\ c.isEmpty = FALSE /\ c.hasZ = FALSE /\ c.hasM = (h.m /\ ~h.z)
        /\ c.writtenCoord = some /\ (some => c.mustZ = h.z /\ c.mustM = h.m)
        /\ c.g = Joint(hd, was)
    BY Zenon DEF Follows, Reading
  <1>2. hd \in Seq(Int) /\ Len(hd) = 2
    <2>1. Settled(h, some) \in Heads
      BY SettledHeads
    <2> QED BY <2>1, HeadDims
  <1>3. /\ <<a>> \in Seq(Int) /\ <<n>> \in Seq(Int) /\ pre \in Seq(Int) /\ got \in Seq(Int)
    OBVIOUS
  <1>4. \A x \in Int : /\ Joint(<<x>>, got) \in Seq(Int)
                       /\ Joint(hd, Joint(pre, Joint(<<x>>, got))) = Joint(start, Joint(<<x>>, got))
    <2> SUFFICES ASSUME NEW x \in Int
                 PROVE  /\ Joint(<<x>>, got) \in Seq(Int)
                        /\ Joint(hd, Joint(pre, Joint(<<x>>, got))) = Joint(start, Joint(<<x>>, got))
      OBVIOUS
    <2> DEFINE xs == <<x>>
               b == Joint(xs, got)
    <2>1. xs \in Seq(Int)
      OBVIOUS
    <2> HIDE DEF xs
    <2>2. IsJoint(b, xs, got, Int)
      BY <2>1, TextAhead
    <2>3. b \in Seq(Int)
      BY <2>2 DEF IsJoint
    <2> HIDE DEF b, hd
    <2>4. Joint(Joint(hd, pre), b) = Joint(hd, Joint(pre, b))
      BY ONLY <1>2, <1>3, <2>3, ThreeTexts
    <2> QED BY <2>3, <2>4 DEF b, xs
  <1> HIDE DEF hd, e, rest
  <1>5. start \in Seq(Int) /\ Len(start) = 2 + Len(pre)
    <2>1. IsJoint(start, hd, pre, Int)
      BY <1>2, TextAhead
    <2> QED BY <1>2, <2>1 DEF IsJoint
  <1>6. c.g = Joint(start, Joint(<<a>>, got)) /\ Joint(hd, is) = Joint(start, Joint(<<n>>, got))
    BY <1>1, <1>4
  <1> HIDE DEF was, is, start
  <1>7. at = Len(start) + 1
    BY <1>5
  <1> HIDE DEF at
  <1>8. Replaced(c.g, at, n) = Joint(hd, is) /\ at \in 1 .. Len(c.g) /\ at \in Nat
    <2>1. Replaced(c.g, at, n) = Joint(start, Joint(<<n>>, got)) /\ at \in 1 .. Len(c.g)
      <3>1. /\ start \in Seq(Int) /\ got \in Seq(Int) /\ a \in Int /\ n \in Int
            /\ c.g = Joint(start, Joint(<<a>>, got)) /\ at = Len(start) + 1
        BY <1>3, <1>5, <1>6, <1>7
      <3>2. Middle(c.g, start, a, got, at) /\ n \in Int
        BY <3>1, Zenon DEF Middle
      <3> QED BY <3>2, CellReplaced
    <2> QED BY <1>6, <2>1
  <1>9. /\ e \in Context /\ e.err = c.err /\ e.heap = c.heap /\ e.p = SubSeq(c.p, 1 + 1, Len(c.p))
        /\ e.g = Replaced(c.g, at, n)
        /\ e.writtenCoord = c.writtenCoord /\ e.mustZ = c.mustZ /\ e.mustM = c.mustM
        /\ SameWords(c, e) /\ e.foundZ = c.foundZ /\ e.foundM = c.foundM
    <2>1. c \in Context /\ at \in Nat /\ at \in 1 .. Len(c.g) /\ n \in Nat /\ e = CountAtEnd(c, at, n)
      BY <1>1, <1>8 DEF e
    <2> QED BY ONLY <2>1, CountFields
  <1>10. e.p = after
    <2> DEFINE t == <<")">>
    <2>1. t \in Seq(Tokens) /\ Len(t) = 1
      BY CommaText
    <2>2. c.p = Joint(t, after)
      BY <1>1 DEF rest
    <2> HIDE DEF t
    <2>3. IsJoint(Joint(t, after), t, after, Tokens)
      BY <2>1, TextAhead
    <2>4. SubSeq(c.p, Len(t) + 1, Len(c.p)) = after
      BY <2>2, <2>3, Zenon DEF IsJoint
    <2> QED BY <1>9, <2>1, <2>4
  <1>11. e.isEmpty = FALSE /\ e.hasZ = FALSE /\ e.hasM = (h.m /\ ~h.z)
    BY <1>1, <1>9, Zenon DEF SameWords
  <1>12. e.g = Joint(hd, is)
    BY <1>8, <1>9
  <1>13. Reading(e, h, some, is, after)
    BY <1>1, <1>9, <1>10, <1>11, <1>12, Zenon DEF Reading, hd
  <1>14. Follows(e, h, some, is, after)
    BY <1>1, <1>9, <1>13, Zenon DEF Follows
  <1> QED BY <1>14 DEF e, is, at

\* What is put together is as long as its parts.
LEMMA JointSeq ==
    ASSUME NEW T, NEW a \in Seq(T), NEW b \in Seq(T)
    PROVE  /\ Joint(a, b) \in Seq(T) /\ Len(Joint(a, b)) = Len(a) + Len(b)
           /\ Len(a) \in Nat /\ Len(b) \in Nat
  BY TextAhead DEF IsJoint

\* The brackets of a text.
Open == <<"(">>
Close == <<")">>

\* A text in brackets, and one behind it.
LEMMA Bracketed ==
    ASSUME NEW t \in Seq(Tokens), NEW after \in Seq(Tokens)
    PROVE  /\ Joint(Close, after) \in Seq(Tokens) /\ Len(Joint(Close, after)) >= 1
           /\ Joint(Close, after)[1] = ")"
           /\ Joint(t, Joint(Close, after)) \in Seq(Tokens)
           /\ Len(Joint(t, Joint(Close, after))) >= 1
           /\ Joint(Append(Opened(t), ")"), after) = Joint(Open, Joint(t, Joint(Close, after)))
  <1> DEFINE p == Joint(Close, after)
             q == Joint(t, p)
             u == Append(Opened(t), ")")
  <1>1. /\ Open \in Seq(Tokens) /\ Len(Open) = 1 /\ Open[1] = "("
        /\ Close \in Seq(Tokens) /\ Len(Close) = 1 /\ Close[1] = ")" /\ ")" \in Tokens
    BY CommaText, TokensKnown DEF Open, Close
  <1>2. Joint(Open, t) \in Seq(Tokens)
    BY <1>1, JointSeq
  <1>3. u = Joint(Joint(Open, t), Close)
    <2> DEFINE s == Joint(Open, t)
    <2>1. s = Opened(t)
      BY Zenon DEF Joint, Open, Opened
    <2> HIDE DEF s
    <2>2. s \in Seq(Tokens) /\ ")" \in Tokens
      BY <1>1, <1>2 DEF s
    <2>3. Append(s, ")") = s \o <<")">>
      BY <2>2, AppendIsConcat
    <2> QED BY <2>1, <2>3, Zenon DEF Joint, Close, s, u
  <1>4. Joint(Joint(Joint(Open, t), Close), after) = Joint(Open, q)
    BY <1>1, FourTexts
  <1>5. IsJoint(p, Close, after, Tokens)
    BY <1>1, TextAhead
  <1> HIDE DEF p, u
  <1>6. p \in Seq(Tokens) /\ Len(p) = 1 + Len(after) /\ Len(after) \in Nat /\ p[1] = ")"
    <2>1. /\ p \in Seq(Tokens) /\ Len(p) = Len(Close) + Len(after) /\ Len(after) \in Nat
          /\ \A i \in 1 .. Len(Close) : p[i] = Close[i]
      BY <1>5 DEF IsJoint
    <2> QED BY ONLY <1>1, <2>1
  <1>7. q \in Seq(Tokens) /\ Len(q) = Len(t) + Len(p) /\ Len(t) \in Nat
    BY <1>6, JointSeq
  <1>8. Len(p) >= 1 /\ Len(q) >= 1
    BY ONLY <1>6, <1>7
  <1>9. Joint(u, after) = Joint(Open, q)
    BY <1>3, <1>4
  <1> QED BY <1>6, <1>7, <1>8, <1>9 DEF p, u

\* A series, by what stands between its brackets.
LEMMA ListTextIs ==
    ASSUME NEW S, \A x \in S : Shaped(x), NEW els \in Seq(S), NEW after \in Seq(Tokens)
    PROVE  /\ Together(els) \in Seq(Tokens)
           /\ Joint(Close, after) \in Seq(Tokens) /\ Len(Joint(Close, after)) >= 1
           /\ Joint(Close, after)[1] = ")"
           /\ Joint(Together(els), Joint(Close, after)) \in Seq(Tokens)
           /\ Len(Joint(Together(els), Joint(Close, after))) >= 1
           /\ Joint(ListText(els), after) = Joint(Open, Joint(Together(els), Joint(Close, after)))
  <1> DEFINE t == Together(els)
  <1>1. t \in Seq(Tokens)
    BY SeriesParts DEF Together
  <1>2. ListText(els) = Append(Opened(t), ")")
    BY Zenon DEF ListText, Together
  <1> HIDE DEF t
  <1>3. /\ Joint(Close, after) \in Seq(Tokens) /\ Len(Joint(Close, after)) >= 1
        /\ Joint(Close, after)[1] = ")"
        /\ Joint(t, Joint(Close, after)) \in Seq(Tokens)
        /\ Len(Joint(t, Joint(Close, after))) >= 1
        /\ Joint(Append(Opened(t), ")"), after) = Joint(Open, Joint(t, Joint(Close, after)))
    BY <1>1, Bracketed
  <1> QED BY <1>1, <1>2, <1>3, Zenon DEF t

\* Two tokens are taken.
LEMMA SteppedTwice ==
    ASSUME NEW h, NEW some, NEW cells, NEW rest \in Seq(Tokens), NEW t \in Tokens, NEW u \in Tokens,
           NEW c, Follows(c, h, some, cells, Joint(<<t>>, Joint(<<u>>, rest)))
    PROVE  Follows(Skip(c, 2), h, some, cells, rest)
  <1> DEFINE us == <<u>>
             more == Joint(us, rest)
             d == Skip(c, 2)
  <1>1. us \in Seq(Tokens) /\ Len(us) = 1
    OBVIOUS
  <1>2. Follows(c, h, some, cells, Joint(<<t>>, more))
    OBVIOUS
  <1> HIDE DEF us
  <1>3. IsJoint(more, us, rest, Tokens)
    BY <1>1, TextAhead
  <1>4. more \in Seq(Tokens) /\ Len(more) = 1 + Len(rest) /\ Len(rest) \in Nat /\ SubSeq(more, 2, Len(more)) = rest
    <2>1. /\ more \in Seq(Tokens) /\ Len(more) = Len(us) + Len(rest) /\ Len(rest) \in Nat
          /\ SubSeq(more, Len(us) + 1, Len(more)) = rest
      BY <1>3 DEF IsJoint
    <2> HIDE DEF more
    <2>2. Len(us) + 1 = 2
      BY ONLY <1>1
    <2> QED BY <1>1, <2>1, <2>2
  <1> HIDE DEF more
  <1>5. /\ Reading(c, h, some, cells, Joint(<<t>>, more)) /\ (~some => c.foundZ = FALSE /\ c.foundM = FALSE)
        /\ c \in Context /\ c.p = Joint(<<t>>, more)
    BY <1>2, Zenon DEF Follows, Reading
  <1>6. d.p = rest
    <2>1. Len(more) >= 1
      BY ONLY <1>4
    <2>2. d.p = SubSeq(more, 2, Len(more))
      BY <1>4, <1>5, <2>1, TokenTaken
    <2> QED BY <1>4, <2>2
  <1>7. d \in Context /\ d.err = c.err /\ SameBuffer(c, d) /\ SameWords(c, d) /\ SameNumbers(c, d)
    BY <1>5, Skipped
  <1> HIDE DEF d
  <1>8. Reading(d, h, some, cells, d.p)
    BY <1>5, <1>7, ReadingStays
  <1>9. ~some => d.foundZ = FALSE /\ d.foundM = FALSE
    BY <1>5, <1>7, Zenon DEF SameNumbers
  <1>10. Follows(d, h, some, cells, rest)
    BY <1>6, <1>8, <1>9, Zenon DEF Follows
  <1> QED BY <1>10 DEF d

\* A call of the reader of series: elements are there, and then a bracket.
Called(c, h, level, k, some, els, pre, got, after, sz) ==
    /\ h \in Heads /\ level \in -1 .. 2 /\ k \in Nat /\ some \in BOOLEAN
    /\ els \in Seq(Els(level, Dims(h), k)) /\ Len(els) >= 1
    /\ pre \in Seq(Int) /\ got \in Seq(Int) /\ after \in Seq(Tokens) /\ sz \in Nat
    /\ Follows(c, h, some, Joint(pre, Joint(<< 0 >>, got)), Joint(Together(els), Joint(Close, after)))

\* It has stored them all, and their number.
Returns(d, h, level, some, els, pre, got, after, n) ==
    Follows(d, h, some \/ SomeOf(level, els), Joint(pre, Joint(<<n>>, Joint(got, GetsOf(level, els)))), after)

\* A reader of series that does so, for texts of up to n tokens.
CompleteSeries(series, n) ==
    \A c, h, level, k, some, els, pre, got, after, sz :
        Called(c, h, level, k, some, els, pre, got, after, sz) /\ Len(c.p) <= n =>
            Returns(series[<<c, level, 3 + Len(pre), sz>>], h, level, some, els, pre, got, after, sz + Len(els))

\* What elements get is a sequence of cells.
LEMMA GotTyped ==
    ASSUME NEW level \in -1 .. 2, NEW n \in Nat, NEW k \in Nat, NEW els \in Seq(Els(level, n, k))
    PROVE  GetsOf(level, els) \in Seq(Int) /\ SomeOf(level, els) \in BOOLEAN /\ Len(els) \in Nat
  <1> DEFINE S == Els(level, n, k)
  <1>1. \A x \in S : Shaped(x) /\ (level = -1 => Form(x))
    BY ElsParts
  <1>2. els \in Seq(S)
    OBVIOUS
  <1> HIDE DEF S
  <1>3. GetsOf(level, els) \in Seq(Int)
    <2>1. CASE level = -1
      <3>1. FlattenSeq(KeptOf(els)) \in Seq(Int)
        BY <1>1, <1>2, <2>1, MemberParts
      <3> QED BY <2>1, <3>1, Zenon DEF GetsOf
    <2>2. CASE level # -1
      <3>1. FlattenSeq(CellsOf(els)) \in Seq(Int)
        BY <1>1, <1>2, SeriesParts
      <3> QED BY <2>2, <3>1, Zenon DEF GetsOf
    <2> QED BY <2>1, <2>2
  <1>4. SomeOf(level, els) \in BOOLEAN
    BY Zenon DEF SomeOf
  <1>5. Len(els) \in Nat
    BY <1>2
  <1> QED BY <1>3, <1>4, <1>5

\* A series is read where its text is: its count, and what its elements get.
LEMMA SegmentCalled ==
    ASSUME NEW series, NEW n \in Nat, CompleteSeries(series, n),
           NEW h \in Heads, NEW level \in -1 .. 2, NEW k \in Nat, NEW some \in BOOLEAN,
           NEW els \in Seq(Els(level, Dims(h), k)), Len(els) >= 1, NEW cells \in Seq(Int), NEW after \in Seq(Tokens),
           NEW e, Follows(e, h, some, Joint(cells, << 0 >>), Joint(Together(els), Joint(Close, after))),
           Len(e.p) <= n
    PROVE  Follows(series[<<e, level, 3 + Len(cells), 0>>], h, some \/ SomeOf(level, els),
                   Joint(cells, Joint(<<Len(els)>>, GetsOf(level, els))), after)
  <1> DEFINE none == <<>>
             zero == 0
             zeros == << 0 >>
             count == <<Len(els)>>
             got == GetsOf(level, els)
             ts == Joint(Together(els), Joint(Close, after))
  <1>1. none \in Seq(Int) /\ zero \in Nat /\ zeros \in Seq(Int) /\ count \in Seq(Int)
    OBVIOUS
  <1>2. Follows(e, h, some, Joint(cells, zeros), ts)
    OBVIOUS
  <1> HIDE DEF none
  <1>3. Joint(zeros, none) = zeros
    <2> HIDE DEF zeros
    <2> QED BY <1>1, JointNone DEF none
  <1>4. Follows(e, h, some, Joint(cells, Joint(zeros, none)), ts)
    BY <1>2, <1>3, Zenon
  <1>5. Called(e, h, level, k, some, els, cells, none, after, zero)
    BY <1>1, <1>4, Zenon DEF Called
  <1> HIDE DEF zero
  <1>6. Returns(series[<<e, level, 3 + Len(cells), zero>>], h, level, some, els, cells, none, after, zero + Len(els))
    BY <1>5, Zenon DEF CompleteSeries
  <1>7. zero + Len(els) = Len(els)
    BY DEF zero
  <1>8. Joint(none, got) = got
    <2>1. got \in Seq(Int)
      BY HeadDims, GotTyped
    <2> HIDE DEF got
    <2> QED BY <2>1, JointNone DEF none
  <1> QED BY <1>6, <1>7, <1>8, Zenon DEF Returns, zero

\* Nothing between the brackets of an empty series.
LEMMA NothingTogether == Together(<<>>) = <<>>
  <1>1. TextsOf(<<>>) = <<>>
    <2>1. TextsOf(<<>>) = [i \in 1 .. 0 |-> Separated(i, <<>>[i].text)]
      BY DEF TextsOf
    <2>2. 1 .. 0 = {}
      OBVIOUS
    <2> QED BY <2>1, <2>2
  <1>2. FlattenSeq(<<>>) = <<>>
    <2>1. <<>> \in Seq(Seq(Int)) /\ SubSeq(<<>>, 1, 0) = <<>>
      OBVIOUS
    <2>2. FlattenSeq(SubSeq(<<>>, 1, 0)) = <<>>
      BY <2>1, FlattenSteps
    <2> QED BY <2>1, <2>2
  <1> QED BY <1>1, <1>2, Zenon DEF Together

\* The reader of a series, where the text of one is.
LEMMA SegmentFollows ==
    ASSUME NEW series, NEW n \in Nat, CompleteSeries(series, n),
           NEW h \in Heads, NEW level \in -1 .. 2, NEW k \in Nat, NEW some \in BOOLEAN,
           NEW els \in Seq(Els(level, Dims(h), k)), NEW cells \in Seq(Int), NEW after \in Seq(Tokens),
           NEW c, Follows(c, h, some, cells, Joint(ListText(els), after)), Len(c.p) <= n + 1
    PROVE  Follows(decodeSeriesSegment(series, c, level), h, some \/ SomeOf(level, els),
                   Joint(cells, Joint(<<Len(els)>>, GetsOf(level, els))), after)
  <1> DEFINE zeros == << 0 >>
             d == Grow(c, zeros)
             e == Skip(d, 1)
             close == Joint(Close, after)
             ts == Joint(Together(els), close)
             r == decodeSeriesSegment(series, c, level)
             U == Els(level, Dims(h), k)
  <1>0. Dims(h) \in 2 .. 4 /\ Dims(h) \in Nat /\ zeros \in Seq(Int)
    BY HeadDims
  <1>1. (\A x \in U : Shaped(x)) /\ els \in Seq(U)
    BY <1>0, ElsParts
  <1>2. /\ Together(els) \in Seq(Tokens) /\ close \in Seq(Tokens) /\ Len(close) >= 1 /\ close[1] = ")"
        /\ ts \in Seq(Tokens) /\ Len(ts) >= 1 /\ Joint(ListText(els), after) = Joint(Open, ts)
    <2> HIDE DEF U
    <2> QED BY ONLY <1>1, after \in Seq(Tokens), ListTextIs
  <1>3. r = CASE c.isEmpty -> d
              [] ~c.isEmpty /\ Ahead(d, 1) # "(" -> Failed(d)
              [] ~c.isEmpty /\ Ahead(d, 1) = "(" /\ Ahead(d, 2) = ")" -> Skip(d, 2)
              [] OTHER -> series[<<e, level, Len(d.g), 0>>]
    BY Zenon DEF decodeSeriesSegment
  <1> HIDE DEF ts, r, zeros
  <1>4. Follows(c, h, some, cells, Joint(Open, ts))
    BY <1>2
  <1>5. /\ Follows(d, h, some, Joint(cells, zeros), Joint(Open, ts))
        /\ d.p = c.p /\ Len(d.g) = 2 + Len(Joint(cells, zeros))
    BY <1>0, <1>4, GrownFollows
  <1> HIDE DEF d
  <1>6. Follows(d, h, some, Joint(cells, zeros), Joint(<<"(">>, ts)) /\ "(" \in Tokens
    BY <1>5, TokensKnown DEF Open
  <1>7. /\ Follows(e, h, some, Joint(cells, zeros), ts)
        /\ Ahead(d, 1) = "(" /\ Len(d.p) = Len(ts) + 1 /\ Len(ts) \in Nat
        /\ Ahead(d, 2) = ts[1]
    BY <1>2, <1>6, Stepped
  <1>8. c.isEmpty = FALSE
    BY <1>4, Zenon DEF Follows, Reading
  <1>9. Len(d.g) = 3 + Len(cells)
    <2>1. Len(Joint(cells, zeros)) = Len(cells) + Len(zeros) /\ Len(zeros) = 1 /\ Len(cells) \in Nat
      BY <1>0, JointSeq DEF zeros
    <2> QED BY <1>5, <2>1
  <1>10. e.p = ts /\ Len(e.p) <= n
    <2>1. e.p = ts
      BY <1>7, Zenon DEF Follows, Reading
    <2> HIDE DEF e
    <2>2. Len(d.p) <= n + 1
      BY <1>5
    <2>3. Len(ts) <= n
      BY ONLY <1>7, <2>2, n \in Nat
    <2> QED BY <2>1, <2>3
  <1>11. CASE els = <<>>
    <2>1. ts = close
      <3>1. Together(els) = <<>>
        BY <1>11, NothingTogether
      <3>2. Joint(<<>>, close) = close
        BY <1>2, JointNone
      <3> QED BY <3>1, <3>2, Zenon DEF ts
    <2>2. r = Skip(d, 2)
      BY <1>2, <1>3, <1>7, <1>8, <2>1, Zenon
    <2>3. ")" \in Tokens /\ "(" \in Tokens
      BY TokensKnown
    <2>4. Follows(Skip(d, 2), h, some, Joint(cells, zeros), after)
      <3>1. Follows(d, h, some, Joint(cells, zeros), Joint(<<"(">>, Joint(<<")">>, after)))
        BY <1>6, <2>1, Zenon DEF Close
      <3> QED BY <2>3, <3>1, SteppedTwice
    <2>5. Joint(<<Len(els)>>, GetsOf(level, els)) = zeros /\ SomeOf(level, els) = FALSE
      <3>1. GetsOf(level, els) = <<>> /\ SomeOf(level, els) = FALSE
        BY <1>11, GotNone
      <3>2. Len(els) = 0
        BY <1>11
      <3>3. <<Len(els)>> = zeros
        BY <3>2, Zenon DEF zeros
      <3>4. Joint(zeros, <<>>) = zeros
        BY <1>0, JointNone
      <3> QED BY <3>1, <3>3, <3>4
    <2>6. (some \/ SomeOf(level, els)) = some
      BY <2>5
    <2> QED BY <2>2, <2>4, <2>5, <2>6 DEF r
  <1>12. ASSUME els # <<>>
         PROVE  Follows(r, h, some \/ SomeOf(level, els), Joint(cells, Joint(<<Len(els)>>, GetsOf(level, els))), after)
    <2>1. Len(els) >= 1
      BY <1>12
    <2>2. ts[1] # ")"
      <3>1. PICK y \in U : \E zs \in Seq(U) : els = Before(y, zs) /\ Len(els) = Len(zs) + 1
        <4> HIDE DEF U
        <4> QED BY <1>1, <2>1, FirstOf
      <3>2. PICK zs \in Seq(U) : els = Before(y, zs)
        BY <3>1
      <3>3. Len(y.text) >= 1 /\ y.text[1] # ")"
        BY <1>0, FirstToken
      <3> HIDE DEF U
      <3>4. Together(els) = Joint(y.text, After(zs)) /\ After(zs) \in Seq(Tokens) /\ y.text \in Seq(Tokens)
        BY <1>1, <3>2, TextsCons, CommasAre DEF Shaped
      <3>5. IsJoint(Joint(y.text, After(zs)), y.text, After(zs), Tokens)
        BY <3>4, TextAhead
      <3>6. IsJoint(Joint(Together(els), close), Together(els), close, Tokens)
        BY <1>2, TextAhead
      <3>7. 1 \in 1 .. Len(y.text) /\ Len(Together(els)) >= 1 /\ Together(els)[1] = y.text[1]
        BY <3>3, <3>4, <3>5 DEF IsJoint
      <3>8. 1 \in 1 .. Len(Together(els)) /\ ts[1] = Together(els)[1]
        BY <3>6, <3>7 DEF IsJoint, ts
      <3> QED BY <3>3, <3>7, <3>8
    <2>3. r = series[<<e, level, 3 + Len(cells), 0>>]
      BY <1>3, <1>7, <1>8, <1>9, <2>2, Zenon
    <2>4. Follows(e, h, some, Joint(cells, << 0 >>), Joint(Together(els), Joint(Close, after)))
      BY <1>7, Zenon DEF ts, zeros
    <2> HIDE DEF e, U
    <2>5. els \in Seq(Els(level, Dims(h), k))
      OBVIOUS
    <2> QED BY SMTT(30), <1>10, <2>1, <2>3, <2>4, SegmentCalled
  <1> QED BY <1>11, <1>12 DEF r

\* What is written behind the name of a geometry.
Words(h) == IF h.m /\ ~h.z THEN <<"M">> ELSE <<>>

\* The name, and then the words.
LEMMA NameAndWords ==
    ASSUME NEW h \in Heads
    PROVE  TypeWords(h) = Joint(<<h.type>>, Words(h)) /\ Words(h) \in Seq(Tokens) /\ h.type \in Tokens
  <1>1. h.type \in Tokens /\ "M" \in Tokens
    BY HeadParts, TokensKnown
  <1> DEFINE t == h.type
  <1>2. <<t>> \o <<>> = <<t>> /\ <<t>> \o <<"M">> = <<t, "M">>
    BY Concatenated
  <1>3. \A u \in Tokens : <<u>> \in Seq(Tokens)
    OBVIOUS
  <1>4. <<"M">> \in Seq(Tokens)
    BY <1>1, <1>3, Zenon
  <1>5. <<>> \in Seq(Tokens)
    OBVIOUS
  <1>6. Words(h) \in Seq(Tokens)
    BY <1>4, <1>5, Zenon DEF Words
  <1>7. TypeWords(h) = Joint(<<h.type>>, Words(h))
    <2>1. CASE h.m /\ ~h.z
      BY <1>2, <2>1, Zenon DEF TypeWords, Words, Joint
    <2>2. CASE ~(h.m /\ ~h.z)
      BY <1>2, <2>2, Zenon DEF TypeWords, Words, Joint
    <2> QED BY <2>1, <2>2
  <1> QED BY <1>1, <1>6, <1>7

\* The reader is behind the name of a geometry.
Fresh(c, rest) ==
    /\ c \in Context /\ c.err = "none" /\ c.heap = 1 /\ c.p = rest
    /\ c.g = <<LittleEndian>> /\ c.writtenCoord = FALSE /\ c.isEmpty = FALSE
    /\ c.foundZ = FALSE /\ c.foundM = FALSE

\* The name is read.
LEMMA NameRead ==
    ASSUME NEW h \in Heads, NEW body \in Seq(Tokens), NEW words, words = Joint(TypeWords(h), body),
           NEW c, c = NewContext(words)
    PROVE  /\ words \in Seq(Tokens) /\ words # <<>> /\ Ahead(c, 1) = h.type /\ c \in Context /\ c.err = "none"
           /\ Fresh(Skip(c, 1), Joint(Words(h), body))
           /\ Joint(Words(h), body) \in Seq(Tokens) /\ Len(words) = Len(Joint(Words(h), body)) + 1
  <1> DEFINE t == h.type
             name == <<t>>
             w == Words(h)
             rest == Joint(w, body)
             b == Skip(c, 1)
  <1>1. TypeWords(h) = Joint(name, w) /\ w \in Seq(Tokens) /\ t \in Tokens
    BY NameAndWords
  <1>2. name \in Seq(Tokens)
    BY <1>1
  <1> HIDE DEF w, name
  <1>3. words = Joint(name, rest)
    <2>1. Joint(Joint(name, w), body) = Joint(name, rest)
      BY <1>1, <1>2, ThreeTexts
    <2> QED BY <1>1, <2>1
  <1>4. rest \in Seq(Tokens)
    BY <1>1, JointSeq
  <1>5. Joint(name, rest) \in Seq(Tokens) /\ Len(Joint(name, rest)) = Len(name) + Len(rest) /\ Len(rest) \in Nat
    BY <1>2, <1>4, JointSeq
  <1>6. Len(name) = 1
    BY DEF name
  <1>7. words \in Seq(Tokens) /\ Len(words) = Len(rest) + 1 /\ words # <<>>
    <2> HIDE DEF rest
    <2> QED BY <1>3, <1>5, <1>6
  <1> HIDE DEF rest
  <1>8. /\ c \in Context /\ c.g = <<LittleEndian>> /\ c.writtenCoord = FALSE /\ c.heap = 1
        /\ c.err = "none" /\ c.p = words
    BY <1>7, NewContextFields
  <1>9. c.isEmpty = FALSE /\ c.foundZ = FALSE /\ c.foundM = FALSE
    BY Zenon DEF NewContext
  <1>10. Ahead(c, 1) = t /\ b.p = rest
    <2>1. c.p = Joint(<<t>>, rest)
      BY <1>3, <1>8, Zenon DEF name
    <2> HIDE DEF t
    <2> QED BY <1>1, <1>4, <1>8, <2>1, TokenTaken
  <1>11. /\ b \in Context /\ b.err = c.err /\ SameBuffer(c, b) /\ SameWords(c, b) /\ SameNumbers(c, b)
    BY <1>8, Skipped
  <1> HIDE DEF b
  <1>12. Fresh(b, rest)
    BY <1>8, <1>9, <1>10, <1>11, Zenon DEF Fresh, SameBuffer, SameWords, SameNumbers
  <1> QED BY <1>4, <1>7, <1>8, <1>10, <1>12 DEF rest, b, w, t

\* The reader is before the bracket, and knows the words.
Worded(d, h, rest) == Fresh(d, rest) /\ d.hasZ = FALSE /\ d.hasM = (h.m /\ ~h.z)

\* The words behind the name are read, up to the bracket.
LEMMA WordsRead ==
    ASSUME NEW h \in Heads, NEW body \in Seq(Tokens), NEW more \in Seq(Tokens), more = Joint(Open, body),
           NEW c, Fresh(c, Joint(Words(h), more)), NEW d, d = decodeHead(c)
    PROVE  Worded(d, h, more)
  <1> DEFINE b == decodeWord(c)
  <1>1. /\ c \in Context /\ c.err = "none" /\ c.heap = 1 /\ c.p = Joint(Words(h), more)
        /\ c.g = <<LittleEndian>> /\ c.writtenCoord = FALSE /\ c.isEmpty = FALSE
        /\ c.foundZ = FALSE /\ c.foundM = FALSE
    BY Zenon DEF Fresh
  <1>2. /\ b \in Context /\ b.err = c.err
        /\ b.hasZ = (Ahead(c, 1) \in {"Z", "ZM"}) /\ b.hasM = (Ahead(c, 1) \in {"M", "ZM"})
        /\ b.isEmpty = c.isEmpty
        /\ b.p = Skip(c, IF Ahead(c, 1) \in {"Z", "M", "ZM"} THEN 1 ELSE 0).p
        /\ SameBuffer(c, b) /\ SameNumbers(c, b)
    BY <1>1, WordFields
  <1> HIDE DEF b
  <1>3. more # <<>> /\ Len(more) >= 1 /\ more[1] = "("
    <2>1. Open \in Seq(Tokens) /\ Len(Open) = 1 /\ Open[1] = "("
      BY CommaText DEF Open
    <2>2. IsJoint(more, Open, body, Tokens)
      BY <2>1, TextAhead
    <2>3. Len(more) = Len(Open) + Len(body) /\ Len(body) \in Nat /\ more \in Seq(Tokens)
          /\ \A i \in 1 .. Len(Open) : more[i] = Open[i]
      BY <2>2 DEF IsJoint
    <2> QED BY ONLY <2>1, <2>3
  <1>4. b.p = more /\ b.hasZ = FALSE /\ b.hasM = (h.m /\ ~h.z)
    <2>1. CASE h.m /\ ~h.z
      <3>1. c.p = Joint(<<"M">>, more) /\ "M" \in Tokens
        BY <1>1, <2>1, TokensKnown DEF Words
      <3>2. Ahead(c, 1) = "M" /\ Skip(c, 1).p = more
        BY <1>1, <3>1, TokenTaken
      <3>3. (Ahead(c, 1) \in {"Z", "ZM"}) = FALSE /\ (Ahead(c, 1) \in {"M", "ZM"}) = TRUE
            /\ Ahead(c, 1) \in {"Z", "M", "ZM"}
        BY <3>2
      <3> QED BY <1>2, <2>1, <3>2, <3>3, Zenon
    <2>2. CASE ~(h.m /\ ~h.z)
      <3>1. c.p = more
        <4>1. Words(h) = <<>>
          BY <2>2, Zenon DEF Words
        <4>2. Joint(<<>>, more) = more
          BY JointNone
        <4> QED BY <1>1, <4>1, <4>2
      <3>2. Ahead(c, 1) = "("
        BY <1>3, <3>1 DEF Ahead
      <3>3. Skip(c, 0).p = more
        <4>1. Skip(c, 0).p = SubSeq(c.p, 0 + 1, Len(c.p))
          BY <1>1, Skipped
        <4>2. SubSeq(more, 1, Len(more)) = more
          OBVIOUS
        <4> QED BY <3>1, <4>1, <4>2
      <3>4. (Ahead(c, 1) \in {"Z", "ZM"}) = FALSE /\ (Ahead(c, 1) \in {"M", "ZM"}) = FALSE
            /\ Ahead(c, 1) \notin {"Z", "M", "ZM"}
        BY <3>2
      <3> QED BY <1>2, <2>2, <3>2, <3>3, <3>4, Zenon
    <2> QED BY <2>1, <2>2
  <1>5. Ahead(b, 1) = "("
    BY <1>3, <1>4 DEF Ahead
  <1>6. d = b
    <2>1. d = decodeEmpty(b)
      BY Zenon DEF decodeHead, b
    <2> QED BY <1>5, <2>1 DEF decodeEmpty
  <1> QED BY <1>1, <1>2, <1>4, <1>6, Zenon DEF Worded, Fresh, SameBuffer, SameNumbers

\* The head of a geometry is read.
LEMMA HeadFollows ==
    ASSUME NEW h \in Heads, NEW body \in Seq(Tokens), NEW more \in Seq(Tokens), more = Joint(Open, body),
           NEW c, Fresh(c, Joint(Words(h), more))
    PROVE  decodeHead(c).err = "none" /\ Follows(appendType(decodeHead(c), h.type), h, FALSE, <<>>, more)
  <1> DEFINE d == decodeHead(c)
             e == appendType(d, h.type)
             hh == ShownHead(h)
             cell == TypeCell(TypeCode(h.type), d.hasZ, d.hasM)
             none == <<>>
  <1>0. d = decodeHead(c)
    OBVIOUS
  <1> HIDE DEF d
  <1>1. Fresh(d, more) /\ d.hasZ = FALSE /\ d.hasM = (h.m /\ ~h.z)
    <2>1. Worded(d, h, more)
      BY <1>0, WordsRead
    <2> QED BY <2>1, Zenon DEF Worded
  <1>2. /\ d \in Context /\ d.err = "none" /\ d.heap = 1 /\ d.p = more
        /\ d.g = <<LittleEndian>> /\ d.writtenCoord = FALSE /\ d.isEmpty = FALSE
        /\ d.foundZ = FALSE /\ d.foundM = FALSE
    BY <1>1, Zenon DEF Fresh
  <1>3. hh \in Heads /\ hh.type = h.type /\ hh.z = FALSE /\ hh.m = (h.m /\ ~h.z)
    BY HeadShown
  <1>4. cell = TypeCell(TypeCode(hh.type), hh.z, hh.m)
    BY <1>1, <1>3, Zenon
  <1>5. HeadCells(hh) = <<LittleEndian, cell>> /\ HeadCells(hh) \in Seq(Int) /\ cell \in Int
    <2>1. HeadCells(hh) = <<LittleEndian, TypeCell(TypeCode(hh.type), hh.z, hh.m)>>
      BY Zenon DEF HeadCells
    <2>2. HeadCells(hh) \in Seq(Int)
      BY <1>3, HeadDims
    <2>3. d.hasZ \in BOOLEAN /\ d.hasM \in BOOLEAN
      BY <1>2, ContextFields
    <2>4. TypeCode(h.type) \in 1 .. 7
      BY HeadParts, TypeCodes
    <2>5. cell \in Nat
      <3>1. \A code \in 1 .. 7 : \A z, m : TypeCell(code, z, m) \in Nat
        BY DEF TypeCell
      <3> QED BY <2>4, <3>1, Zenon
    <2>6. cell \in Int
      <3> HIDE DEF cell
      <3> QED BY <2>5
    <2> QED BY <1>4, <2>1, <2>2, <2>6, Zenon
  <1> HIDE DEF hh, cell
  <1> DEFINE s == <<cell>>
  <1>6. s \in Seq(Int)
    BY <1>5
  <1>7. e = Grow(d, s)
    BY Zenon DEF appendType, cell
  <1> HIDE DEF s, e
  <1>8. /\ e \in Context /\ e.g = d.g \o s /\ e.p = d.p /\ e.err = d.err /\ e.heap = d.heap
        /\ e.writtenCoord = d.writtenCoord /\ SameWords(d, e) /\ SameNumbers(d, e)
    BY <1>2, <1>6, <1>7, GrowFields
  <1>9. e.g = HeadCells(hh)
    <2>1. <<LittleEndian>> \o <<cell>> = <<LittleEndian, cell>>
      BY Concatenated
    <2> QED BY <1>2, <1>5, <1>8, <2>1, Zenon DEF s
  <1>10. e.g = Joint(HeadCells(Settled(h, FALSE)), none)
    <2>1. Settled(h, FALSE) = hh
      BY DEF Settled, hh
    <2>2. Joint(HeadCells(hh), <<>>) = HeadCells(hh)
      BY <1>5, JointNone
    <2> QED BY <1>9, <2>1, <2>2
  <1>11. e.isEmpty = FALSE /\ e.hasZ = FALSE /\ e.hasM = (h.m /\ ~h.z)
    BY <1>1, <1>2, <1>8, Zenon DEF SameWords
  <1>12. e.foundZ = FALSE /\ e.foundM = FALSE
    BY <1>2, <1>8, Zenon DEF SameNumbers
  <1> HIDE DEF none
  <1>13. Reading(e, h, FALSE, none, more)
    BY <1>2, <1>8, <1>10, <1>11, Zenon DEF Reading
  <1>14. Follows(e, h, FALSE, none, more)
    BY <1>12, <1>13, Zenon DEF Follows
  <1> QED BY <1>2, <1>14 DEF d, e, none

\* A geometry is read: what is kept of it is in the buffer, and rest is left.
Done(d, kept, rest) ==
    d \in Context /\ d.err = "none" /\ d.heap = 1 /\ d.p = rest /\ d.g = kept

\* The numbers of a point and its brackets are read.
LEMMA PointFollows ==
    ASSUME NEW h \in Heads, NEW s \in [1 .. Dims(h) -> Digit], NEW rest \in Seq(Tokens),
           NEW words, words = Joint(Append(Opened(Shown(s)), ")"), rest),
           NEW e, Follows(e, h, FALSE, <<>>, words)
    PROVE  Done(PointBody(e), HeadCells(h) \o s, rest)
  <1> DEFINE t == Shown(s)
             close == Joint(Close, rest)
             q == Joint(t, close)
             none == <<>>
             a == Skip(e, 1)
             b == decodeNumbers(a)
             f == Skip(b, 1)
             d == appendCoord(f)
             no == FALSE
  <1>1. Dims(h) \in Nat /\ t \in Seq(Tokens)
    BY HeadDims, ShownNumbers
  <1> HIDE DEF t
  <1>2. /\ close \in Seq(Tokens) /\ Len(close) >= 1 /\ close[1] = ")" /\ q \in Seq(Tokens)
        /\ Joint(Append(Opened(t), ")"), rest) = Joint(Open, q)
    BY <1>1, Bracketed
  <1>3. words = Joint(Open, q)
    BY <1>2, Zenon DEF t
  <1> HIDE DEF close, none, no
  <1>4. Follows(e, h, no, none, Joint(<<"(">>, q)) /\ "(" \in Tokens /\ ")" \in Tokens
    BY <1>3, TokensKnown, Zenon DEF Open, none, no
  <1>5. Follows(a, h, no, none, q)
    <2> HIDE DEF q
    <2> QED BY <1>2, <1>4, Stepped
  <1>6. Follows(a, h, no, none, Joint(Shown(s), close))
    BY <1>5, Zenon DEF t
  <1>7. none \in Seq(Int) /\ no \in BOOLEAN
    BY DEF none, no
  <1> HIDE DEF a
  <1>8. Ready(b, h, s, no, none, close)
    BY <1>2, <1>6, <1>7, NumbersTaken
  <1> HIDE DEF b
  <1>9. Ready(b, h, s, no, none, Joint(<<")">>, rest))
    BY <1>8, Zenon DEF close, Close
  <1>10. Ready(f, h, s, no, none, rest) /\ Ahead(b, 1) = ")"
    BY <1>4, <1>9, ReadyStepped
  <1> HIDE DEF f
  <1>11. Follows(d, h, TRUE, Joint(none, s), rest)
    BY <1>7, <1>10, CoordPut
  <1>12. Joint(none, s) = s
    <2>1. s \in Seq(Int)
      BY <1>1, CoordinateShape
    <2> QED BY <2>1, JointNone DEF none
  <1>13. PointBody(e) = d
    <2>1. e.isEmpty = FALSE
      BY Zenon DEF Follows, Reading
    <2>2. b.err = "none"
      BY <1>8, Zenon DEF Ready, Reading
    <2> QED BY <1>10, <2>1, <2>2, Zenon DEF PointBody, Then, PointEnd, a, b, f
  <1> HIDE DEF d
  <1>14. Reading(d, h, TRUE, s, rest)
    BY <1>11, <1>12, Zenon DEF Follows
  <1>15. d.g = Joint(HeadCells(h), s)
    <2>1. Settled(h, TRUE) = h
      BY SettledHeads
    <2> QED BY <1>14, <2>1, Zenon DEF Reading
  <1> QED BY <1>13, <1>14, <1>15, Zenon DEF Done, Reading, Joint

\* A series is read, and is the whole of a geometry.
LEMMA SeriesFollows ==
    ASSUME NEW series, NEW n \in Nat, CompleteSeries(series, n),
           NEW h \in Heads, NEW level \in -1 .. 2, NEW k \in Nat, NEW els \in Seq(Els(level, Dims(h), k)),
           NEW rest \in Seq(Tokens), NEW words, words = Joint(ListText(els), rest), Len(words) <= n + 1,
           NEW e, Follows(e, h, FALSE, <<>>, words)
    PROVE  Done(decodeSeriesSegment(series, e, level),
                HeadCells(Settled(h, SomeOf(level, els))) \o (<<Len(els)>> \o GetsOf(level, els)), rest)
  <1> DEFINE none == <<>>
             no == FALSE
             some == SomeOf(level, els)
             d == decodeSeriesSegment(series, e, level)
             got == Joint(<<Len(els)>>, GetsOf(level, els))
  <1>1. none \in Seq(Int) /\ no \in BOOLEAN
    OBVIOUS
  <1> HIDE DEF none, no
  <1>2. Follows(e, h, no, none, Joint(ListText(els), rest)) /\ Len(e.p) <= n + 1
    BY Zenon DEF Follows, Reading, none, no
  <1>3. Follows(d, h, no \/ some, Joint(none, got), rest)
    BY <1>1, <1>2, SegmentFollows
  <1>4. Joint(none, got) = got
    <2>1. GetsOf(level, els) \in Seq(Int) /\ Len(els) \in Nat
      BY HeadDims, GotTyped
    <2>2. <<Len(els)>> \in Seq(Int)
      BY <2>1
    <2>3. got \in Seq(Int)
      BY <2>1, <2>2, JointSeq
    <2> HIDE DEF got
    <2> QED BY <2>3, JointNone DEF none
  <1>5. (no \/ some) = some
    BY HeadDims, GotTyped DEF no
  <1> HIDE DEF d, some, got
  <1>6. Reading(d, h, some, got, rest)
    BY <1>3, <1>4, <1>5, Zenon DEF Follows
  <1>7. Done(d, Joint(HeadCells(Settled(h, some)), got), rest)
    BY <1>6, Zenon DEF Done, Reading
  <1> QED BY <1>7, Zenon DEF Joint, got, d, some

\* The reader is before the bracket of a geometry, and goes on by the type of it.
Starts(c, e, h, more, words, series) ==
    /\ Follows(e, h, FALSE, <<>>, more)
    /\ h.type = "POINT" => geomDecodeGeometry(series, c) = PointBody(e)
    /\ h.type # "POINT" => geomDecodeGeometry(series, c) = decodeSeriesSegment(series, e, Level(h.type))
    /\ words \in Seq(Tokens) /\ words # <<>>
    /\ Len(more) \in Nat /\ Len(words) \in Nat /\ Len(more) + 1 <= Len(words)

\* A geometry is read by the reader of its type.
LEMMA GeometryBegins ==
    ASSUME NEW h \in Heads, NEW q \in Seq(Tokens), NEW more \in Seq(Tokens), more = Joint(Open, q),
           NEW words, words = Joint(TypeWords(h), more), NEW c, c = NewContext(words), NEW series,
           NEW e, e = appendType(decodeHead(Skip(c, 1)), h.type)
    PROVE  Starts(c, e, h, more, words, series)
  <1> DEFINE b == Skip(c, 1)
             w == Words(h)
             rest == Joint(w, more)
             d == decodeHead(b)
  <1>1. /\ words \in Seq(Tokens) /\ words # <<>> /\ Ahead(c, 1) = h.type
        /\ Fresh(b, rest)
        /\ rest \in Seq(Tokens) /\ Len(words) = Len(rest) + 1
    BY NameRead
  <1>2. d.err = "none" /\ Follows(e, h, FALSE, <<>>, more)
    <2> HIDE DEF b
    <2>1. Fresh(b, Joint(Words(h), more))
      BY <1>1
    <2>2. decodeHead(b).err = "none" /\ Follows(appendType(decodeHead(b), h.type), h, FALSE, <<>>, more)
      BY <2>1, HeadFollows
    <2> QED BY <2>2 DEF b
  <1>3. Len(more) \in Nat /\ Len(words) \in Nat /\ Len(more) + 1 <= Len(words)
    <2>1. w \in Seq(Tokens)
      BY NameAndWords
    <2> HIDE DEF w
    <2>2. Len(rest) = Len(w) + Len(more) /\ Len(w) \in Nat /\ Len(more) \in Nat
      BY <2>1, JointSeq
    <2> HIDE DEF rest
    <2> QED BY ONLY <1>1, <2>2
  <1>4. h.type \in TypeNames /\ Range(GeomTypes) = TypeNames
    BY HeadParts, TypeCodes
  <1>5. ASSUME h.type = "POINT" PROVE geomDecodeGeometry(series, c) = PointBody(e)
    <2>1. geomDecodeGeometry(series, c) = geomDecodePoint(b)
      <3> HIDE DEF b
      <3> QED BY <1>1, <1>5, Zenon DEF geomDecodeGeometry, b
    <2>2. geomDecodePoint(b) = PointBody(appendType(d, "POINT"))
      BY <1>2, Zenon DEF geomDecodePoint, Then
    <2> QED BY <1>5, <2>1, <2>2
  <1>6. ASSUME h.type # "POINT"
        PROVE  geomDecodeGeometry(series, c) = decodeSeriesSegment(series, e, Level(h.type))
    <2>1. geomDecodeGeometry(series, c) = geomDecodeSeries(series, b, h.type)
      <3>1. h.type \in Range(GeomTypes) \ {"POINT"}
        BY <1>4, <1>6
      <3> HIDE DEF b
      <3> QED BY <1>1, <1>6, <3>1, Zenon DEF geomDecodeGeometry, b
    <2>2. geomDecodeSeries(series, b, h.type) = decodeSeriesSegment(series, appendType(d, h.type), Level(h.type))
      BY <1>2, Zenon DEF geomDecodeSeries, Then
    <2> QED BY <2>1, <2>2
  <1> QED BY <1>1, <1>2, <1>3, <1>5, <1>6, Zenon DEF Starts

\* A geometry that is not a collection is read.
LEMMA LeafFollows ==
    ASSUME NEW series, NEW n \in Nat, CompleteSeries(series, n),
           NEW h \in LeafHeads, NEW body \in Bodies(h), NEW y, y = Leaf(h, body),
           NEW rest \in Seq(Tokens), NEW words, words = Joint(y.text, rest), Len(words) <= n + 2
    PROVE  Done(geomDecodeGeometry(series, NewContext(words)), y.kept, rest) /\ words \in Seq(Tokens) /\ words # <<>>
  <1> DEFINE bt == BodyText(h, body)
             more == Joint(bt, rest)
             c == NewContext(words)
             e == appendType(decodeHead(Skip(c, 1)), h.type)
             d == geomDecodeGeometry(series, c)
  <1>1. /\ y.text = TypeWords(h) \o bt
        /\ y.some = body.some /\ (y.some => y.kept = HeadCells(h) \o body.cells)
        /\ ~y.some => y.kept = HeadCells(ShownHead(h)) \o body.cells
    <2> DEFINE piece == LeafPiece(h, body)
    <2>1. IsLeaf(piece, h, body)
      BY LeafShape
    <2>2. y.text = piece.text /\ y.some = piece.some /\ y.kept = piece.kept
      BY Zenon DEF Leaf
    <2> HIDE DEF piece
    <2> QED BY <2>1, <2>2, Zenon DEF IsLeaf
  <1>2. h \in Heads /\ TypeWords(h) \in Seq(Tokens) /\ bt \in Seq(Tokens) /\ Dims(h) \in 2 .. 4 /\ Dims(h) \in Nat
    BY HeadDims, BodyShape DEF LeafHeads
  <1> HIDE DEF bt
  <1>3. words = Joint(TypeWords(h), more) /\ more \in Seq(Tokens)
    <2>1. words = Joint(Joint(TypeWords(h), bt), rest)
      BY <1>1, Zenon DEF Joint
    <2>2. Joint(Joint(TypeWords(h), bt), rest) = Joint(TypeWords(h), Joint(bt, rest))
      BY <1>2, ThreeTexts
    <2> QED BY <1>2, <2>1, <2>2, JointSeq
  <1>4. CASE h.type = "POINT"
    <2>1. body \in Coordinates(Dims(h)) /\ body.some = TRUE /\ bt = Append(Opened(body.text), ")")
      BY <1>4, BodyShape DEF bt
    <2>2. PICK s \in [1 .. Dims(h) -> Digit] : body = CoordinatePiece(s)
      BY <2>1 DEF Coordinates
    <2>3. body.text = Shown(s) /\ body.cells = s
      BY <2>2, Zenon DEF CoordinatePiece
    <2> DEFINE t == Shown(s)
               q == Joint(t, Joint(Close, rest))
    <2>4. t \in Seq(Tokens)
      BY <1>2, ShownNumbers
    <2> HIDE DEF t
    <2>5. more = Joint(Append(Opened(t), ")"), rest)
      BY <2>1, <2>3, Zenon DEF t
    <2>6. q \in Seq(Tokens) /\ more = Joint(Open, q)
      BY <2>4, <2>5, Bracketed
    <2> HIDE DEF q, more, c, e
    <2>7. c = NewContext(words) /\ e = appendType(decodeHead(Skip(c, 1)), h.type)
      BY DEF c, e
    <2>8. /\ Follows(e, h, FALSE, <<>>, more)
          /\ h.type = "POINT" => d = PointBody(e)
          /\ words \in Seq(Tokens) /\ words # <<>>
      <3>1. Starts(c, e, h, more, words, series)
        BY <1>2, <1>3, <2>6, <2>7, GeometryBegins
      <3> QED BY <3>1, Zenon DEF Starts
    <2>9. more = Joint(Append(Opened(Shown(s)), ")"), rest)
      BY <2>5 DEF t
    <2>10. Done(PointBody(e), HeadCells(h) \o s, rest)
      BY <1>2, <2>8, <2>9, PointFollows
    <2>11. y.kept = HeadCells(h) \o s
      BY <1>1, <2>1, <2>3
    <2> QED BY <1>4, <2>8, <2>10, <2>11 DEF c
  <1>5. CASE h.type # "POINT"
    <2> DEFINE level == Level(h.type)
               S == Elements(level, Dims(h))
    <2>1. body \in Elements(level + 1, Dims(h)) /\ bt = body.text /\ level + 1 \in 1 .. 3 /\ level \in 0 .. 2
      <3>1. h.type \in TypeNames \ {"POINT", "GEOMETRYCOLLECTION"}
        BY <1>2, <1>5, HeadParts DEF LeafHeads
      <3>2. level \in 0 .. 2
        BY <3>1, Levels
      <3> QED BY <1>5, <3>2, BodyShape DEF bt
    <2>2. body \in SeriesOf(S)
      BY <2>1, ElementsBelow
    <2>3. PICK els \in Seq(S) : body = SeriesPiece(els)
      BY <2>2 DEF SeriesOf
    <2> HIDE DEF level
    <2>4. Els(level, Dims(h), 0) = S /\ level \in -1 .. 2 /\ level # -1 /\ 0 \in Nat
      <3>1. level \in -1 .. 2 /\ level # -1
        BY <2>1
      <3> QED BY <3>1 DEF Els
    <2>5. els \in Seq(Els(level, Dims(h), 0))
      BY <2>3, <2>4
    <2>6. \A x \in S : Shaped(x)
      BY <2>1, <1>2, ElementShape
    <2>7. /\ body.cells = <<Len(els)>> \o FlattenSeq(CellsOf(els)) /\ body.text = ListText(els)
          /\ body.some = (\E i \in 1 .. Len(els) : els[i].some)
      BY <2>3, Zenon DEF SeriesPiece
    <2> DEFINE q == Joint(Together(els), Joint(Close, rest))
    <2> HIDE DEF S
    <2>8. q \in Seq(Tokens) /\ Joint(ListText(els), rest) = Joint(Open, q)
      BY <2>3, <2>6, ListTextIs
    <2>9. more = Joint(ListText(els), rest)
      BY <2>1, <2>7
    <2>10. more = Joint(Open, q)
      BY <2>8, <2>9
    <2> HIDE DEF q, more, c, e
    <2>11. c = NewContext(words) /\ e = appendType(decodeHead(Skip(c, 1)), h.type)
      BY DEF c, e
    <2>12. /\ Follows(e, h, FALSE, <<>>, more)
           /\ h.type # "POINT" => d = decodeSeriesSegment(series, e, Level(h.type))
           /\ words \in Seq(Tokens) /\ words # <<>>
           /\ Len(more) \in Nat /\ Len(words) \in Nat /\ Len(more) + 1 <= Len(words)
      <3>1. Starts(c, e, h, more, words, series)
        BY <1>2, <1>3, <2>8, <2>10, <2>11, GeometryBegins
      <3> QED BY <3>1, Zenon DEF Starts
    <2>13. Len(more) <= n + 1
      BY ONLY <2>12, Len(words) <= n + 2, n \in Nat
    <2>14. Done(decodeSeriesSegment(series, e, level),
                HeadCells(Settled(h, SomeOf(level, els))) \o (<<Len(els)>> \o GetsOf(level, els)), rest)
      BY <1>2, <2>4, <2>5, <2>9, <2>12, <2>13, SeriesFollows
    <2>15. GetsOf(level, els) = FlattenSeq(CellsOf(els)) /\ SomeOf(level, els) = body.some
      BY <2>4, <2>7, Zenon DEF GetsOf, SomeOf
    <2>16. y.kept = HeadCells(Settled(h, body.some)) \o body.cells
      <3>1. CASE y.some
        BY <1>1, <3>1, Zenon DEF Settled
      <3>2. CASE ~y.some
        BY <1>1, <3>2, Zenon DEF Settled
      <3> QED BY <3>1, <3>2
    <2> QED BY <1>5, <2>7, <2>12, <2>14, <2>15, <2>16, Zenon DEF c, level
  <1> QED BY <1>4, <1>5

\* A collection is read.
LEMMA CollectionFollows ==
    ASSUME NEW series, NEW n \in Nat, CompleteSeries(series, n), NEW k \in Nat,
           NEW h \in CollectionHeads, NEW members \in Seq(Trees[k]), NEW y, y = Collection(h, members),
           NEW rest \in Seq(Tokens), NEW words, words = Joint(y.text, rest), Len(words) <= n + 2
    PROVE  Done(geomDecodeGeometry(series, NewContext(words)), y.kept, rest) /\ words \in Seq(Tokens) /\ words # <<>>
  <1> DEFINE S == Trees[k]
             bt == ListText(members)
             more == Joint(bt, rest)
             c == NewContext(words)
             e == appendType(decodeHead(Skip(c, 1)), h.type)
             d == geomDecodeGeometry(series, c)
             q == Joint(Together(members), Joint(Close, rest))
             level == -1
  <1>1. (\A x \in S : Form(x)) /\ \A x \in S : Shaped(x)
    BY TreeForm DEF Form
  <1>2. members \in Seq(S)
    OBVIOUS
  <1> HIDE DEF S
  <1>3. /\ y.text = TypeWords(h) \o bt
        /\ y.kept = HeadCells(ShownHead(h)) \o (<<Len(members)>> \o FlattenSeq(KeptOf(members)))
    <2>1. IsCollection(y, h, members)
      BY <1>1, <1>2, CollectionShape
    <2> QED BY <2>1, Zenon DEF IsCollection
  <1>4. h \in Heads /\ h.type = "GEOMETRYCOLLECTION" /\ TypeWords(h) \in Seq(Tokens)
    BY HeadDims DEF CollectionHeads
  <1>5. bt \in Seq(Tokens) /\ q \in Seq(Tokens) /\ more = Joint(Open, q)
    <2>1. bt \in Seq(Tokens)
      BY <1>1, <1>2, SeriesShape
    <2>2. q \in Seq(Tokens) /\ more = Joint(Open, q)
      BY <1>1, <1>2, ListTextIs
    <2> QED BY <2>1, <2>2
  <1> HIDE DEF bt, q
  <1>6. words = Joint(TypeWords(h), more) /\ more \in Seq(Tokens)
    <2>1. words = Joint(Joint(TypeWords(h), bt), rest)
      BY <1>3, Zenon DEF Joint
    <2>2. Joint(Joint(TypeWords(h), bt), rest) = Joint(TypeWords(h), Joint(bt, rest))
      BY <1>4, <1>5, ThreeTexts
    <2> QED BY <1>5, <2>1, <2>2, JointSeq
  <1>7. more = Joint(ListText(members), rest)
    BY DEF bt
  <1> HIDE DEF more, c, e
  <1>8. c = NewContext(words) /\ e = appendType(decodeHead(Skip(c, 1)), h.type)
    BY DEF c, e
  <1>9. Starts(c, e, h, more, words, series)
    BY <1>4, <1>5, <1>6, <1>8, GeometryBegins
  <1>10. /\ Follows(e, h, FALSE, <<>>, more)
         /\ d = decodeSeriesSegment(series, e, Level(h.type))
         /\ words \in Seq(Tokens) /\ words # <<>>
         /\ Len(more) \in Nat /\ Len(words) \in Nat /\ Len(more) + 1 <= Len(words)
    <2>1. h.type # "POINT"
      BY <1>4
    <2> QED BY <1>9, <2>1, Zenon DEF Starts
  <1>11. Len(more) <= n + 1
    BY ONLY <1>10, Len(words) <= n + 2, n \in Nat
  <1>12. level \in -1 .. 2 /\ Level(h.type) = level
    BY <1>4, Levels
  <1>13. /\ members \in Seq(Els(level, Dims(h), k)) /\ SomeOf(level, members) = FALSE
         /\ GetsOf(level, members) = FlattenSeq(KeptOf(members))
    BY DEF Els, SomeOf, GetsOf
  <1> HIDE DEF level
  <1>14. Done(decodeSeriesSegment(series, e, level),
              HeadCells(Settled(h, SomeOf(level, members))) \o (<<Len(members)>> \o GetsOf(level, members)), rest)
    BY <1>4, <1>7, <1>10, <1>11, <1>12, <1>13, SeriesFollows
  <1>15. Settled(h, FALSE) = ShownHead(h)
    BY DEF Settled
  <1> QED BY <1>3, <1>10, <1>12, <1>13, <1>14, <1>15, Zenon DEF c

\* A call of the reader, where the text of a geometry is.
InnerFollows(series, y, rest, words, leaveOpen) ==
    geomDecodeWKTInner(series, words, leaveOpen) = Outcome("none", y.kept, Len(y.text), 1)

\* A geometry is read where its text is, to the end of the text or to that of the geometry.
LEMMA InnerComplete ==
    ASSUME NEW series, NEW n \in Nat, CompleteSeries(series, n), NEW k \in Nat, NEW y \in Trees[k],
           NEW rest \in Seq(Tokens), NEW words, words = Joint(y.text, rest), Len(words) <= n + 2,
           NEW leaveOpen, leaveOpen \/ rest = <<>>
    PROVE  InnerFollows(series, y, rest, words, leaveOpen)
  <1> DEFINE d == geomDecodeGeometry(series, NewContext(words))
  <1>1. Done(d, y.kept, rest) /\ words \in Seq(Tokens) /\ words # <<>>
    <2>1. PICK j \in Nat : k = j + 1
      <3>1. k # 0
        BY TreeCases
      <3>2. k - 1 \in Nat /\ k = (k - 1) + 1
        BY <3>1
      <3> QED BY <3>2
    <2>2. y \in Trees[j + 1]
      BY <2>1
    <2>3. \/ \E h \in LeafHeads : \E body \in Bodies(h) : y = Leaf(h, body)
          \/ \E h \in CollectionHeads : \E members \in Seq(Trees[j]) : y = Collection(h, members)
      BY <2>2, TreeCases
    <2>4. CASE \E h \in LeafHeads : \E body \in Bodies(h) : y = Leaf(h, body)
      BY <2>4, LeafFollows
    <2>5. CASE \E h \in CollectionHeads : \E members \in Seq(Trees[j]) : y = Collection(h, members)
      BY <2>5, CollectionFollows
    <2> QED BY <2>3, <2>4, <2>5
  <1> HIDE DEF d
  <1>2. geomDecodeWKTInner(series, words, leaveOpen) = Returned(d, words, leaveOpen)
    BY <1>1, Zenon DEF geomDecodeWKTInner, d
  <1>3. d.err = "none" /\ d.g = y.kept /\ d.p = rest /\ d.heap = 1
    BY <1>1, Zenon DEF Done
  <1>4. Returned(d, words, leaveOpen) = Outcome("none", d.g, Len(words) - Len(d.p), d.heap)
    BY <1>3, Zenon DEF Returned
  <1>5. Len(words) - Len(rest) = Len(y.text)
    <2>1. y.text \in Seq(Tokens)
      BY TreeForm DEF Form, Shaped
    <2>2. Len(words) = Len(y.text) + Len(rest) /\ Len(y.text) \in Nat /\ Len(rest) \in Nat
      BY <2>1, JointSeq
    <2> QED BY ONLY <2>2
  <1> QED BY <1>2, <1>3, <1>4, <1>5, Zenon DEF InnerFollows

\* A text is skipped.
LEMMA SkippedText ==
    ASSUME NEW h, NEW some, NEW cells, NEW a \in Seq(Tokens), NEW rest \in Seq(Tokens),
           NEW c, Follows(c, h, some, cells, Joint(a, rest))
    PROVE  Follows(Skip(c, Len(a)), h, some, cells, rest)
  <1> DEFINE n == Len(a)
             d == Skip(c, n)
             p == Joint(a, rest)
  <1>1. /\ Reading(c, h, some, cells, p) /\ (~some => c.foundZ = FALSE /\ c.foundM = FALSE)
        /\ c \in Context /\ c.p = p
    BY Zenon DEF Follows, Reading
  <1>2. n \in Nat
    OBVIOUS
  <1>3. IsJoint(p, a, rest, Tokens)
    BY TextAhead
  <1> HIDE DEF p
  <1>4. SubSeq(p, n + 1, Len(p)) = rest
    BY <1>3 DEF IsJoint
  <1> HIDE DEF n
  <1>5. /\ d \in Context /\ d.p = SubSeq(c.p, n + 1, Len(c.p)) /\ d.err = c.err
        /\ SameBuffer(c, d) /\ SameWords(c, d) /\ SameNumbers(c, d)
    BY <1>1, <1>2, Skipped
  <1> HIDE DEF d
  <1>6. d.p = rest
    BY <1>1, <1>4, <1>5
  <1>7. Reading(d, h, some, cells, d.p)
    BY <1>1, <1>5, ReadingStays
  <1>8. ~some => d.foundZ = FALSE /\ d.foundM = FALSE
    BY <1>1, <1>5, Zenon DEF SameNumbers
  <1>9. Follows(d, h, some, cells, rest)
    BY <1>6, <1>7, <1>8, Zenon DEF Follows
  <1> QED BY <1>9 DEF d, n

\* A block that is taken and freed.
LEMMA HeapSame ==
    ASSUME NEW c \in Context, c.heap = 1
    PROVE  [c EXCEPT !.heap = @ + 1 - 1] = c
  BY DEF Context

\* A geometry of a collection is read.
LEMMA MemberFollows ==
    ASSUME NEW series, NEW n \in Nat, CompleteSeries(series, n), NEW h \in Heads, NEW k \in Nat,
           NEW some \in BOOLEAN, NEW y \in Trees[k], NEW cells \in Seq(Int), NEW rest \in Seq(Tokens),
           NEW c, Follows(c, h, some, cells, Joint(y.text, rest)), Len(c.p) <= n + 1
    PROVE  Follows(TakeMember(c, geomDecodeWKTInner(series, c.p, TRUE)), h, some, Joint(cells, y.kept), rest)
  <1> DEFINE member == geomDecodeWKTInner(series, c.p, TRUE)
             l == Len(y.text)
             a == Skip(c, l)
             b == Grow(a, y.kept)
             words == c.p
  <1>1. y.text \in Seq(Tokens) /\ y.kept \in Seq(Int)
    BY TreeForm DEF Form, Shaped
  <1>2. words = Joint(y.text, rest) /\ c.heap = 1 /\ c \in Context
    BY Zenon DEF Follows, Reading
  <1>3. Len(words) <= n + 2
    <2>1. Len(words) \in Nat
      BY <1>2, ContextFields
    <2> DEFINE m == Len(words)
    <2>2. m \in Nat /\ m <= n + 1
      BY <2>1
    <2> HIDE DEF m
    <2>3. m <= n + 2
      BY ONLY <2>2, n \in Nat
    <2> QED BY <2>3 DEF m
  <1> HIDE DEF words
  <1>4. InnerFollows(series, y, rest, words, TRUE)
    BY <1>2, <1>3, InnerComplete
  <1>5. member = Outcome("none", y.kept, l, 1)
    BY <1>4, Zenon DEF InnerFollows, words
  <1> HIDE DEF member
  <1>6. member.err = "none" /\ member.g = y.kept /\ member.read = l /\ member.heap = 1
    BY <1>5, Zenon DEF Outcome
  <1>7. TakeMember(c, member) = [b EXCEPT !.heap = @ + 1 - 1]
    <2>1. TakeMember(c, member) = [Grow(Skip(c, member.read), member.g) EXCEPT !.heap = @ + member.heap - 1]
      BY <1>6, Zenon DEF TakeMember
    <2> QED BY <1>6, <2>1
  <1>8. Follows(a, h, some, cells, rest)
    BY <1>1, SkippedText
  <1> HIDE DEF a
  <1>9. Follows(b, h, some, Joint(cells, y.kept), rest)
    BY <1>1, <1>8, GrownFollows
  <1> HIDE DEF b
  <1>10. b \in Context /\ b.heap = 1
    BY <1>9, Zenon DEF Follows, Reading
  <1>11. [b EXCEPT !.heap = @ + 1 - 1] = b
    BY <1>10, HeapSame
  <1> QED BY <1>7, <1>9, <1>11 DEF member

\* What may follow an element.
Stops(rest) == rest \in Seq(Tokens) /\ Len(rest) >= 1 /\ rest[1] \in {")", ","}

\* The reader is behind an element.
ElementDone(d, h, level, some, y, cells, rest) ==
    Follows(d, h, some \/ Some(level, y), Joint(cells, Gets(level, y)), rest)

\* The reader of an element, where the text of one is.
LEMMA ElementFollows ==
    ASSUME NEW series, NEW n \in Nat, CompleteSeries(series, n),
           NEW h \in Heads, NEW level \in -1 .. 2, NEW k \in Nat, NEW some \in BOOLEAN,
           NEW y \in Els(level, Dims(h), k), NEW cells \in Seq(Int),
           NEW rest, Stops(rest),
           NEW c, Follows(c, h, some, cells, Joint(y.text, rest)), Len(c.p) <= n + 1
    PROVE  ElementDone(DecodeElement(series, c, level), h, level, some, y, cells, rest)
  <1> DEFINE d == DecodeElement(series, c, level)
  <1>0. rest \in Seq(Tokens) /\ Len(rest) >= 1 /\ rest[1] \in {")", ","}
    BY Zenon DEF Stops
  <1>1. Dims(h) \in 2 .. 4 /\ Dims(h) \in Nat
    BY HeadDims
  <1>2. d = CASE level < 0 -> TakeMember(c, geomDecodeWKTInner(series, c.p, TRUE))
              [] level = 0 -> Then(decodeNumbers(c), appendCoord)
              [] OTHER -> decodeSeriesSegment(series, c, level - 1)
    BY Zenon DEF DecodeElement
  <1> HIDE DEF d
  <1>3. CASE level = -1
    <2>0. level < 0 /\ level # 0
      BY ONLY <1>3
    <2>1. d = TakeMember(c, geomDecodeWKTInner(series, c.p, TRUE))
      BY <1>2, <2>0, Zenon
    <2>2. y \in Trees[k]
      BY <1>3, Zenon DEF Els
    <2>3. Gets(level, y) = y.kept /\ Some(level, y) = FALSE
      BY <1>3, Zenon DEF Gets, Some
    <2>4. Follows(TakeMember(c, geomDecodeWKTInner(series, c.p, TRUE)), h, some, Joint(cells, y.kept), rest)
      BY <1>0, <2>2, MemberFollows
    <2>5. (some \/ Some(level, y)) = some
      BY <2>3
    <2> QED BY <2>1, <2>3, <2>4, <2>5, Zenon DEF d, ElementDone
  <1>4. CASE level = 0
    <2>0. level # -1 /\ ~(level < 0)
      BY ONLY <1>4
    <2>1. d = Then(decodeNumbers(c), appendCoord)
      BY <1>2, <1>4, <2>0, Zenon
    <2>2. y \in Elements(0, Dims(h))
      BY <1>4, <2>0, Zenon DEF Els
    <2>3. PICK s \in [1 .. Dims(h) -> Digit] : y = CoordinatePiece(s)
      <3>1. y \in Coordinates(Dims(h))
        BY <2>2, ElementsBelow, Zenon
      <3> QED BY <3>1, Zenon DEF Coordinates
    <2>4. y.text = Shown(s) /\ y.cells = s /\ y.some = TRUE
      BY <2>3, Zenon DEF CoordinatePiece
    <2> DEFINE b == decodeNumbers(c)
    <2>5. Follows(c, h, some, cells, Joint(Shown(s), rest))
      BY <2>4
    <2>6. Ready(b, h, s, some, cells, rest)
      BY <1>0, <2>5, NumbersTaken
    <2> HIDE DEF b
    <2>7. Follows(appendCoord(b), h, TRUE, Joint(cells, s), rest)
      BY <1>0, <2>6, CoordPut
    <2>8. d = appendCoord(b)
      <3>1. b.err = "none"
        BY <2>6, Zenon DEF Ready, Reading
      <3> QED BY <2>1, <3>1, Zenon DEF Then, b
    <2>9. Gets(level, y) = s /\ Some(level, y) = TRUE
      BY <2>0, <2>4, Zenon DEF Gets, Some
    <2>10. (some \/ Some(level, y)) = TRUE
      BY <2>9
    <2> QED BY <2>7, <2>8, <2>9, <2>10, Zenon DEF d, ElementDone
  <1>5. CASE level \in 1 .. 2
    <2> DEFINE below == level - 1
               S == Elements(below, Dims(h))
    <2>0. /\ below \in 0 .. 1 /\ below + 1 = level /\ below \in -1 .. 2 /\ below # -1 /\ level # -1 /\ below \in 0 .. 2
          /\ ~(level < 0) /\ level # 0
      BY ONLY <1>5
    <2>1. d = decodeSeriesSegment(series, c, below)
      BY <1>2, <2>0, Zenon
    <2> HIDE DEF below
    <2>2. y \in Elements(level, Dims(h))
      BY <2>0, Zenon DEF Els
    <2>3. y \in SeriesOf(S)
      <3>1. Elements(below + 1, Dims(h)) = SeriesOf(Elements(below, Dims(h)))
        BY <2>0, ElementsBelow
      <3> QED BY <2>0, <2>2, <3>1
    <2>4. PICK els \in Seq(S) : y = SeriesPiece(els)
      BY <2>3 DEF SeriesOf
    <2>5. /\ y.cells = <<Len(els)>> \o FlattenSeq(CellsOf(els)) /\ y.text = ListText(els)
          /\ y.some = (\E i \in 1 .. Len(els) : els[i].some)
      BY <2>4, Zenon DEF SeriesPiece
    <2>6. els \in Seq(Els(below, Dims(h), k))
      BY <2>0, <2>4 DEF Els
    <2>7. Follows(c, h, some, cells, Joint(ListText(els), rest))
      BY <2>5
    <2>8. rest \in Seq(Tokens)
      BY <1>0
    <2>9. Follows(decodeSeriesSegment(series, c, below), h, some \/ SomeOf(below, els),
                  Joint(cells, Joint(<<Len(els)>>, GetsOf(below, els))), rest)
      BY ONLY <2>0, <2>6, <2>7, CompleteSeries(series, n), n \in Nat, h \in Heads, k \in Nat, some \in BOOLEAN,
              cells \in Seq(Int), <2>8, Len(c.p) <= n + 1, SegmentFollows
    <2>10. Gets(level, y) = Joint(<<Len(els)>>, GetsOf(below, els)) /\ Some(level, y) = SomeOf(below, els)
      BY <2>0, <2>5, Zenon DEF Gets, GetsOf, Some, SomeOf, Joint
    <2> QED BY <2>1, <2>9, <2>10, Zenon DEF d, ElementDone
  <1>6. level = -1 \/ level = 0 \/ level \in 1 .. 2
    BY ONLY level \in -1 .. 2
  <1> QED BY <1>3, <1>4, <1>5, <1>6 DEF d

\* An element is added to those of a buffer.
LEMMA FourCells ==
    ASSUME NEW T, NEW a \in Seq(T), NEW b \in Seq(T), NEW c \in Seq(T), NEW d \in Seq(T)
    PROVE  Joint(Joint(a, Joint(b, c)), d) = Joint(a, Joint(b, Joint(c, d)))
  <1>1. Joint(b, c) \in Seq(T)
    BY JointSeq
  <1>2. Joint(Joint(a, Joint(b, c)), d) = Joint(a, Joint(Joint(b, c), d))
    BY <1>1, ThreeTexts
  <1>3. Joint(Joint(b, c), d) = Joint(b, Joint(c, d))
    BY ThreeTexts
  <1> QED BY <1>2, <1>3

\* The loop goes on behind a comma, and ends at a bracket.
LEMMA ElementsGoOn ==
    ASSUME NEW series, NEW c, NEW level, NEW szpos, NEW sz, NEW d, d = DecodeElement(series, c, level), d.err = "none",
           Ahead(d, 1) = ","
    PROVE  SeriesElements(series, c, level, szpos, sz) = series[<<Skip(d, 1), level, szpos, sz + 1>>]
  BY Zenon DEF SeriesElements, Then

\* At a bracket the number of the elements is stored.
LEMMA ElementsEnd ==
    ASSUME NEW series, NEW c, NEW level, NEW szpos, NEW sz, NEW d, d = DecodeElement(series, c, level), d.err = "none",
           Ahead(d, 1) = ")"
    PROVE  SeriesElements(series, c, level, szpos, sz) = CountAtEnd(d, szpos, sz + 1)
  <1>1. SeriesElements(series, c, level, szpos, sz) =
            CASE Ahead(d, 1) = "," -> series[<<Skip(d, 1), level, szpos, sz + 1>>]
              [] Ahead(d, 1) = ")" -> [Skip(d, 1) EXCEPT !.g[szpos] = sz + 1]
              [] OTHER -> Failed(d)
    BY Zenon DEF SeriesElements, Then
  <1>2. "," # ")"
    OBVIOUS
  <1> QED BY <1>1, <1>2, Zenon DEF CountAtEnd

\* An element of a call and what follows it.
Element(c, h, level, k, some, y, zs, pre, got, after, sz) ==
    /\ h \in Heads /\ level \in -1 .. 2 /\ k \in Nat /\ some \in BOOLEAN
    /\ y \in Els(level, Dims(h), k) /\ zs \in Seq(Els(level, Dims(h), k))
    /\ pre \in Seq(Int) /\ got \in Seq(Int) /\ after \in Seq(Tokens) /\ sz \in Nat
    /\ Follows(c, h, some, Joint(pre, Joint(<< 0 >>, got)), Joint(y.text, Joint(After(zs), Joint(Close, after))))

\* What of a call is left behind its first element.
LEMMA FirstElement ==
    ASSUME NEW c, NEW h, NEW level, NEW k, NEW some, NEW els, NEW pre, NEW got, NEW after, NEW sz,
           Called(c, h, level, k, some, els, pre, got, after, sz)
    PROVE  \E y : \E zs : els = Before(y, zs) /\ Len(els) = Len(zs) + 1 /\ Len(zs) \in Nat
                          /\ Element(c, h, level, k, some, y, zs, pre, got, after, sz)
  <1> DEFINE U == Els(level, Dims(h), k)
             close == Joint(Close, after)
  <1>1. /\ h \in Heads /\ level \in -1 .. 2 /\ k \in Nat /\ some \in BOOLEAN
        /\ els \in Seq(U) /\ Len(els) >= 1
        /\ pre \in Seq(Int) /\ got \in Seq(Int) /\ after \in Seq(Tokens) /\ sz \in Nat
        /\ Follows(c, h, some, Joint(pre, Joint(<< 0 >>, got)), Joint(Together(els), close))
    BY Zenon DEF Called
  <1>2. \A x \in U : Shaped(x)
    BY <1>1, HeadDims, ElsParts
  <1> HIDE DEF U, close
  <1>3. PICK y \in U : \E zs \in Seq(U) : els = Before(y, zs) /\ Len(els) = Len(zs) + 1
    BY <1>1, FirstOf
  <1>4. PICK zs \in Seq(U) : els = Before(y, zs) /\ Len(els) = Len(zs) + 1
    BY <1>3
  <1>5. Together(els) = Joint(y.text, After(zs)) /\ y.text \in Seq(Tokens) /\ After(zs) \in Seq(Tokens)
    BY <1>2, <1>4, TextsCons, CommasAre DEF Shaped
  <1>6. close \in Seq(Tokens)
    BY <1>1, CommaText, JointSeq DEF close, Close
  <1>7. Joint(Together(els), close) = Joint(y.text, Joint(After(zs), close))
    BY <1>5, <1>6, ThreeTexts
  <1>8. Follows(c, h, some, Joint(pre, Joint(<< 0 >>, got)), Joint(y.text, Joint(After(zs), close)))
    BY <1>1, <1>7
  <1>9. Element(c, h, level, k, some, y, zs, pre, got, after, sz)
    BY <1>1, <1>8, Zenon DEF Element, U, close
  <1>10. Len(zs) \in Nat
    OBVIOUS
  <1> QED BY <1>4, <1>9, <1>10

\* The last element is read, and its bracket.
LEMMA LastFollows ==
    ASSUME NEW series, NEW n \in Nat, CompleteSeries(series, n),
           NEW c, NEW h, NEW level, NEW k, NEW some, NEW y, NEW zs, NEW pre, NEW got, NEW after, NEW sz,
           Element(c, h, level, k, some, y, zs, pre, got, after, sz), Len(c.p) <= n + 1, zs = <<>>
    PROVE  Returns(SeriesElements(series, c, level, 3 + Len(pre), sz), h, level, some, Before(y, zs), pre, got, after,
                   sz + Len(Before(y, zs)))
  <1> DEFINE rest == Joint(Close, after)
             zeros == << 0 >>
             cells == Joint(pre, Joint(zeros, got))
             d == DecodeElement(series, c, level)
             new == Gets(level, y)
             now == some \/ Some(level, y)
             r == SeriesElements(series, c, level, 3 + Len(pre), sz)
             els == Before(y, zs)
             m == sz + 1
             all == Joint(got, new)
  <1>1. /\ h \in Heads /\ level \in -1 .. 2 /\ k \in Nat /\ some \in BOOLEAN
        /\ y \in Els(level, Dims(h), k) /\ zs \in Seq(Els(level, Dims(h), k))
        /\ pre \in Seq(Int) /\ got \in Seq(Int) /\ after \in Seq(Tokens) /\ sz \in Nat
        /\ Follows(c, h, some, cells, Joint(y.text, Joint(After(zs), rest)))
    BY Zenon DEF Element
  <1>2. rest \in Seq(Tokens) /\ Len(rest) >= 1 /\ rest[1] = ")"
    <2>1. <<>> \in Seq(Tokens)
      OBVIOUS
    <2> QED BY <1>1, <2>1, Bracketed
  <1>3. Joint(After(zs), rest) = rest
    <2> HIDE DEF rest
    <2>1. Joint(<<>>, rest) = rest
      BY <1>2, JointNone
    <2> QED BY <2>1, NoCommas
  <1>4. zeros \in Seq(Int) /\ cells \in Seq(Int)
    <2>1. zeros \in Seq(Int)
      OBVIOUS
    <2> HIDE DEF zeros
    <2>2. Joint(zeros, got) \in Seq(Int)
      BY <1>1, <2>1, JointSeq
    <2>3. cells \in Seq(Int)
      BY <1>1, <2>2, JointSeq
    <2> QED BY <2>1, <2>3
  <1> HIDE DEF rest, zeros, cells
  <1>5. Follows(c, h, some, cells, Joint(y.text, rest))
    BY <1>1, <1>3
  <1>6. rest[1] \in {")", ","}
    BY <1>2
  <1>7. Follows(d, h, now, Joint(cells, new), rest)
    <2>1. Stops(rest)
      BY <1>2, <1>6, Zenon DEF Stops
    <2>2. ElementDone(d, h, level, some, y, cells, rest)
      BY <1>1, <1>4, <1>5, <2>1, ElementFollows
    <2> QED BY <2>2, Zenon DEF ElementDone
  <1> HIDE DEF d
  <1>8. new \in Seq(Int) /\ now \in BOOLEAN
    <2>1. new \in Seq(Int)
      BY <1>1, HeadDims, ElsParts
    <2> QED BY <2>1
  <1> HIDE DEF new, now
  <1>9. Joint(cells, new) = Joint(pre, Joint(zeros, all)) /\ all \in Seq(Int)
    <2>1. Joint(Joint(pre, Joint(zeros, got)), new) = Joint(pre, Joint(zeros, Joint(got, new)))
      BY <1>1, <1>4, <1>8, FourCells
    <2>2. all \in Seq(Int)
      BY <1>1, <1>8, JointSeq
    <2> QED BY <2>1, <2>2 DEF cells
  <1> HIDE DEF all
  <1>10. Follows(d, h, now, Joint(pre, Joint(<< 0 >>, all)), Joint(<<")">>, after))
    BY <1>7, <1>9, Zenon DEF zeros, rest, Close
  <1>11. m \in Nat /\ 0 \in Int
    BY <1>1
  <1>12. Ahead(d, 1) = ")" /\ d.err = "none"
    <2>1. ")" \in Tokens
      BY TokensKnown
    <2>2. Ahead(d, 1) = ")"
      BY <1>1, <1>10, <2>1, Stepped
    <2> QED BY <1>7, <2>2, Zenon DEF Follows, Reading
  <1>13. r = CountAtEnd(d, 3 + Len(pre), m)
    <2>1. d = DecodeElement(series, c, level)
      BY DEF d
    <2> QED BY <1>12, <2>1, ElementsEnd
  <1> HIDE DEF m, r
  <1>14. Follows(CountAtEnd(d, 3 + Len(pre), m), h, now, Joint(pre, Joint(<<m>>, all)), after)
    BY <1>1, <1>8, <1>9, <1>10, <1>11, CountFollows
  <1>15. GetsOf(level, els) = new /\ SomeOf(level, els) = Some(level, y)
    <2>1. GetsOf(level, els) = Joint(new, <<>>) /\ SomeOf(level, els) = (Some(level, y) \/ FALSE)
      <3>1. Dims(h) \in Nat
        BY <1>1, HeadDims
      <3>2. /\ GetsOf(level, els) = Joint(Gets(level, y), GetsOf(level, zs))
            /\ SomeOf(level, els) = (Some(level, y) \/ SomeOf(level, zs))
        BY <1>1, <3>1, GotCons
      <3>3. GetsOf(level, zs) = <<>> /\ SomeOf(level, zs) = FALSE
        BY <1>1, GotNone
      <3> QED BY <3>2, <3>3, Zenon DEF new
    <2>2. Joint(new, <<>>) = new
      BY <1>8, JointNone
    <2>3. (Some(level, y) \/ FALSE) = Some(level, y)
      <3>1. Some(level, y) \in BOOLEAN
        BY Zenon DEF Some
      <3> QED BY <3>1
    <2> QED BY <2>1, <2>2, <2>3
  <1>16. sz + Len(els) = m
    <2>1. Len(els) = 1
      <3> DEFINE U == Els(level, Dims(h), k)
      <3>1. y \in U /\ zs \in Seq(U) /\ Len(zs) = 0
        BY <1>1
      <3> HIDE DEF U, els
      <3>2. Len(Before(y, zs)) = Len(zs) + 1
        BY <3>1, BeforeParts
      <3> QED BY <3>1, <3>2 DEF els
    <2> QED BY <2>1 DEF m
  <1> HIDE DEF els
  <1>17. Follows(r, h, some \/ SomeOf(level, els), Joint(pre, Joint(<<sz + Len(els)>>, Joint(got, GetsOf(level, els)))), after)
    BY <1>13, <1>14, <1>15, <1>16, Zenon DEF now, all
  <1> QED BY <1>17, Zenon DEF Returns, r, els

\* The lengths of what is left, and of what is left behind the next comma.
LEMMA CommaTaken ==
    ASSUME NEW a \in Seq(Tokens), Len(a) >= 1, NEW b \in Seq(Tokens), NEW rest, rest = Joint(Comma, b),
           NEW p, p = Joint(a, rest), NEW n \in Nat, Len(p) <= n + 1
    PROVE  /\ rest \in Seq(Tokens) /\ Len(rest) >= 1 /\ rest[1] = "," /\ "," \in Tokens
           /\ Len(b) <= n
  <1>1. Comma \in Seq(Tokens) /\ Len(Comma) = 1 /\ Comma[1] = "," /\ "," \in Tokens
    BY CommaText, TokensKnown DEF Comma
  <1>2. IsJoint(rest, Comma, b, Tokens)
    BY <1>1, TextAhead
  <1>3. /\ rest \in Seq(Tokens) /\ Len(rest) = Len(Comma) + Len(b) /\ Len(b) \in Nat
        /\ \A i \in 1 .. Len(Comma) : rest[i] = Comma[i]
    BY <1>2 DEF IsJoint
  <1>4. Len(p) = Len(a) + Len(rest) /\ Len(a) \in Nat /\ Len(rest) \in Nat
    BY <1>3, JointSeq
  <1>5. Len(b) <= n /\ Len(rest) >= 1
    <2> DEFINE la == Len(a)
               lb == Len(b)
               lp == Len(p)
               lr == Len(rest)
    <2>1. la \in Nat /\ lb \in Nat /\ la >= 1 /\ lr = 1 + lb /\ lp = la + lr /\ lp <= n + 1
      BY <1>1, <1>3, <1>4, Zenon
    <2> HIDE DEF la, lb, lp, lr
    <2>2. lb <= n /\ lr >= 1
      BY ONLY <2>1, n \in Nat
    <2> QED BY <2>2 DEF lb, lr
  <1>6. rest[1] = ","
    <2>1. 1 \in 1 .. Len(Comma)
      <3> DEFINE l == Len(Comma)
      <3>1. l = 1
        BY <1>1
      <3> HIDE DEF l
      <3>2. 1 \in 1 .. l
        BY ONLY <3>1
      <3> QED BY <3>2 DEF l
    <2>2. rest[1] = Comma[1]
      BY <1>3, <2>1, Zenon
    <2> QED BY <1>1, <2>2, Zenon
  <1> QED BY <1>1, <1>3, <1>5, <1>6, Zenon

\* The reader of the elements has read one, y, and is before the comma that the others, zs, follow.
AtNext(d, n, h, level, k, some, y, zs, pre, got, after, sz) ==
    /\ d.err = "none" /\ Ahead(d, 1) = "," /\ Len(Skip(d, 1).p) <= n
    /\ Called(Skip(d, 1), h, level, k, some \/ Some(level, y), zs, pre, Joint(got, Gets(level, y)), after, sz + 1)

\* An element is read, and a comma: the next one begins here.
LEMMA NextCalled ==
    ASSUME NEW series, NEW n \in Nat, CompleteSeries(series, n),
           NEW c, NEW h, NEW level, NEW k, NEW some, NEW y, NEW zs, NEW pre, NEW got, NEW after, NEW sz,
           Element(c, h, level, k, some, y, zs, pre, got, after, sz), Len(c.p) <= n + 1, Len(zs) >= 1,
           NEW d, d = DecodeElement(series, c, level)
    PROVE  AtNext(d, n, h, level, k, some, y, zs, pre, got, after, sz)
  <1> DEFINE U == Els(level, Dims(h), k)
             close == Joint(Close, after)
             b == Joint(Together(zs), close)
             rest == Joint(Comma, b)
             zeros == << 0 >>
             cells == Joint(pre, Joint(zeros, got))
             new == Gets(level, y)
             now == some \/ Some(level, y)
             m == sz + 1
             all == Joint(got, new)
             e == Skip(d, 1)
  <1>1. /\ h \in Heads /\ level \in -1 .. 2 /\ k \in Nat /\ some \in BOOLEAN
        /\ y \in U /\ zs \in Seq(U)
        /\ pre \in Seq(Int) /\ got \in Seq(Int) /\ after \in Seq(Tokens) /\ sz \in Nat
        /\ Follows(c, h, some, cells, Joint(y.text, Joint(After(zs), close)))
    BY Zenon DEF Element
  <1>2. Dims(h) \in Nat /\ Dims(h) \in 2 .. 4
    BY <1>1, HeadDims
  <1>3. \A x \in U : Shaped(x) /\ x.text \in Seq(Tokens) /\ Gets(level, x) \in Seq(Int)
    BY <1>1, <1>2, ElsParts
  <1>4. Len(y.text) >= 1
    BY <1>1, <1>2, FirstToken
  <1> HIDE DEF U
  <1>5. close \in Seq(Tokens) /\ b \in Seq(Tokens)
    BY <1>1, <1>3, ListTextIs
  <1>6. Joint(After(zs), close) = rest
    <2>1. PICK v \in U : \E vs \in Seq(U) : zs = Before(v, vs) /\ Len(zs) = Len(vs) + 1
      BY <1>1, FirstOf
    <2>2. PICK vs \in Seq(U) : zs = Before(v, vs)
      BY <2>1
    <2>3. After(zs) = Joint(Comma, Together(zs))
      BY <1>3, <2>2, CommasCons
    <2>4. Together(zs) \in Seq(Tokens) /\ Comma \in Seq(Tokens)
      BY <1>1, <1>3, ListTextIs, CommaText DEF Comma
    <2> HIDE DEF close
    <2>5. Joint(Joint(Comma, Together(zs)), close) = Joint(Comma, Joint(Together(zs), close))
      BY <1>5, <2>4, ThreeTexts
    <2> QED BY <2>3, <2>5
  <1> HIDE DEF b, close
  <1>7. Follows(c, h, some, cells, Joint(y.text, rest))
    BY <1>1, <1>6
  <1>8. c.p = Joint(y.text, rest)
    BY <1>7, Zenon DEF Follows, Reading
  <1>9. /\ rest \in Seq(Tokens) /\ Len(rest) >= 1 /\ rest[1] = "," /\ "," \in Tokens
        /\ Len(b) <= n
    <2> DEFINE a == y.text
               p == c.p
    <2>1. a \in Seq(Tokens) /\ Len(a) >= 1 /\ p = Joint(a, rest) /\ Len(p) <= n + 1
      BY <1>1, <1>3, <1>4, <1>8
    <2> HIDE DEF a, p
    <2> QED BY <1>5, <2>1, CommaTaken
  <1>10. zeros \in Seq(Int) /\ cells \in Seq(Int)
    <2>1. zeros \in Seq(Int)
      OBVIOUS
    <2> HIDE DEF zeros
    <2>2. Joint(zeros, got) \in Seq(Int)
      BY <1>1, <2>1, JointSeq
    <2>3. cells \in Seq(Int)
      BY <1>1, <2>2, JointSeq
    <2> QED BY <2>1, <2>3
  <1> HIDE DEF rest, zeros, cells
  <1>11. Stops(rest)
    <2>1. rest[1] \in {")", ","}
      BY <1>9
    <2> QED BY <1>9, <2>1, Zenon DEF Stops
  <1>12. Follows(d, h, now, Joint(cells, new), rest)
    <2>1. y \in Els(level, Dims(h), k)
      BY <1>1 DEF U
    <2>2. ElementDone(DecodeElement(series, c, level), h, level, some, y, cells, rest)
      BY <1>1, <1>7, <1>10, <1>11, <2>1, ElementFollows
    <2> QED BY <2>2, Zenon DEF ElementDone
  <1>13. new \in Seq(Int) /\ now \in BOOLEAN
    <2>1. new \in Seq(Int)
      BY <1>1, <1>3
    <2> QED BY <2>1
  <1> HIDE DEF new, now
  <1>14. Joint(cells, new) = Joint(pre, Joint(zeros, all)) /\ all \in Seq(Int)
    <2>1. Joint(Joint(pre, Joint(zeros, got)), new) = Joint(pre, Joint(zeros, Joint(got, new)))
      BY <1>1, <1>10, <1>13, FourCells
    <2>2. all \in Seq(Int)
      BY <1>1, <1>13, JointSeq
    <2> QED BY <2>1, <2>2 DEF cells
  <1> HIDE DEF all
  <1>15. Follows(d, h, now, Joint(pre, Joint(zeros, all)), Joint(<<",">>, b))
    BY <1>12, <1>14, Zenon DEF rest, Comma
  <1>16. Follows(e, h, now, Joint(pre, Joint(zeros, all)), b) /\ Ahead(d, 1) = ","
    <2> DEFINE filled == Joint(pre, Joint(zeros, all))
    <2>1. Follows(d, h, now, filled, Joint(<<",">>, b))
      BY <1>15
    <2> HIDE DEF filled
    <2> DEFINE comma == ","
    <2>2. comma \in Tokens /\ Follows(d, h, now, filled, Joint(<<comma>>, b))
      BY <1>9, <2>1
    <2> HIDE DEF comma
    <2>3. Follows(Skip(d, 1), h, now, filled, b) /\ Ahead(d, 1) = comma
      BY <1>5, <2>2, Stepped
    <2> QED BY <2>3, Zenon DEF filled, comma
  <1>17. d.err = "none"
    BY <1>12, Zenon DEF Follows, Reading
  <1> HIDE DEF e
  <1>18. Len(e.p) <= n
    <2>1. e.p = b
      BY <1>16, Zenon DEF Follows, Reading
    <2> QED BY <1>9, <2>1
  <1>19. m \in Nat
    BY <1>1
  <1> HIDE DEF m
  <1>20. Called(e, h, level, k, now, zs, pre, all, after, m)
    BY <1>1, <1>13, <1>14, <1>16, <1>19, Zenon DEF Called, U, zeros, b, close
  <1> QED BY <1>16, <1>17, <1>18, <1>20, Zenon DEF AtNext, e, m, now, all, new

\* An element that is not the last is read, and those behind it.
LEMMA MoreFollows ==
    ASSUME NEW series, NEW n \in Nat, CompleteSeries(series, n),
           NEW c, NEW h, NEW level, NEW k, NEW some, NEW y, NEW zs, NEW pre, NEW got, NEW after, NEW sz,
           Element(c, h, level, k, some, y, zs, pre, got, after, sz), Len(c.p) <= n + 1, Len(zs) >= 1
    PROVE  Returns(SeriesElements(series, c, level, 3 + Len(pre), sz), h, level, some, Before(y, zs), pre, got, after,
                   sz + Len(Before(y, zs)))
  <1> DEFINE d == DecodeElement(series, c, level)
             new == Gets(level, y)
             now == some \/ Some(level, y)
             r == SeriesElements(series, c, level, 3 + Len(pre), sz)
             els == Before(y, zs)
             m == sz + 1
             all == Joint(got, new)
             e == Skip(d, 1)
             more == GetsOf(level, zs)
  <1>1. /\ h \in Heads /\ level \in -1 .. 2 /\ k \in Nat /\ some \in BOOLEAN
        /\ y \in Els(level, Dims(h), k) /\ zs \in Seq(Els(level, Dims(h), k)) /\ got \in Seq(Int) /\ sz \in Nat
    BY Zenon DEF Element
  <1>0. d = DecodeElement(series, c, level)
    OBVIOUS
  <1> HIDE DEF d
  <1>2. /\ d.err = "none" /\ Ahead(d, 1) = "," /\ Len(e.p) <= n
        /\ Called(e, h, level, k, now, zs, pre, all, after, m)
    <2>1. AtNext(d, n, h, level, k, some, y, zs, pre, got, after, sz)
      BY <1>0, NextCalled
    <2> QED BY <2>1, Zenon DEF AtNext
  <1> HIDE DEF e, now, all, m
  <1>3. Returns(series[<<e, level, 3 + Len(pre), m>>], h, level, now, zs, pre, all, after, m + Len(zs))
    BY <1>2, Zenon DEF CompleteSeries
  <1>4. r = series[<<e, level, 3 + Len(pre), m>>]
    <2> DEFINE szpos == 3 + Len(pre)
    <2> HIDE DEF szpos
    <2>1. d.err = "none" /\ Ahead(d, 1) = ","
      BY <1>2
    <2>2. SeriesElements(series, c, level, szpos, sz) = series[<<Skip(d, 1), level, szpos, sz + 1>>]
      BY <1>0, <2>1, Zenon DEF SeriesElements, Then
    <2>3. r = series[<<Skip(d, 1), level, 3 + Len(pre), sz + 1>>]
      BY <2>2 DEF szpos
    <2> QED BY <2>3, Zenon DEF e, m
  <1> HIDE DEF r
  <1>5. Follows(r, h, now \/ SomeOf(level, zs), Joint(pre, Joint(<<m + Len(zs)>>, Joint(all, more))), after)
    BY <1>3, <1>4, Zenon DEF Returns
  <1>6. /\ GetsOf(level, els) = Joint(new, more) /\ more \in Seq(Int)
        /\ SomeOf(level, els) = (Some(level, y) \/ SomeOf(level, zs)) /\ new \in Seq(Int)
    <2>1. Dims(h) \in Nat
      BY <1>1, HeadDims
    <2> QED BY <1>1, <2>1, GotCons, ElsParts
  <1> HIDE DEF new, more
  <1>7. Joint(all, more) = Joint(got, GetsOf(level, els))
    <2>1. Joint(Joint(got, new), more) = Joint(got, Joint(new, more))
      BY <1>1, <1>6, ThreeTexts
    <2> QED BY <1>6, <2>1 DEF all
  <1>8. (now \/ SomeOf(level, zs)) = (some \/ SomeOf(level, els))
    BY <1>6, Zenon DEF now
  <1>9. m + Len(zs) = sz + Len(els)
    <2> DEFINE U == Els(level, Dims(h), k)
    <2>1. y \in U /\ zs \in Seq(U) /\ Len(zs) \in Nat
      BY <1>1
    <2> HIDE DEF U, els
    <2>2. Len(Before(y, zs)) = Len(zs) + 1
      BY <2>1, BeforeParts
    <2>3. Len(els) = Len(zs) + 1
      BY <2>2 DEF els
    <2>4. m = sz + 1
      BY DEF m
    <2> QED BY ONLY <1>1, <2>1, <2>3, <2>4
  <1> HIDE DEF els
  <1>10. Follows(r, h, some \/ SomeOf(level, els), Joint(pre, Joint(<<sz + Len(els)>>, Joint(got, GetsOf(level, els)))), after)
    BY <1>5, <1>7, <1>8, <1>9, Zenon
  <1> QED BY <1>10, Zenon DEF Returns, r, els

\* One more call of the reader of series reads one more token.
LEMMA SeriesGrows ==
    ASSUME NEW n \in Nat, NEW series, CompleteSeries(series, n), NEW more, 
           \A c \in Context : \A level \in -1 .. 2 : \A szpos \in Nat : \A sz \in Nat :
               more[<<c, level, szpos, sz>>] = SeriesElements(series, c, level, szpos, sz)
    PROVE  CompleteSeries(more, n + 1)
  <1> DEFINE k0 == n + 1
  <1>1. ASSUME NEW c, NEW h, NEW level, NEW k, NEW some, NEW els, NEW pre, NEW got, NEW after, NEW sz,
               Called(c, h, level, k, some, els, pre, got, after, sz), Len(c.p) <= n + 1
        PROVE  Returns(more[<<c, level, 3 + Len(pre), sz>>], h, level, some, els, pre, got, after, sz + Len(els))
    <2>1. PICK y : \E zs : els = Before(y, zs) /\ Len(els) = Len(zs) + 1 /\ Len(zs) \in Nat
                           /\ Element(c, h, level, k, some, y, zs, pre, got, after, sz)
      BY <1>1, FirstElement
    <2>2. PICK zs : els = Before(y, zs) /\ Len(els) = Len(zs) + 1 /\ Len(zs) \in Nat
                    /\ Element(c, h, level, k, some, y, zs, pre, got, after, sz)
      BY <2>1
    <2> DEFINE szpos == 3 + Len(pre)
    <2>3. c \in Context /\ level \in -1 .. 2 /\ pre \in Seq(Int) /\ sz \in Nat
      BY <1>1, Zenon DEF Called, Follows, Reading
    <2>4. szpos \in Nat
      BY <2>3
    <2> HIDE DEF szpos
    <2>5. more[<<c, level, szpos, sz>>] = SeriesElements(series, c, level, szpos, sz)
      BY <2>3, <2>4
    <2>6. Returns(SeriesElements(series, c, level, 3 + Len(pre), sz), h, level, some, Before(y, zs), pre, got, after,
                  sz + Len(Before(y, zs)))
      <3>1. CASE zs = <<>>
        BY <1>1, <2>2, <3>1, LastFollows
      <3>2. CASE zs # <<>>
        <4>1. Len(zs) >= 1
          <5>1. zs \in Seq(Els(level, Dims(h), k))
            BY <2>2, Zenon DEF Element
          <5>2. Len(zs) # 0
            BY <3>2, <5>1
          <5> DEFINE l == Len(zs)
          <5>3. l \in Nat /\ l # 0
            BY <2>2, <5>2
          <5> HIDE DEF l
          <5>4. l >= 1
            BY ONLY <5>3
          <5> QED BY <5>4 DEF l
        <4> QED BY <1>1, <2>2, <4>1, MoreFollows
      <3> QED BY <3>1, <3>2
    <2> QED BY <2>2, <2>5, <2>6, Zenon DEF szpos
  <1>2. ASSUME NEW c, NEW h, NEW level, NEW k, NEW some, NEW els, NEW pre, NEW got, NEW after, NEW sz,
               Called(c, h, level, k, some, els, pre, got, after, sz), Len(c.p) <= k0
        PROVE  Returns(more[<<c, level, 3 + Len(pre), sz>>], h, level, some, els, pre, got, after, sz + Len(els))
    BY <1>1, <1>2
  <1> HIDE DEF k0
  <1>3. CompleteSeries(more, k0)
    <2> SUFFICES ASSUME NEW c, NEW h, NEW level, NEW k, NEW some, NEW els, NEW pre, NEW got, NEW after, NEW sz,
                        Called(c, h, level, k, some, els, pre, got, after, sz), Len(c.p) <= k0
                 PROVE  Returns(more[<<c, level, 3 + Len(pre), sz>>], h, level, some, els, pre, got, after, sz + Len(els))
      BY DEF CompleteSeries
    <2> QED BY <1>2, Zenon
  <1> QED BY <1>3 DEF k0

\* No element is without a token, and a bracket follows.
LEMMA CalledLength ==
    ASSUME NEW c, NEW h, NEW level, NEW k, NEW some, NEW els, NEW pre, NEW got, NEW after, NEW sz,
           Called(c, h, level, k, some, els, pre, got, after, sz)
    PROVE  ~(Len(c.p) <= 0)
  <1> DEFINE U == Els(level, Dims(h), k)
             ts == Joint(Together(els), Joint(Close, after))
  <1>1. /\ h \in Heads /\ level \in -1 .. 2 /\ k \in Nat /\ els \in Seq(U) /\ after \in Seq(Tokens)
        /\ c.p = ts
    BY Zenon DEF Called, Follows, Reading
  <1>2. \A x \in U : Shaped(x)
    BY <1>1, HeadDims, ElsParts
  <1>3. ts \in Seq(Tokens) /\ Len(ts) >= 1
    <2> HIDE DEF U
    <2> QED BY <1>1, <1>2, ListTextIs
  <1> HIDE DEF ts
  <1>4. Len(c.p) >= 1 /\ Len(c.p) \in Nat
    BY <1>1, <1>3
  <1> DEFINE l == Len(c.p)
  <1> HIDE DEF l
  <1>5. l >= 1 /\ l \in Nat
    BY <1>4 DEF l
  <1>6. ~(l <= 0)
    BY ONLY <1>5
  <1> QED BY <1>6 DEF l

\* The readers of series read what the texts of geometries have, however deep they call themselves.
LEMMA SeriesComplete ==
    ASSUME NEW n \in Nat
    PROVE  CompleteSeries(Series[n], n)
  <1> DEFINE S == {k \in Nat : CompleteSeries(Series[k], k)}
  <1>1. 0 \in S
    <2>1. CompleteSeries(Series[0], 0)
      <3> SUFFICES ASSUME NEW c, NEW h, NEW level, NEW k, NEW some, NEW els, NEW pre, NEW got, NEW after, NEW sz,
                          Called(c, h, level, k, some, els, pre, got, after, sz), Len(c.p) <= 0
                   PROVE  FALSE
        BY DEF CompleteSeries
      <3> QED BY CalledLength, Zenon
    <2> QED BY <2>1
  <1>2. ASSUME NEW k \in Nat, k \in S PROVE k + 1 \in S
    <2> DEFINE series == Series[k]
               more == Series[k + 1]
    <2>1. CompleteSeries(series, k)
      BY <1>2
    <2>2. \A c \in Context : \A level \in -1 .. 2 : \A szpos \in Nat : \A sz \in Nat :
              more[<<c, level, szpos, sz>>] = SeriesElements(series, c, level, szpos, sz)
      <3> SUFFICES ASSUME NEW c \in Context, NEW level \in -1 .. 2, NEW szpos \in Nat, NEW sz \in Nat
                   PROVE  more[<<c, level, szpos, sz>>] = SeriesElements(series, c, level, szpos, sz)
        OBVIOUS
      <3> QED BY SeriesCalls
    <2> HIDE DEF series, more
    <2>3. CompleteSeries(more, k + 1)
      BY <2>1, <2>2, SeriesGrows
    <2>4. k + 1 \in Nat
      OBVIOUS
    <2> QED BY <2>3, <2>4 DEF more
  <1> HIDE DEF S
  <1>3. Nat \subseteq S
    BY <1>1, <1>2, NatSubset
  <1> QED BY <1>3 DEF S

\* The reader of WKT takes the text of every geometry, to the end, and keeps what the text says.
LEMMA WktComplete ==
    ASSUME NEW d \in Nat, NEW x \in Trees[d]
    PROVE  geomDecodeWKT(x.text) = Outcome("none", x.kept, Len(x.text), 1)
  <1> DEFINE words == x.text
             n == Len(words)
             series == Series[n]
             none == <<>>
             no == FALSE
  <1>1. words \in Seq(Tokens)
    BY TreeForm DEF Form, Shaped
  <1>2. n \in Nat /\ Len(words) <= n + 2
    BY <1>1
  <1>3. words = Joint(x.text, none)
    <2>1. Joint(words, <<>>) = words
      <3> HIDE DEF words
      <3> QED BY <1>1, JointNone
    <2> QED BY <2>1
  <1>4. CompleteSeries(series, n)
    <2> HIDE DEF n
    <2> QED BY <1>2, SeriesComplete
  <1>5. none \in Seq(Tokens) /\ (no \/ none = <<>>)
    OBVIOUS
  <1>6. geomDecodeWKT(words) = geomDecodeWKTInner(series, words, no)
    BY Zenon DEF geomDecodeWKT
  <1> HIDE DEF words, n, series, none, no
  <1>7. InnerFollows(series, x, none, words, no)
    BY <1>2, <1>3, <1>4, <1>5, InnerComplete
  <1> QED BY <1>6, <1>7, Zenon DEF InnerFollows, words

-----------------------------------------------------------------------------
(***************************************************************************)
(* A reload: what is stored is written and read again.                     *)
(***************************************************************************)
\* The tokens of a text without numbers.
Signs == TypeNames \union {"M", "(", ")", ","}

\* None of them is a number.
LEMMA SignsOnly == Signs \subseteq Tokens /\ \A t \in Signs : ~IsNumber(t)
  <1>1. Signs \subseteq Tokens
    BY TokensKnown DEF Signs
  <1>2. ASSUME NEW t \in Signs, NEW n \in 0 .. 9, dstr(n) = t PROVE FALSE
    <2>1. n \in Digit
      BY DEF Digit
    <2>2. dstr(n) \notin TypeNames \union {"M", "(", ")", ",", "EMPTY", "Z", "ZM", "end"}
      BY <2>1, Numbers
    <2> QED BY <1>2, <2>2, Zenon DEF Signs
  <1> QED BY <1>1, <1>2, Zenon DEF IsNumber

\* Signs one behind the other, in brackets, and behind a comma.
LEMMA SignsTogether ==
    /\ <<"(">> \in Seq(Signs) /\ <<")">> \in Seq(Signs) /\ <<",">> \in Seq(Signs) /\ <<>> \in Seq(Signs)
    /\ \A s \in Seq(Signs) : \A i : Separated(i, s) \in Seq(Signs)
    /\ \A s \in Seq(Signs) : Append(Opened(s), ")") \in Seq(Signs)
    /\ \A a, b \in Seq(Signs) : a \o b \in Seq(Signs)
  <1> DEFINE U == Signs
  <1>1. "(" \in U /\ ")" \in U /\ "," \in U
    BY Zenon DEF Signs
  <1> HIDE DEF U
  <1>2. \A t \in U : <<t>> \in Seq(U)
    OBVIOUS
  <1>3. <<"(">> \in Seq(U) /\ <<")">> \in Seq(U) /\ <<",">> \in Seq(U)
    BY <1>1, <1>2, Zenon
  <1>4. <<>> \in Seq(U)
    OBVIOUS
  <1>5. \A a, b \in Seq(U) : a \o b \in Seq(U)
    OBVIOUS
  <1>6. \A s \in Seq(U) : \A i : Separated(i, s) \in Seq(U)
    <2> SUFFICES ASSUME NEW s \in Seq(U), NEW i PROVE Separated(i, s) \in Seq(U)
      OBVIOUS
    <2>1. (IF i = 1 THEN <<>> ELSE <<",">>) \in Seq(U)
      BY <1>3, <1>4, Zenon
    <2> QED BY <1>5, <2>1, Zenon DEF Separated
  <1>7. \A s \in Seq(U) : Append(Opened(s), ")") \in Seq(U)
    <2> SUFFICES ASSUME NEW s \in Seq(U) PROVE Append(Opened(s), ")") \in Seq(U)
      OBVIOUS
    <2>1. Opened(s) \in Seq(U)
      BY <1>3, <1>5, Zenon DEF Opened
    <2>2. \A r \in Seq(U) : \A t \in U : Append(r, t) \in Seq(U)
      OBVIOUS
    <2> QED BY <1>1, <2>1, <2>2, Zenon
  <1> QED BY <1>3, <1>4, <1>5, <1>6, <1>7, Zenon DEF U

\* The text of an element without coordinates is of signs.
LEMMA EmptySigns ==
    ASSUME NEW n \in Nat, NEW level \in 0 .. 3
    PROVE  \A x \in Elements(level, n) : ~x.some => x.text \in Seq(Signs)
  <1> DEFINE P(l) == \A x \in Elements(l, n) : ~x.some => x.text \in Seq(Signs)
  <1>1. P(0)
    <2> SUFFICES ASSUME NEW x \in Coordinates(n) PROVE x.some = TRUE
      BY ElementsBelow, Zenon
    <2>1. PICK s \in [1 .. n -> Digit] : x = CoordinatePiece(s)
      BY Zenon DEF Coordinates
    <2> QED BY <2>1, CoordinateShape
  <1>2. ASSUME NEW l \in 0 .. 2, P(l) PROVE P(l + 1)
    <2> SUFFICES ASSUME NEW x \in SeriesOf(Elements(l, n)), ~x.some PROVE x.text \in Seq(Signs)
      BY ElementsBelow, Zenon
    <2>1. PICK els \in Seq(Elements(l, n)) : x = SeriesPiece(els)
      BY Zenon DEF SeriesOf
    <2>2. \A y \in Elements(l, n) : Shaped(y)
      BY ElementShape
    <2>3. x.some = (\E i \in 1 .. Len(els) : els[i].some) /\ x.text = ListText(els)
      BY <2>1, <2>2, SeriesShape
    <2>4. Len(els) \in Nat /\ \A i \in 1 .. Len(els) : els[i] \in Elements(l, n)
      OBVIOUS
    <2>5. \A i \in 1 .. Len(els) : ~els[i].some
      BY <2>3, Zenon
    <2> DEFINE S == Seq(Signs)
               t == TextsOf(els)
    <2>6. \A i \in 1 .. Len(els) : Separated(i, els[i].text) \in S
      BY <1>2, <2>4, <2>5, SignsTogether, Zenon
    <2>7. t = [i \in 1 .. Len(els) |-> Separated(i, els[i].text)]
      BY DEF TextsOf
    <2> HIDE DEF S, t
    <2>8. t \in Seq(S)
      BY ONLY <2>4, <2>6, <2>7
    <2>9. FlattenSeq(t) \in Seq(Signs)
      <3>1. t \in Seq(Seq(Signs))
        BY <2>8 DEF S
      <3> QED BY <3>1, FlattenSteps
    <2> QED BY <2>3, <2>9, SignsTogether, Zenon DEF ListText, t
  <1> HIDE DEF P
  <1>3. P(1) /\ P(2) /\ P(3)
    <2>1. P(0 + 1)
      BY <1>1, <1>2
    <2>2. P(1)
      BY <2>1
    <2>3. P(1 + 1)
      BY <2>2, <1>2
    <2>4. P(2)
      BY <2>3
    <2>5. P(2 + 1)
      BY <2>4, <1>2
    <2> QED BY <2>2, <2>4, <2>5
  <1>4. P(level)
    <2>1. level = 0 \/ level = 1 \/ level = 2 \/ level = 3
      OBVIOUS
    <2> QED BY <2>1, <1>1, <1>3
  <1> QED BY <1>4 DEF P

\* So is the text of a leaf without coordinates.
LEMMA EmptyLeaf ==
    ASSUME NEW p \in LeafPieces, ~p.some
    PROVE  \A i \in DOMAIN p.text : ~IsNumber(p.text[i])
  <1>1. PICK h \in LeafHeads : \E body \in Bodies(h) : p = LeafPiece(h, body)
    BY LeafPiecesAre
  <1>2. PICK body \in Bodies(h) : p = LeafPiece(h, body)
    BY <1>1
  <1>3. p.text = TypeWords(h) \o BodyText(h, body) /\ ~body.some
    <2>1. IsLeaf(p, h, body)
      BY <1>2, LeafShape
    <2> QED BY <2>1, Zenon DEF IsLeaf
  <1>4. /\ h.type # "POINT" /\ body \in Elements(Level(h.type) + 1, Dims(h)) /\ BodyText(h, body) = body.text
        /\ Level(h.type) + 1 \in 1 .. 3
    BY <1>3, BodyShape
  <1>5. h \in Heads /\ h.type \in TypeNames
    BY HeadParts DEF LeafHeads
  <1>6. body.text \in Seq(Signs)
    <2> DEFINE l == Level(h.type) + 1
               n == Dims(h)
    <2>1. l \in 0 .. 3 /\ n \in Nat /\ body \in Elements(l, n)
      BY <1>4, <1>5, HeadDims
    <2> HIDE DEF l, n
    <2> QED BY <1>3, <2>1, EmptySigns
  <1>7. TypeWords(h) \in Seq(Signs)
    <2> DEFINE w == h.type
               U == Signs
               em == "M"
    <2>1. TypeWords(h) = <<w, em>> \/ TypeWords(h) = <<w>>
      BY Zenon DEF TypeWords
    <2>2. w \in U /\ em \in U
      BY <1>5, Zenon DEF Signs
    <2> HIDE DEF w, U, em
    <2>3. <<w, em>> \in Seq(U) /\ <<w>> \in Seq(U)
      BY <2>2
    <2> QED BY <2>1, <2>3, Zenon DEF U
  <1>8. p.text \in Seq(Signs)
    BY <1>3, <1>4, <1>6, <1>7, SignsTogether, Zenon
  <1> DEFINE s == p.text
             U == Signs
  <1>9. s \in Seq(U)
    BY <1>8
  <1> HIDE DEF s, U
  <1>10. \A i \in DOMAIN s : s[i] \in U
    BY <1>9
  <1> QED BY <1>10, SignsOnly, Zenon DEF s, U

\* The leaves of a geometry are where its array says.
LEMMA LeavesStand ==
    ASSUME NEW d \in Nat, NEW x \in Trees[d]
    PROVE  Locates(Leaves(x.cells), x.leaves, x.cells)
  <1> DEFINE g == x.cells
             array == Leaves(g)
  <1>1. g \in Seq(Int)
    BY WholeWritten
  <1>2. Stands(x.cells, g, 1)
    BY <1>1, StandsWhole
  <1>3. 1 \in Nat \ {0}
    OBVIOUS
  <1> HIDE DEF g
  <1>4. CASE readhdr(g, 1).type = "GEOMETRYCOLLECTION"
    <2>1. array = geomGeometryCollectionFlattenedArray(g, 1)
      BY <1>4, Zenon DEF Leaves
    <2>2. Locates(geomGeometryCollectionFlattenedArray(g, 1), x.leaves, g)
      BY <1>1, <1>2, <1>3, LeavesLocated
    <2> QED BY <2>1, <2>2, Zenon DEF g
  <1>5. CASE readhdr(g, 1).type # "GEOMETRYCOLLECTION"
    <2>1. array = << 1 >>
      BY <1>5, Zenon DEF Leaves
    <2>2. PICK k \in Nat : d = k + 1
      <3>1. d # 0
        BY TreeCases
      <3>2. d - 1 \in Nat /\ d = (d - 1) + 1
        BY <3>1
      <3> QED BY <3>2
    <2>3. x \in Trees[k + 1]
      BY <2>2
    <2>4. ~(\E h \in CollectionHeads : \E members \in Seq(Trees[k]) : x = Collection(h, members))
      <3> SUFFICES ASSUME NEW h \in CollectionHeads, NEW members \in Seq(Trees[k]), x = Collection(h, members)
                   PROVE  FALSE
        OBVIOUS
      <3> DEFINE S == Trees[k]
      <3>1. (\A y \in S : Form(y)) /\ members \in Seq(S)
        BY TreeForm
      <3> HIDE DEF S
      <3>2. readhdr(g, 1) = h /\ h.type = "GEOMETRYCOLLECTION"
        BY <1>1, <1>2, <1>3, <3>1, CollectionStands
      <3> QED BY <1>5, <3>2, Zenon
    <2>5. PICK h \in LeafHeads : \E body \in Bodies(h) : x = Leaf(h, body)
      BY <2>3, <2>4, TreeCases
    <2>6. PICK body \in Bodies(h) : x = Leaf(h, body)
      BY <2>5
    <2> DEFINE p == LeafPiece(h, body)
    <2>7. p = LeafPiece(h, body)
      OBVIOUS
    <2> HIDE DEF p
    <2>8. x.cells = p.cells /\ x.leaves = <<p>>
      BY <2>6, <2>7, LeafForm
    <2>9. Stands(p.cells, g, 1)
      BY <1>2, <2>8, Zenon
    <2>10. Locates(<< 1 >>, <<p>>, g)
      BY <2>9 DEF Locates
    <2> QED BY <2>1, <2>8, <2>10, Zenon DEF g
  <1> QED BY <1>4, <1>5

\* What stands in two places is the same.
LEMMA SameCells ==
    ASSUME NEW a \in Seq(Int), NEW g \in Seq(Int), NEW h \in Seq(Int), NEW p \in Nat \ {0}, NEW q \in Nat \ {0},
           Stands(a, g, p), Stands(a, h, q)
    PROVE  SubSeq(g, p, (p + Len(a)) - 1) = SubSeq(h, q, q + (p + Len(a)) - p - 1)
  <1> DEFINE l == Len(a)
             m == (p + l) - 1
             n == q + (p + l) - p - 1
             s == SubSeq(g, p, m)
             t == SubSeq(h, q, n)
  <1>1. l \in Nat /\ m \in Int /\ n \in Int /\ m = p + l - 1 /\ n = q + l - 1 /\ p \in Nat /\ q \in Nat
    OBVIOUS
  <1>2. /\ p + l <= Len(g) + 1 /\ q + l <= Len(h) + 1
        /\ \A i \in 1 .. l : g[p + i - 1] = a[i] /\ h[q + i - 1] = a[i]
    BY DEF Stands
  <1>3. \A i \in 1 .. Len(g) : g[i] \in Int
    OBVIOUS
  <1>4. \A i \in 1 .. Len(h) : h[i] \in Int
    OBVIOUS
  <1> DEFINE lg == Len(g)
             lh == Len(h)
  <1>5. lg \in Nat /\ lh \in Nat
    OBVIOUS
  <1> HIDE DEF l, m, n, lg, lh
  <1>6. p .. m \subseteq 1 .. lg /\ q .. n \subseteq 1 .. lh
    BY <1>1, <1>2, <1>5 DEF lg, lh
  <1>7. (\A i \in p .. m : g[i] \in Int) /\ (\A i \in q .. n : h[i] \in Int)
    BY <1>3, <1>4, <1>6 DEF lg, lh
  <1>8. s \in Seq(Int) /\ Len(s) = l /\ \A i \in 1 .. l : s[i] = g[p + i - 1]
    <2>1. /\ s \in Seq(Int)
          /\ Len(s) = IF p <= m THEN m - p + 1 ELSE 0
          /\ \A i \in 1 .. m - p + 1 : s[i] = g[p + i - 1]
      BY <1>1, <1>7, SubSeqProperties
    <2> QED BY <1>1, <2>1
  <1>9. t \in Seq(Int) /\ Len(t) = l /\ \A i \in 1 .. l : t[i] = h[q + i - 1]
    <2>1. /\ t \in Seq(Int)
          /\ Len(t) = IF q <= n THEN n - q + 1 ELSE 0
          /\ \A i \in 1 .. n - q + 1 : t[i] = h[q + i - 1]
      BY <1>1, <1>7, SubSeqProperties
    <2> QED BY <1>1, <2>1
  <1> HIDE DEF s, t
  <1>10. Len(s) = Len(t) /\ \A i \in 1 .. Len(s) : s[i] = t[i]
    BY <1>2, <1>8, <1>9
  <1>11. s = t
    BY <1>8, <1>9, <1>10, SeqEqual
  <1> QED BY <1>11 DEF s, t, m, n, l

\* A leaf that has survived has the same coordinates.
LEMMA LeafSame ==
    ASSUME NEW p \in LeafPieces, NEW r \in LeafPieces, LeafSurvives(p, r) \/ r = p,
           NEW g \in Seq(Int), NEW h \in Seq(Int), NEW at \in Nat \ {0}, NEW there \in Nat \ {0},
           Stands(p.cells, g, at), Stands(r.cells, h, there)
    PROVE  SameLeaf(g, at, h, there)
  <1> DEFINE w == geomEncodeWKTInner(g, at)
  <1>1. PICK hd \in LeafHeads : \E body \in Bodies(hd) : p = LeafPiece(hd, body)
    BY LeafPiecesAre
  <1>2. PICK body \in Bodies(hd) : p = LeafPiece(hd, body)
    BY <1>1
  <1>3. p.cells \in Seq(Int) /\ (p.some => p.kept = p.cells)
    <2>1. Shaped(p) /\ IsLeaf(p, hd, body)
      BY <1>2, LeafShape
    <2> QED BY <2>1, Zenon DEF Shaped, IsLeaf
  <1>4. w = Written(p.text, at + Len(p.cells))
    <2> DEFINE x == Leaf(hd, body)
    <2>1. x = Leaf(hd, body)
      OBVIOUS
    <2>2. x \in Trees[0 + 1]
      BY TreeCases
    <2> HIDE DEF x
    <2>3. x.cells = p.cells /\ x.text = p.text
      BY <1>2, <2>1, LeafForm
    <2>4. x \in Trees[1] /\ 1 \in Nat
      BY <2>2
    <2>5. Stands(x.cells, g, at)
      BY <2>3, Zenon
    <2>6. geomEncodeWKTInner(g, at) = Written(x.text, at + Len(x.cells))
      BY <2>4, <2>5, GeometryWritten
    <2> QED BY <2>3, <2>6
  <1>5. w.text = p.text /\ w.at = at + Len(p.cells)
    BY <1>4, WrittenParts
  <1> HIDE DEF w
  <1>6. CASE r.cells = p.cells
    <2> DEFINE a == p.cells
    <2>1. a \in Seq(Int) /\ Stands(a, g, at) /\ Stands(a, h, there)
      BY <1>3, <1>6, Zenon
    <2> HIDE DEF a
    <2>2. SubSeq(g, at, (at + Len(a)) - 1) = SubSeq(h, there, there + (at + Len(a)) - at - 1)
      BY <2>1, SameCells
    <2>3. SubSeq(g, at, w.at - 1) = SubSeq(h, there, there + w.at - at - 1)
      BY <1>5, <2>2 DEF a
    <2> QED BY <2>3, Zenon DEF SameLeaf, w
  <1>7. CASE r.cells # p.cells
    <2>1. ~p.some
      BY <1>3, <1>7, Zenon DEF LeafSurvives
    <2>2. \A i \in DOMAIN p.text : ~IsNumber(p.text[i])
      BY <2>1, EmptyLeaf
    <2>3. \A i \in DOMAIN w.text : ~IsNumber(w.text[i])
      BY <1>5, <2>2, Zenon
    <2> QED BY <2>3, Zenon DEF SameLeaf, w
  <1> QED BY <1>6, <1>7

\* The reader takes the text as that of x, and the field holds it as it was read, or as it is kept.
Keeps(x) == Stored = x.cells /\ value \in {x.cells, x.kept}

\* What a reload needs: the field holds what was stored, or what is kept of it.
Reloads ==
    /\ text \in Texts
    /\ reply = <<"reloaded">> => Verified
    /\ Verified /\ value # NoValue => \E d \in Nat : \E x \in Trees[d] : Keeps(x)
    /\ reply = <<"reloaded">> => value # NoValue

\* Whether it is read for the first time or not, it is a geometry with the same text and leaves.
LEMMA KeptGeometry ==
    ASSUME NEW d \in Nat, NEW x \in Trees[d], NEW g \in {x.cells, x.kept}
    PROVE  \E z \in Trees[d] : g = z.cells /\ (z = x \/ Survives(x, z))
  <1>1. CASE g = x.cells
    BY <1>1
  <1>2. CASE g = x.kept
    <2>1. PICK z \in Trees[d] : Survives(x, z)
      BY TreeKept
    <2>2. g = z.cells
      BY <1>2, <2>1, Zenon DEF Survives
    <2> QED BY <2>1, <2>2
  <1> QED BY <1>1, <1>2

\* Written, it is read again in full.
LEMMA ReadAgain ==
    ASSUME NEW d \in Nat, NEW x \in Trees[d], NEW g \in {x.cells, x.kept}
    PROVE  /\ geomDecode(WktText(geomEncodeWKT(g))).err = "none"
           /\ geomDecode(WktText(geomEncodeWKT(g))).g = x.kept
           /\ x.kept # NoValue
  <1>1. PICK z \in Trees[d] : g = z.cells /\ (z = x \/ Survives(x, z))
    BY KeptGeometry
  <1>2. z.text = x.text
    BY <1>1, Zenon DEF Survives
  <1>3. geomEncodeWKT(g) = x.text
    BY <1>1, <1>2, WholeWritten
  <1> DEFINE t == WktText(x.text)
             o == geomDecode(t)
  <1>4. t.format = "wkt" /\ t.tokens = x.text
    BY Zenon DEF WktText
  <1>5. o = geomDecodeWKT(x.text)
    BY <1>4 DEF geomDecode
  <1>6. geomDecodeWKT(x.text) = Outcome("none", x.kept, Len(x.text), 1)
    BY WktComplete
  <1> HIDE DEF o, t
  <1>7. o.err = "none" /\ o.g = x.kept
    <2>1. o = [err |-> "none", g |-> x.kept, read |-> Len(x.text), heap |-> 1]
      BY <1>5, <1>6, Zenon DEF Outcome
    <2> QED BY <2>1
  <1>8. x.kept # NoValue
    <2>1. PICK y \in Trees[d] : Survives(x, y)
      BY TreeKept
    <2>2. y.cells # NoValue
      BY WholeWritten
    <2> QED BY <2>1, <2>2, Zenon DEF Survives
  <1> QED BY <1>3, <1>7, <1>8 DEF o, t

\* At first the field holds nothing.
LEMMA ReloadsInit == Init => Reloads
  <1> SUFFICES ASSUME Init PROVE Reloads
    OBVIOUS
  <1>1. text \in Texts /\ value = NoValue /\ reply = <<"none">>
    BY DEF Init
  <1>2. <<"none">> # <<"reloaded">>
    OBVIOUS
  <1> QED BY <1>1, <1>2, Zenon DEF Reloads

\* No command changes what a reload needs.
LEMMA ReloadsNext == Reloads /\ [Next]_vars => Reloads'
  <1> SUFFICES ASSUME Reloads, [Next]_vars PROVE Reloads'
    OBVIOUS
  <1>0. /\ text \in Texts
        /\ Verified /\ value # NoValue => \E d \in Nat : \E x \in Trees[d] : Keeps(x)
        /\ reply = <<"reloaded">> => value # NoValue /\ Verified
    BY DEF Reloads
  <1>a. text' = text => Verified' = Verified
    BY DEF Verified
  <1>1. ASSUME text' = text, value' = value, reply' = reply \/ reply' # <<"reloaded">> PROVE Reloads'
    <2>1. Stored' = Stored
      BY <1>1, Zenon DEF Stored
    <2>2. \A x : Keeps(x) => Keeps(x)'
      BY <1>1, <2>1, Zenon DEF Keeps
    <2>3. Verified' /\ value' # NoValue => \E d \in Nat : \E x \in Trees[d] : Keeps(x)'
      BY <1>0, <1>1, <1>a, <2>2, Zenon
    <2>4. reply' = <<"reloaded">> => value' # NoValue /\ Verified'
      BY <1>0, <1>1, <1>a
    <2>5. text' \in Texts
      BY <1>0, <1>1
    <2> QED BY <2>3, <2>4, <2>5 DEF Reloads
  <1>2. CASE GisAdd
    <2> DEFINE o == geomDecode(text)
    <2>1. text' = text
      BY <1>2 DEF GisAdd
    <2>2. CASE o.err = "none"
      <3>1. value' = o.g /\ reply' = <<"OK">>
        BY <1>2, <2>2 DEF GisAdd
      <3>0. CASE ~Verified
        <4>1. <<"OK">> # <<"reloaded">>
          OBVIOUS
        <4>2. ~Verified' /\ text' \in Texts
          BY <1>0, <1>a, <2>1, <3>0
        <4> QED BY <3>1, <4>1, <4>2 DEF Reloads
      <3> SUFFICES ASSUME Verified PROVE Reloads'
        BY <3>0
      <3>2. Geometry(o.g)
        BY <1>0, <2>2, TextRead DEF Read, Verified
      <3>3. PICK d \in Nat : \E x \in Trees[d] : o.g = x.cells
        BY <3>2 DEF Geometry
      <3>4. PICK x \in Trees[d] : o.g = x.cells
        BY <3>3
      <3>5. Stored' = o.g
        BY <2>1, Zenon DEF Stored
      <3>6. Keeps(x)'
        BY <3>1, <3>4, <3>5, Zenon DEF Keeps
      <3>7. text' \in Texts
        BY <1>0, <2>1
      <3>8. <<"OK">> # <<"reloaded">>
        OBVIOUS
      <3>9. \E k \in Nat : \E y \in Trees[k] : Keeps(y)'
        BY <3>6
      <3> QED BY <3>1, <3>7, <3>8, <3>9 DEF Reloads
    <2>3. CASE o.err # "none"
      <3>1. value' = value /\ reply' = <<"ERR">>
        BY <1>2, <2>3 DEF GisAdd
      <3>2. <<"ERR">> # <<"reloaded">>
        OBVIOUS
      <3> QED BY <1>1, <2>1, <3>1, <3>2
    <2> QED BY <2>2, <2>3
  <1>3. CASE GisGet
    <2>1. text' = text /\ value' = value /\ reply' = geomEncodeWKT(value) /\ value # NoValue /\ Verified
      BY <1>3 DEF GisGet
    <2>2. Stored' = Stored
      BY <2>1, Zenon DEF Stored
    <2>3. \A x : Keeps(x) => Keeps(x)'
      BY <2>1, <2>2, Zenon DEF Keeps
    <2>4. \E d \in Nat : \E x \in Trees[d] : Keeps(x)'
      BY <1>0, <2>1, <2>3, Zenon
    <2>5. text' \in Texts /\ Verified' /\ value' # NoValue
      BY <1>0, <1>a, <2>1
    <2> QED BY <2>4, <2>5 DEF Reloads
  <1>b. CASE ReadUnverified
    <2>1. text' = text /\ value' = value /\ reply' = Undefined
      BY <1>b DEF ReadUnverified
    <2>2. Undefined # <<"reloaded">>
      BY DEF Undefined
    <2> QED BY <1>1, <2>1, <2>2
  <1>4. CASE Reload
    <2>1. value # NoValue /\ Verified /\ text' = text /\ Verified'
      BY <1>4, <1>a DEF Reload
    <2>2. PICK d \in Nat : \E x \in Trees[d] : Keeps(x)
      BY <1>0, <2>1
    <2>3. PICK x \in Trees[d] : Keeps(x)
      BY <2>2
    <2>4. Stored = x.cells /\ value \in {x.cells, x.kept}
      BY <2>3 DEF Keeps
    <2> DEFINE o == geomDecode(WktText(geomEncodeWKT(value)))
    <2>5. o.err = "none" /\ o.g = x.kept /\ x.kept # NoValue
      BY <2>4, ReadAgain
    <2>6. value' = IF o.err = "none" THEN o.g ELSE NoValue
      BY <1>4 DEF Reload
    <2> HIDE DEF o
    <2>7. value' = x.kept /\ value' # NoValue
      BY <2>5, <2>6
    <2>8. Stored' = x.cells
      BY <2>1, <2>4, Zenon DEF Stored
    <2>9. Keeps(x)'
      BY <2>7, <2>8, Zenon DEF Keeps
    <2>10. text' \in Texts
      BY <1>0, <2>1
    <2>11. \E k \in Nat : \E y \in Trees[k] : Keeps(y)'
      BY <2>9
    <2> QED BY <2>1, <2>7, <2>10, <2>11 DEF Reloads
  <1>5. CASE GisDel
    <2> DEFINE o == geomDecode(StoredText(value))
    <2>1. /\ text' = text
          /\ reply' = IF o.err = "none" THEN <<"deleted">> ELSE <<"ERR">>
          /\ value' = IF o.err = "none" THEN NoValue ELSE value
      BY <1>5 DEF GisDel
    <2> HIDE DEF o
    <2>2. <<"deleted">> # <<"reloaded">> /\ <<"ERR">> # <<"reloaded">>
      OBVIOUS
    <2>3. CASE o.err = "none"
      <3>1. value' = NoValue /\ reply' = <<"deleted">>
        BY <2>1, <2>3
      <3>2. text' \in Texts
        BY <1>0, <2>1
      <3> QED BY <2>2, <3>1, <3>2 DEF Reloads
    <2>4. CASE o.err # "none"
      BY <1>1, <2>1, <2>2, <2>4
    <2> QED BY <2>3, <2>4
  <1>6. CASE UNCHANGED vars
    <2>1. text' = text /\ value' = value /\ reply' = reply
      BY <1>6 DEF vars
    <2> QED BY <1>1, <2>1
  <1> QED BY <1>2, <1>3, <1>b, <1>4, <1>5, <1>6 DEF Next

\* What a WKT or GeoJSON text was read as survives a rewrite of the AOF and a load, however often
\* (tairgis.c, geom.c): no value is refused by the reader of what the writer writes, GIS.GET
\* replies the same, and the leaves have the same coordinates.
THEOREM ReloadsKeep == Spec => []ReloadKeeps
  <1>1. Reloads => ReloadKeeps
    <2> SUFFICES ASSUME Reloads, reply = <<"reloaded">> PROVE ReloadKeeps
      BY DEF ReloadKeeps
    <2>1. value # NoValue /\ Verified
      BY DEF Reloads
    <2>2. PICK d \in Nat : \E x \in Trees[d] : Keeps(x)
      BY <2>1 DEF Reloads
    <2>3. PICK x \in Trees[d] : Keeps(x)
      BY <2>2
    <2>4. Stored = x.cells /\ value \in {x.cells, x.kept}
      BY <2>3 DEF Keeps
    <2>5. PICK z \in Trees[d] : value = z.cells /\ (z = x \/ Survives(x, z))
      BY <2>4, KeptGeometry
    <2>6. geomEncodeWKT(value) = geomEncodeWKT(Stored)
      <3>1. geomEncodeWKT(z.cells) = z.text /\ geomEncodeWKT(x.cells) = x.text
        BY WholeWritten
      <3>2. z.text = x.text
        BY <2>5, Zenon DEF Survives
      <3> QED BY <2>4, <2>5, <3>1, <3>2
    <2> DEFINE a == Leaves(Stored)
               b == Leaves(value)
               s == x.leaves
               t == z.leaves
    <2>7. Locates(a, s, Stored) /\ Locates(b, t, value)
      BY <2>4, <2>5, LeavesStand
    <2>8. Stored \in Seq(Int) /\ value \in Seq(Int)
      BY <2>4, <2>5, WholeWritten
    <2>9. s \in Seq(LeafPieces) /\ t \in Seq(LeafPieces)
      BY TreeForm DEF Form
    <2>10. Len(t) = Len(s) /\ \A n \in 1 .. Len(s) : LeafSurvives(s[n], t[n]) \/ t[n] = s[n]
      BY <2>5, Zenon DEF Survives
    <2> HIDE DEF a, b, s, t
    <2>11. /\ a \in Seq(Nat \ {0}) /\ Len(a) = Len(s) /\ \A n \in 1 .. Len(s) : Stands(s[n].cells, Stored, a[n])
           /\ b \in Seq(Nat \ {0}) /\ Len(b) = Len(t) /\ \A n \in 1 .. Len(t) : Stands(t[n].cells, value, b[n])
      BY <2>7, Zenon DEF Locates
    <2>12. Len(b) = Len(a) /\ DOMAIN b = 1 .. Len(s)
      BY <2>10, <2>11
    <2>13. ASSUME NEW n \in 1 .. Len(s) PROVE SameLeaf(Stored, a[n], value, b[n])
      <3> DEFINE p == s[n]
                 r == t[n]
                 at == a[n]
                 there == b[n]
                 g == Stored
      <3>1. p \in LeafPieces /\ r \in LeafPieces
        BY <2>9, <2>10
      <3>2. at \in Nat \ {0} /\ there \in Nat \ {0}
        BY <2>10, <2>11
      <3>3. Stands(p.cells, g, at) /\ Stands(r.cells, value, there)
        BY <2>10, <2>11
      <3>4. LeafSurvives(p, r) \/ r = p
        BY <2>10
      <3>5. g \in Seq(Int)
        BY <2>8
      <3> HIDE DEF p, r, at, there, g
      <3>6. SameLeaf(g, at, value, there)
        BY <2>8, <3>1, <3>2, <3>3, <3>4, <3>5, LeafSame
      <3> QED BY <3>6, Zenon DEF g, at, there
    <2> QED BY <2>1, <2>6, <2>12, <2>13, Zenon DEF ReloadKeeps, a, b
  <1>2. Spec => []Reloads
    BY ReloadsInit, ReloadsNext, PTL DEF Spec
  <1> QED BY <1>1, <1>2, PTL

=============================================================================
