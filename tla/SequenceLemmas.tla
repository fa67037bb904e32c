-------------------------- MODULE SequenceLemmas --------------------------
(***************************************************************************)
(* Facts about natural numbers and sequences that the proofs share.  The   *)
(* library's induction theorems take a predicate; here induction is over   *)
(* a set of numbers, and a recursive function is shown to exist step by    *)
(* step, as the set of the lengths up to which there is one.               *)
(***************************************************************************)
EXTENDS SequencesExt, SequenceTheorems, FiniteSetTheorems, WellFoundedInduction, TLAPS

-----------------------------------------------------------------------------
(***************************************************************************)
(* Induction.                                                              *)
(***************************************************************************)
\* A set with 0, and with the successor of each number it has, has every number.
LEMMA NatSubset ==
    ASSUME NEW S, 0 \in S, \A n \in Nat : n \in S => n + 1 \in S
    PROVE  Nat \subseteq S
  <1> SUFFICES ASSUME Nat \ S # {} PROVE FALSE
    OBVIOUS
  <1>1. PICK k \in Nat \ S : \A x \in Nat \ S : ~(x < k)
    <2> DEFINE less == OpToRel(<, Nat)
               T == Nat \ S
    <2>1. IsWellFoundedOn(less, Nat)
      BY NatLessThanWellFounded
    <2>2. T \subseteq Nat /\ T # {}
      OBVIOUS
    <2> HIDE DEF less, T
    <2>3. \E k \in T : \A x \in T : <<x, k>> \notin less
      BY <2>1, <2>2, WFMin
    <2> QED BY <2>3 DEF less, T, OpToRel
  <1>2. k # 0 /\ k - 1 \in Nat
    OBVIOUS
  <1>3. k - 1 \in S
    BY <1>1, <1>2
  <1> QED BY <1>2, <1>3

\* The same for the numbers up to n.
LEMMA UpTo ==
    ASSUME NEW n \in Nat, NEW S, 0 \in S, \A k \in 0 .. n - 1 : k \in S => k + 1 \in S
    PROVE  0 .. n \subseteq S
  <1> DEFINE T == {k \in Nat : k <= n => k \in S}
  <1>1. 0 \in T /\ \A k \in Nat : k \in T => k + 1 \in T
    OBVIOUS
  <1>2. Nat \subseteq T
    <2> HIDE DEF T
    <2> QED BY <1>1, NatSubset
  <1> QED BY <1>2

-----------------------------------------------------------------------------
(***************************************************************************)
(* FlattenSeq.                                                             *)
(***************************************************************************)
\* f holds what the first i of the sequences are together, for every i up to n.
Joined(f, s, n) == f = [i \in 1 .. n |-> IF i = 1 THEN s[i] ELSE f[i - 1] \o s[i]]

\* There is such a function, so that the CHOOSE of FlattenSeq finds it.
LEMMA JoinedExist ==
    ASSUME NEW T, NEW s \in Seq(Seq(T))
    PROVE  \E f : Joined(f, s, Len(s)) /\ f \in [1 .. Len(s) -> Seq(T)]
  <1> DEFINE P(f, n) == Joined(f, s, n) /\ f \in [1 .. n -> Seq(T)]
             S == {n \in 0 .. Len(s) : \E f : P(f, n)}
  <1>0. Len(s) \in Nat /\ \A i \in 1 .. Len(s) : s[i] \in Seq(T)
    OBVIOUS
  <1>1. 0 \in S
    <2>1. P([i \in 1 .. 0 |-> <<>>], 0)
      BY DEF Joined
    <2> HIDE DEF P
    <2> QED BY <2>1, <1>0
  <1>2. ASSUME NEW n \in 0 .. Len(s) - 1, n \in S PROVE n + 1 \in S
    <2>1. PICK f : P(f, n)
      BY <1>2
    <2>2. n \in Nat /\ n + 1 \in 0 .. Len(s)
      BY <1>0
    <2> DEFINE g == [i \in 1 .. n + 1 |-> IF i = 1 THEN s[i] ELSE f[i - 1] \o s[i]]
    <2>3. \A i \in 1 .. n : g[i] = f[i]
      <3>1. \A i \in 1 .. n : i \in 1 .. n + 1
        BY <2>2
      <3> QED BY <3>1, <2>1, Zenon DEF Joined
    <2>4. g = [i \in 1 .. n + 1 |-> IF i = 1 THEN s[i] ELSE g[i - 1] \o s[i]]
      <3>1. \A i \in 1 .. n + 1 : i # 1 => i - 1 \in 1 .. n
        BY <2>2
      <3>2. \A i \in 1 .. n + 1 : i # 1 => g[i - 1] = f[i - 1]
        BY <3>1, <2>3, Zenon
      <3> QED BY <3>2, Zenon
    <2>5. \A i \in 1 .. n + 1 : s[i] \in Seq(T) /\ (i # 1 => f[i - 1] \in Seq(T))
      BY <2>1, <2>2, <1>0
    <2>6. \A i \in 1 .. n + 1 : g[i] \in Seq(T)
      BY <2>5, ConcatProperties
    <2>7. P(g, n + 1)
      BY <2>4, <2>6, Zenon DEF Joined
    <2> HIDE DEF P, g
    <2> QED BY <2>2, <2>7
  <1>3. 0 .. Len(s) \subseteq S
    <2> HIDE DEF S
    <2> QED BY <1>0, <1>1, <1>2, UpTo
  <1> QED BY <1>0, <1>3

\* FlattenSeq is the last value of such a function.
LEMMA FlattenIsLast ==
    ASSUME NEW T, NEW s \in Seq(Seq(T)), s # <<>>
    PROVE  \E f : /\ Joined(f, s, Len(s))
                  /\ f \in [1 .. Len(s) -> Seq(T)]
                  /\ FlattenSeq(s) = f[Len(s)]
  <1> DEFINE flatten == CHOOSE f : f = [i \in 1 .. Len(s) |-> IF i = 1 THEN s[i] ELSE f[i - 1] \o s[i]]
  <1>0. Len(s) \in Nat /\ Len(s) # 0
    OBVIOUS
  <1>1. PICK g : Joined(g, s, Len(s)) /\ g \in [1 .. Len(s) -> Seq(T)]
    BY JoinedExist
  <1>2. FlattenSeq(s) = flatten[Len(s)]
    BY <1>0 DEF FlattenSeq
  <1>3. flatten = [i \in 1 .. Len(s) |-> IF i = 1 THEN s[i] ELSE flatten[i - 1] \o s[i]]
    BY <1>1, Zenon DEF Joined
  <1> HIDE DEF flatten
  <1>5. \A i \in 1 .. Len(s) : flatten[i] = g[i]
    <2> DEFINE S == {n \in 0 .. Len(s) : n = 0 \/ flatten[n] = g[n]}
    <2>1. 0 \in S
      BY <1>0
    <2>2. ASSUME NEW n \in 0 .. Len(s) - 1, n \in S PROVE n + 1 \in S
      <3>1. n + 1 \in 1 .. Len(s) /\ n + 1 \in 0 .. Len(s) /\ (n + 1) - 1 = n /\ (n + 1 = 1 <=> n = 0)
        BY <1>0
      <3>2. flatten[n + 1] = IF n = 0 THEN s[n + 1] ELSE flatten[n] \o s[n + 1]
        BY <3>1, <1>3, Zenon
      <3>3. g[n + 1] = IF n = 0 THEN s[n + 1] ELSE g[n] \o s[n + 1]
        BY <3>1, <1>1, Zenon DEF Joined
      <3>4. n = 0 \/ flatten[n] = g[n]
        BY <2>2
      <3> QED BY <3>1, <3>2, <3>3, <3>4, Zenon
    <2>3. 0 .. Len(s) \subseteq S
      <3> HIDE DEF S
      <3> QED BY <1>0, <2>1, <2>2, UpTo
    <2> QED BY <2>3, <1>0
  <1>6. flatten \in [1 .. Len(s) -> Seq(T)]
    BY <1>1, <1>3, <1>5
  <1> QED BY <1>2, <1>3, <1>6 DEF Joined

\* Its other values are what the first sequences are together.
LEMMA FlattenJoined ==
    ASSUME NEW T, NEW s \in Seq(Seq(T)), NEW f, Joined(f, s, Len(s))
    PROVE  \A n \in 1 .. Len(s) : FlattenSeq(SubSeq(s, 1, n)) = f[n]
  <1> SUFFICES ASSUME NEW n \in 1 .. Len(s) PROVE FlattenSeq(SubSeq(s, 1, n)) = f[n]
    OBVIOUS
  <1> DEFINE t == SubSeq(s, 1, n)
  <1>0. Len(s) \in Nat /\ n \in Nat /\ n # 0
    OBVIOUS
  <1>1. t \in Seq(Seq(T)) /\ Len(t) = n /\ \A i \in 1 .. n : t[i] = s[i]
    OBVIOUS
  <1>2. t # <<>>
    BY <1>0, <1>1
  <1> HIDE DEF t
  <1>3. PICK g : Joined(g, t, n) /\ FlattenSeq(t) = g[n]
    BY <1>1, <1>2, FlattenIsLast
  <1> DEFINE S == {k \in 0 .. n : k = 0 \/ g[k] = f[k]}
  <1>4. 0 \in S
    BY <1>0
  <1>5. ASSUME NEW k \in 0 .. n - 1, k \in S PROVE k + 1 \in S
    <2>1. /\ k + 1 \in 1 .. n /\ k + 1 \in 0 .. n /\ k + 1 \in 1 .. Len(s)
          /\ (k + 1) - 1 = k /\ (k + 1 = 1 <=> k = 0)
      BY <1>0
    <2>2. g[k + 1] = IF k = 0 THEN t[k + 1] ELSE g[k] \o t[k + 1]
      BY <2>1, <1>3, Zenon DEF Joined
    <2>3. f[k + 1] = IF k = 0 THEN s[k + 1] ELSE f[k] \o s[k + 1]
      BY <2>1, Zenon DEF Joined
    <2>4. k = 0 \/ g[k] = f[k]
      BY <1>5
    <2> QED BY <1>1, <2>1, <2>2, <2>3, <2>4, Zenon
  <1>6. 0 .. n \subseteq S
    <2> HIDE DEF S
    <2> QED BY <1>0, <1>4, <1>5, UpTo
  <1> QED BY <1>0, <1>3, <1>6 DEF t

\* Each sequence comes after what those before it are together.
LEMMA FlattenSteps ==
    ASSUME NEW T, NEW s \in Seq(Seq(T))
    PROVE  /\ FlattenSeq(s) \in Seq(T)
           /\ FlattenSeq(SubSeq(s, 1, Len(s))) = FlattenSeq(s)
           /\ FlattenSeq(SubSeq(s, 1, 0)) = <<>>
           /\ \A n \in 0 .. Len(s) : FlattenSeq(SubSeq(s, 1, n)) \in Seq(T)
           /\ \A n \in 1 .. Len(s) :
                 FlattenSeq(SubSeq(s, 1, n)) = FlattenSeq(SubSeq(s, 1, n - 1)) \o s[n]
  <1>0. Len(s) \in Nat /\ \A i \in 1 .. Len(s) : s[i] \in Seq(T)
    OBVIOUS
  <1>1. PICK f : Joined(f, s, Len(s)) /\ f \in [1 .. Len(s) -> Seq(T)]
    BY JoinedExist
  <1>2. \A n \in 1 .. Len(s) : FlattenSeq(SubSeq(s, 1, n)) = f[n]
    BY <1>1, FlattenJoined
  <1>3. SubSeq(s, 1, Len(s)) = s
    OBVIOUS
  <1>4. SubSeq(s, 1, 0) = <<>>
    OBVIOUS
  <1>5. FlattenSeq(<<>>) = <<>>
    BY DEF FlattenSeq
  <1>6. FlattenSeq(SubSeq(s, 1, 0)) = <<>>
    BY <1>4, <1>5
  <1>7. \A n \in 0 .. Len(s) : FlattenSeq(SubSeq(s, 1, n)) \in Seq(T)
    <2> SUFFICES ASSUME NEW n \in 0 .. Len(s) PROVE FlattenSeq(SubSeq(s, 1, n)) \in Seq(T)
      OBVIOUS
    <2>1. CASE n = 0
      <3>1. <<>> \in Seq(T)
        OBVIOUS
      <3> QED BY <2>1, <3>1, <1>6, Zenon
    <2>2. CASE n # 0
      <3>1. n \in 1 .. Len(s)
        BY <2>2, <1>0
      <3>2. f[n] \in Seq(T)
        BY <3>1, <1>1
      <3> QED BY <3>1, <3>2, <1>2, Zenon
    <2> QED BY <2>1, <2>2
  <1>8. ASSUME NEW n \in 1 .. Len(s)
        PROVE  FlattenSeq(SubSeq(s, 1, n)) = FlattenSeq(SubSeq(s, 1, n - 1)) \o s[n]
    <2>1. CASE n = 1
      <3>1. f[1] = s[1]
        BY <2>1, <1>1, Zenon DEF Joined
      <3>2. n - 1 = 0
        BY <2>1
      <3>3. <<>> \o s[1] = s[1]
        BY <2>1, <1>0
      <3> QED BY <2>1, <1>2, <1>6, <3>1, <3>2, <3>3
    <2>2. CASE n # 1
      <3>1. n - 1 \in 1 .. Len(s)
        BY <2>2, <1>0
      <3>2. f[n] = f[n - 1] \o s[n]
        BY <2>2, <1>1, Zenon DEF Joined
      <3> QED BY <3>1, <3>2, <1>2
    <2> QED BY <2>1, <2>2
  <1>9. Len(s) \in 0 .. Len(s)
    BY <1>0
  <1> QED BY <1>3, <1>6, <1>7, <1>8, <1>9, Zenon

\* Where the n-th sequence ends in the flattened one.
End(s, n) == Len(FlattenSeq(SubSeq(s, 1, n)))

\* The n-th sequence lies after the end of the one before it, and up to its own end.
LEMMA FlattenLayout ==
    ASSUME NEW T, NEW s \in Seq(Seq(T))
    PROVE  /\ \A n \in 0 .. Len(s) : End(s, n) \in Nat
           /\ End(s, 0) = 0
           /\ End(s, Len(s)) = Len(FlattenSeq(s))
           /\ \A n \in 1 .. Len(s) : End(s, n) = End(s, n - 1) + Len(s[n])
           /\ \A n \in 1 .. Len(s) : End(s, n) <= Len(FlattenSeq(s))
           /\ \A n \in 1 .. Len(s) : \A j \in 1 .. Len(s[n]) :
                 FlattenSeq(s)[End(s, n - 1) + j] = s[n][j]
  <1> DEFINE F(n) == FlattenSeq(SubSeq(s, 1, n))
  <1>0. Len(s) \in Nat /\ \A n \in 1 .. Len(s) : s[n] \in Seq(T) /\ Len(s[n]) \in Nat
    OBVIOUS
  <1>1. /\ F(0) = <<>> /\ F(Len(s)) = FlattenSeq(s)
        /\ \A n \in 0 .. Len(s) : F(n) \in Seq(T)
        /\ \A n \in 1 .. Len(s) : F(n) = F(n - 1) \o s[n]
    BY FlattenSteps
  <1> HIDE DEF F
  <1>2. \A n \in 0 .. Len(s) : Len(F(n)) \in Nat
    BY <1>1
  <1>3. ASSUME NEW n \in 1 .. Len(s)
        PROVE  /\ n - 1 \in 0 .. Len(s)
               /\ Len(F(n)) = Len(F(n - 1)) + Len(s[n])
               /\ \A j \in 1 .. Len(F(n - 1)) : F(n)[j] = F(n - 1)[j]
               /\ \A j \in 1 .. Len(s[n]) : F(n)[Len(F(n - 1)) + j] = s[n][j]
    <2>1. n - 1 \in 0 .. Len(s)
      BY <1>0
    <2>2. F(n - 1) \in Seq(T) /\ s[n] \in Seq(T) /\ F(n) = F(n - 1) \o s[n]
      BY <1>0, <1>1, <2>1
    <2>3. Len(F(n - 1)) \in Nat /\ Len(s[n]) \in Nat
      BY <2>2
    <2> DEFINE a == F(n - 1)
               b == s[n]
               c == F(n)
    <2>4. a \in Seq(T) /\ b \in Seq(T) /\ c = a \o b /\ Len(a) \in Nat /\ Len(b) \in Nat
      BY <2>2, <2>3
    <2> HIDE DEF a, b, c
    <2>5. /\ Len(c) = Len(a) + Len(b)
          /\ \A i \in 1 .. Len(a) + Len(b) : c[i] = IF i <= Len(a) THEN a[i] ELSE b[i - Len(a)]
      BY <2>4, ConcatProperties, Zenon
    <2>6. \A j \in 1 .. Len(a) : c[j] = a[j]
      BY <2>4, <2>5
    <2>7. \A j \in 1 .. Len(b) : c[Len(a) + j] = b[j]
      BY <2>4, <2>5
    <2> QED BY <2>1, <2>5, <2>6, <2>7 DEF a, b, c
  <1>4. ASSUME NEW n \in 0 .. Len(s), NEW j \in 1 .. Len(F(n))
        PROVE  Len(F(n)) <= Len(FlattenSeq(s)) /\ FlattenSeq(s)[j] = F(n)[j]
    <2> DEFINE S == {k \in 0 .. Len(s) - n : Len(F(n)) <= Len(F(n + k)) /\ F(n + k)[j] = F(n)[j]}
    <2>0. Len(s) - n \in Nat /\ n + 0 = n
      BY <1>0
    <2>1. 0 \in S
      BY <2>0, <1>2
    <2>2. ASSUME NEW k \in 0 .. (Len(s) - n) - 1, k \in S PROVE k + 1 \in S
      <3>1. n + (k + 1) \in 1 .. Len(s) /\ (n + (k + 1)) - 1 = n + k /\ n + k \in 0 .. Len(s)
        BY <1>0
      <3>2. /\ Len(F(n + (k + 1))) = Len(F(n + k)) + Len(s[n + (k + 1)])
            /\ \A i \in 1 .. Len(F(n + k)) : F(n + (k + 1))[i] = F(n + k)[i]
            /\ Len(s[n + (k + 1)]) \in Nat
        BY <1>0, <1>3, <3>1
      <3>3. Len(F(n)) \in Nat /\ Len(F(n + k)) \in Nat /\ Len(F(n)) <= Len(F(n + k)) /\ F(n + k)[j] = F(n)[j]
        BY <2>2, <1>2, <3>1
      <3>4. j \in 1 .. Len(F(n + k))
        BY <3>3
      <3>5. F(n + (k + 1))[j] = F(n)[j]
        BY <3>2, <3>3, <3>4, Zenon
      <3>7. Len(F(n)) <= Len(F(n + (k + 1)))
        <4> DEFINE a == Len(F(n))
                   b == Len(F(n + k))
                   c == Len(F(n + (k + 1)))
                   d == Len(s[n + (k + 1)])
        <4>1. c = b + d /\ a \in Nat /\ b \in Nat /\ d \in Nat /\ a <= b
          BY <3>2, <3>3, Zenon
        <4> HIDE DEF a, b, c, d
        <4>2. a <= c
          BY <4>1
        <4> QED BY <4>2 DEF a, c
      <3>6. k + 1 \in 0 .. Len(s) - n
        BY <2>0
      <3> QED BY <3>5, <3>6, <3>7, Zenon
    <2>3. 0 .. Len(s) - n \subseteq S
      <3> HIDE DEF S
      <3> QED BY <2>0, <2>1, <2>2, UpTo
    <2>4. Len(s) - n \in 0 .. Len(s) - n /\ n + (Len(s) - n) = Len(s)
      BY <2>0, <1>0
    <2>5. Len(s) - n \in S
      BY <2>3, <2>4, Zenon
    <2> QED BY <2>4, <2>5, <1>1, Zenon
  <1>5. ASSUME NEW n \in 1 .. Len(s) PROVE Len(F(n)) <= Len(FlattenSeq(s))
    <2>1. CASE Len(F(n)) = 0
      <3>1. FlattenSeq(s) \in Seq(T)
        BY FlattenSteps
      <3>2. Len(FlattenSeq(s)) \in Nat
        BY <3>1
      <3> QED BY <2>1, <3>2
    <2>2. CASE Len(F(n)) # 0
      <3>1. 1 \in 1 .. Len(F(n)) /\ n \in 0 .. Len(s)
        BY <2>2, <1>0, <1>2
      <3> QED BY <3>1, <1>4
    <2> QED BY <2>1, <2>2
  <1>6. ASSUME NEW n \in 1 .. Len(s), NEW j \in 1 .. Len(s[n])
        PROVE  FlattenSeq(s)[Len(F(n - 1)) + j] = s[n][j]
    <2>1. n \in 0 .. Len(s) /\ n - 1 \in 0 .. Len(s) /\ Len(F(n - 1)) \in Nat /\ Len(s[n]) \in Nat
      BY <1>0, <1>2
    <2>2. Len(F(n)) = Len(F(n - 1)) + Len(s[n])
      BY <1>3
    <2>3. Len(F(n - 1)) + j \in 1 .. Len(F(n))
      BY <2>1, <2>2
    <2>4. FlattenSeq(s)[Len(F(n - 1)) + j] = F(n)[Len(F(n - 1)) + j]
      BY <2>1, <2>3, <1>4, Zenon
    <2>5. F(n)[Len(F(n - 1)) + j] = s[n][j]
      BY <1>3, Zenon
    <2> QED BY <2>4, <2>5
  <1> QED BY <1>1, <1>2, <1>3, <1>5, <1>6 DEF End, F

\* Every position of the flattened sequence lies in one of the sequences.
LEMMA FlattenPosition ==
    ASSUME NEW T, NEW s \in Seq(Seq(T)), NEW m \in 1 .. Len(FlattenSeq(s))
    PROVE  \E n \in 1 .. Len(s) : \E j \in 1 .. Len(s[n]) : m = End(s, n - 1) + j
  <1> DEFINE e(n) == End(s, n)
             l(n) == Len(s[n])
             S == {k \in 0 .. Len(s) :
                     m <= e(k) => \E n \in 1 .. Len(s) : \E j \in 1 .. l(n) : m = e(n - 1) + j}
  <1>1. /\ Len(s) \in Nat
        /\ m \in Nat /\ 1 <= m /\ m <= e(Len(s))
        /\ \A n \in 1 .. Len(s) : l(n) \in Nat
        /\ \A n \in 0 .. Len(s) : e(n) \in Nat
        /\ e(0) = 0
        /\ \A n \in 1 .. Len(s) : e(n) = e(n - 1) + l(n)
    <2>1. /\ e(Len(s)) = Len(FlattenSeq(s)) /\ e(0) = 0
          /\ \A n \in 0 .. Len(s) : e(n) \in Nat
          /\ \A n \in 1 .. Len(s) : e(n) = e(n - 1) + l(n)
      BY FlattenLayout
    <2>2. Len(s) \in Nat /\ \A n \in 1 .. Len(s) : l(n) \in Nat
      OBVIOUS
    <2>3. Len(FlattenSeq(s)) \in Nat
      BY <2>1, <2>2
    <2> HIDE DEF e, l
    <2> QED BY <2>1, <2>2, <2>3
  <1> HIDE DEF e, l
  <1>2. 0 \in S
    BY <1>1
  <1>3. ASSUME NEW k \in 0 .. Len(s) - 1, k \in S PROVE k + 1 \in S
    <2>1. k + 1 \in 1 .. Len(s) /\ k + 1 \in 0 .. Len(s) /\ (k + 1) - 1 = k /\ k \in 0 .. Len(s)
      BY <1>1
    <2>2. e(k + 1) = e(k) + l(k + 1) /\ e(k) \in Nat /\ l(k + 1) \in Nat
      BY <1>1, <2>1
    <2>3. CASE m <= e(k)
      BY <1>3, <2>1, <2>3
    <2>4. CASE ~(m <= e(k)) /\ m <= e(k + 1)
      <3>1. m - e(k) \in 1 .. l(k + 1) /\ m = e(k) + (m - e(k))
        BY <1>1, <2>2, <2>4
      <3>2. \E j \in 1 .. l(k + 1) : m = e((k + 1) - 1) + j
        BY <2>1, <3>1
      <3> QED BY <2>1, <3>2
    <2> QED BY <2>1, <2>3, <2>4
  <1>4. 0 .. Len(s) \subseteq S
    <2> HIDE DEF S
    <2> QED BY <1>1, <1>2, <1>3, UpTo
  <1> QED BY <1>1, <1>4 DEF e, l

\* Sequences of one length lie at its multiples.
LEMMA FlattenUniform ==
    ASSUME NEW T, NEW s \in Seq(Seq(T)), NEW L \in Nat, \A n \in 1 .. Len(s) : Len(s[n]) = L
    PROVE  /\ Len(FlattenSeq(s)) = Len(s) * L
           /\ \A n \in 0 .. Len(s) : End(s, n) = n * L
  <1> DEFINE e(n) == End(s, n)
             S == {k \in 0 .. Len(s) : e(k) = k * L}
  <1>1. Len(s) \in Nat
    OBVIOUS
  <1>2. /\ e(0) = 0 /\ e(Len(s)) = Len(FlattenSeq(s))
        /\ \A n \in 1 .. Len(s) : e(n) = e(n - 1) + L
    BY FlattenLayout
  <1> HIDE DEF e
  <1>3. 0 \in S
    BY <1>1, <1>2
  <1>4. ASSUME NEW k \in 0 .. Len(s) - 1, k \in S PROVE k + 1 \in S
    <2>1. k + 1 \in 1 .. Len(s) /\ k + 1 \in 0 .. Len(s) /\ (k + 1) - 1 = k
      BY <1>1
    <2>2. e(k + 1) = k * L + L
      BY <1>2, <1>4, <2>1
    <2>3. k * L + L = (k + 1) * L
      BY <1>1
    <2> QED BY <2>1, <2>2, <2>3
  <1>5. 0 .. Len(s) \subseteq S
    <2> HIDE DEF S
    <2> QED BY <1>1, <1>3, <1>4, UpTo
  <1>6. \A n \in 0 .. Len(s) : e(n) = n * L
    BY <1>5
  <1>7. Len(s) \in 0 .. Len(s)
    BY <1>1
  <1> QED BY <1>2, <1>6, <1>7 DEF e

-----------------------------------------------------------------------------
(***************************************************************************)
(* Sequences without repetitions, and short ones.                          *)
(***************************************************************************)
\* A sequence of all members of a finite set, each once.
LEMMA SequenceOfSet ==
    ASSUME NEW S, IsFiniteSet(S), NEW s \in SetToSeqs(S)
    PROVE  /\ s \in Seq(S) /\ Len(s) = Cardinality(S)
           /\ IsInjective(s)
           /\ ToSet(s) = S
  <1> DEFINE D == 1 .. Cardinality(S)
  <1>1. s \in [D -> S] /\ \A m, n \in D : m # n => s[m] # s[n]
    BY DEF SetToSeqs
  <1>2. Cardinality(S) \in Nat /\ IsFiniteSet(D) /\ Cardinality(D) = Cardinality(S)
    <2>1. Cardinality(S) \in Nat
      BY FS_CardinalityType
    <2> QED BY <2>1, FS_Interval
  <1>3. s \in Seq(S) /\ Len(s) = Cardinality(S) /\ DOMAIN s = D
    BY <1>1, <1>2
  <1>4. IsInjective(s)
    BY <1>1, <1>3 DEF IsInjective
  <1>5. s \in Injection(D, S)
    BY <1>1, <1>4 DEF Injection
  <1>6. s \in Surjection(D, S)
    BY <1>2, <1>5, FS_Injection
  <1>7. ToSet(s) = S
    BY <1>1, <1>3, <1>6 DEF Surjection, ToSet
  <1> QED BY <1>3, <1>4, <1>7

\* A sequence without repetitions: without its first element,
LEMMA InjectiveTail ==
    ASSUME NEW S, NEW s \in Seq(S), s # <<>>, IsInjective(s)
    PROVE  /\ Tail(s) \in Seq(S) /\ IsInjective(Tail(s)) /\ Head(s) \in S
           /\ Head(s) \notin ToSet(Tail(s))
           /\ ToSet(s) = {Head(s)} \union ToSet(Tail(s))
  <1> DEFINE t == Tail(s)
  <1>1. /\ Len(s) \in Nat \ {0} /\ DOMAIN s = 1 .. Len(s) /\ Head(s) = s[1] /\ s[1] \in S
        /\ t \in Seq(S) /\ Len(t) = Len(s) - 1 /\ DOMAIN t = 1 .. Len(t)
        /\ \A n \in 1 .. Len(t) : t[n] = s[n + 1]
    OBVIOUS
  <1>2. \A m, n \in 1 .. Len(s) : s[m] = s[n] => m = n
    BY <1>1, Zenon DEF IsInjective
  <1> HIDE DEF t
  <1>3. \A n \in 1 .. Len(t) : n + 1 \in 1 .. Len(s) /\ n + 1 # 1
    BY <1>1
  <1>4. IsInjective(t)
    <2> SUFFICES ASSUME NEW m \in 1 .. Len(t), NEW n \in 1 .. Len(t), t[m] = t[n] PROVE m = n
      BY <1>1 DEF IsInjective
    <2>1. m + 1 = n + 1
      BY <1>1, <1>2, <1>3, Zenon
    <2> QED BY <2>1
  <1>5. s[1] \notin ToSet(t)
    <2> SUFFICES ASSUME NEW n \in 1 .. Len(t), t[n] = s[1] PROVE FALSE
      BY <1>1 DEF ToSet
    <2>1. s[n + 1] = s[1] /\ 1 \in 1 .. Len(s)
      BY <1>1
    <2>2. n + 1 = 1
      BY <1>2, <1>3, <2>1, Zenon
    <2> QED BY <1>3, <2>2
  <1>6. \A n \in 1 .. Len(s) : n = 1 \/ (n - 1 \in 1 .. Len(t) /\ s[n] = t[n - 1])
    BY <1>1
  <1>7. ToSet(s) = {s[1]} \union ToSet(t)
    <2>1. ToSet(s) = {s[n] : n \in 1 .. Len(s)} /\ ToSet(t) = {t[n] : n \in 1 .. Len(t)}
      BY <1>1 DEF ToSet
    <2>2. \A n \in 1 .. Len(t) : t[n] \in ToSet(s)
      BY <1>1, <1>3, <2>1
    <2>3. s[1] \in ToSet(s)
      BY <1>1, <2>1
    <2>4. \A n \in 1 .. Len(s) : s[n] \in {s[1]} \union ToSet(t)
      BY <1>6, <2>1
    <2> QED BY <2>1, <2>2, <2>3, <2>4
  <1> QED BY <1>1, <1>4, <1>5, <1>7 DEF t

\* and with one more at its end.
LEMMA InjectiveAppend ==
    ASSUME NEW S, NEW s \in Seq(S), NEW x \in S
    PROVE  /\ Append(s, x) \in Seq(S) /\ Len(Append(s, x)) = Len(s) + 1
           /\ ToSet(Append(s, x)) = ToSet(s) \union {x}
           /\ IsInjective(s) /\ x \notin ToSet(s) => IsInjective(Append(s, x))
  <1> DEFINE t == Append(s, x)
  <1>1. /\ Len(s) \in Nat /\ DOMAIN s = 1 .. Len(s)
        /\ t \in Seq(S) /\ Len(t) = Len(s) + 1 /\ DOMAIN t = 1 .. Len(t) /\ t[Len(s) + 1] = x
        /\ \A n \in 1 .. Len(s) : t[n] = s[n]
    OBVIOUS
  <1> HIDE DEF t
  <1>2. \A n \in 1 .. Len(t) : n \in 1 .. Len(s) \/ n = Len(s) + 1
    BY <1>1
  <1>3. \A n \in 1 .. Len(s) : n \in 1 .. Len(t)
    BY <1>1
  <1>4. Len(s) + 1 \in 1 .. Len(t)
    BY <1>1
  <1>5. ToSet(t) = ToSet(s) \union {x}
    <2>1. ToSet(s) = {s[n] : n \in 1 .. Len(s)} /\ ToSet(t) = {t[n] : n \in 1 .. Len(t)}
      BY <1>1 DEF ToSet
    <2>2. \A n \in 1 .. Len(s) : s[n] \in ToSet(t)
      BY <1>1, <1>3, <2>1
    <2>3. x \in ToSet(t)
      BY <1>1, <1>4, <2>1
    <2>4. \A n \in 1 .. Len(t) : t[n] \in ToSet(s) \union {x}
      BY <1>1, <1>2, <2>1
    <2> QED BY <2>1, <2>2, <2>3, <2>4
  <1>6. ASSUME IsInjective(s), x \notin ToSet(s) PROVE IsInjective(t)
    <2> SUFFICES ASSUME NEW m \in 1 .. Len(t), NEW n \in 1 .. Len(t), t[m] = t[n] PROVE m = n
      BY <1>1 DEF IsInjective
    <2>1. \A k \in 1 .. Len(s) : s[k] # x
      BY <1>1, <1>6 DEF ToSet
    <2>2. \A k, l \in 1 .. Len(s) : s[k] = s[l] => k = l
      BY <1>1, <1>6, Zenon DEF IsInjective
    <2> QED BY <1>1, <1>2, <2>1, <2>2
  <1> QED BY <1>1, <1>5, <1>6 DEF t

\* A sequence without repetitions has as many elements as members.
LEMMA InjectiveCardinality ==
    ASSUME NEW S, NEW s \in Seq(S), IsInjective(s)
    PROVE  IsFiniteSet(ToSet(s)) /\ Cardinality(ToSet(s)) = Len(s)
  <1>1. Len(s) \in Nat /\ DOMAIN s = 1 .. Len(s) /\ s \in [1 .. Len(s) -> S]
    OBVIOUS
  <1>2. ToSet(s) = {s[n] : n \in 1 .. Len(s)}
    BY <1>1 DEF ToSet
  <1>3. s \in [1 .. Len(s) -> ToSet(s)]
    BY <1>1, <1>2
  <1>4. s \in Surjection(1 .. Len(s), ToSet(s)) /\ s \in Injection(1 .. Len(s), ToSet(s))
    BY <1>2, <1>3 DEF Surjection, Injection
  <1>5. IsFiniteSet(1 .. Len(s)) /\ Cardinality(1 .. Len(s)) = Len(s)
    BY <1>1, FS_Interval
  <1> QED BY <1>4, <1>5, FS_Surjection

\* Short sequences, put together.
LEMMA Concatenated ==
    ASSUME NEW a, NEW b, NEW c
    PROVE  /\ <<a>> \o <<>> = <<a>> /\ <<a>> \o <<b>> = <<a, b>>
           /\ <<a, b>> \o <<>> = <<a, b>> /\ <<a, b>> \o <<c>> = <<a, b, c>>
  <1> DEFINE T == {a, b, c}
  <1>1. /\ <<>> \in Seq(T) /\ <<a>> \in Seq(T) /\ <<b>> \in Seq(T) /\ <<c>> \in Seq(T) /\ <<a, b>> \in Seq(T)
        /\ <<a, b, c>> \in Seq(T)
    OBVIOUS
  <1>2. <<a>> \o <<>> = <<a>> /\ <<a, b>> \o <<>> = <<a, b>>
    BY <1>1
  <1>3. <<a>> \o <<b>> = <<a, b>>
    <2> DEFINE u == <<a>>
               v == <<b>>
               w == u \o v
    <2>1. u \in Seq(T) /\ v \in Seq(T) /\ Len(u) = 1 /\ Len(v) = 1 /\ u[1] = a /\ v[1] = b
      BY <1>1
    <2> HIDE DEF T, u, v
    <2>2. w \in Seq(T) /\ Len(w) = 2 /\ w[1] = a /\ w[2] = b
      BY <2>1, ConcatProperties
    <2> HIDE DEF w
    <2>3. w = <<w[1], w[2]>>
      BY <2>2
    <2> QED BY <2>2, <2>3 DEF u, v, w
  <1>4. <<a, b>> \o <<c>> = <<a, b, c>>
    <2> DEFINE u == <<a, b>>
               v == <<c>>
               w == u \o v
    <2>1. /\ u \in Seq(T) /\ v \in Seq(T) /\ Len(u) = 2 /\ Len(v) = 1
          /\ u[1] = a /\ u[2] = b /\ v[1] = c
      BY <1>1
    <2> HIDE DEF T, u, v
    <2>2. w \in Seq(T) /\ Len(w) = 3 /\ w[1] = a /\ w[2] = b /\ w[3] = c
      <3>1. /\ w \in Seq(T) /\ Len(w) = Len(u) + Len(v)
            /\ \A n \in 1 .. Len(u) + Len(v) : w[n] = IF n <= Len(u) THEN u[n] ELSE v[n - Len(u)]
        BY <2>1, ConcatProperties, Zenon
      <3> HIDE DEF w
      <3>2. \A n \in 1 .. 3 : w[n] = IF n <= 2 THEN u[n] ELSE v[n - 2]
        BY <2>1, <3>1
      <3> QED BY <2>1, <3>1, <3>2
    <2> HIDE DEF w
    <2>3. w = <<w[1], w[2], w[3]>>
      BY <2>2
    <2> QED BY <2>2, <2>3 DEF u, v, w
  <1> QED BY <1>2, <1>3, <1>4

-----------------------------------------------------------------------------
(***************************************************************************)
(* The least and the greatest of a finite set.                             *)
(***************************************************************************)
\* The numbers of a finite set have a least one and a greatest one, and Min and Max are these.
LEMMA LeastOfMany ==
    ASSUME NEW n \in Nat \ {0}, NEW f \in [1 .. n -> Int]
    PROVE  \E i \in 1 .. n : \A j \in 1 .. n : f[i] <= f[j]
  <1> DEFINE S == {k \in 0 .. n - 1 : \E i \in 1 .. k + 1 : \A j \in 1 .. k + 1 : f[i] <= f[j]}
  <1>1. 0 \in S
    OBVIOUS
  <1>2. ASSUME NEW k \in 0 .. (n - 1) - 1, k \in S PROVE k + 1 \in S
    <2>1. PICK i \in 1 .. k + 1 : \A j \in 1 .. k + 1 : f[i] <= f[j]
      BY <1>2
    <2>2. f[i] \in Int /\ f[k + 2] \in Int /\ k + 2 \in 1 .. n
      OBVIOUS
    <2>3. \A j \in 1 .. k + 2 : j \in 1 .. k + 1 \/ j = k + 2
      OBVIOUS
    <2>4. CASE f[i] <= f[k + 2]
      BY <2>1, <2>2, <2>3, <2>4
    <2>5. CASE f[k + 2] < f[i]
      <3>1. \A j \in 1 .. k + 2 : f[k + 2] <= f[j]
        BY <2>1, <2>2, <2>3, <2>5
      <3> QED BY <3>1
    <2> QED BY <2>2, <2>4, <2>5
  <1>3. n - 1 \in Nat /\ n - 1 \in 0 .. n - 1
    OBVIOUS
  <1>4. n - 1 \in S
    <2> HIDE DEF S
    <2>1. 0 .. n - 1 \subseteq S
      BY <1>1, <1>2, <1>3, UpTo
    <2> QED BY <2>1, <1>3
  <1> QED BY <1>4

LEMMA LeastAndGreatest ==
    ASSUME NEW S \in SUBSET Int, IsFiniteSet(S), S # {}
    PROVE  /\ Min(S) \in S /\ \A n \in S : Min(S) <= n
           /\ Max(S) \in S /\ \A n \in S : n <= Max(S)
  <1>1. Cardinality(S) \in Nat \ {0}
    BY FS_CardinalityType, FS_EmptySet
  <1>2. PICK f : f \in [1 .. Cardinality(S) -> S] /\ \A n \in S : \E i \in 1 .. Cardinality(S) : f[i] = n
    BY FS_CardinalityType DEF ExistsBijection, Bijection, Surjection
  <1>3. \E m \in S : \A n \in S : m <= n
    <2>1. f \in [1 .. Cardinality(S) -> Int]
      BY <1>2
    <2>2. PICK i \in 1 .. Cardinality(S) : \A j \in 1 .. Cardinality(S) : f[i] <= f[j]
      BY <1>1, <2>1, LeastOfMany
    <2> QED BY <1>2, <2>2
  <1>4. \E m \in S : \A n \in S : n <= m
    <2> DEFINE g == [i \in 1 .. Cardinality(S) |-> -f[i]]
    <2>1. \A i \in 1 .. Cardinality(S) : f[i] \in S /\ f[i] \in Int
      BY <1>2
    <2>2. \A i \in 1 .. Cardinality(S) : g[i] = -f[i] /\ -f[i] \in Int
      BY <2>1
    <2>3. g \in [1 .. Cardinality(S) -> Int]
      BY <2>2
    <2> HIDE DEF g
    <2>4. PICK i \in 1 .. Cardinality(S) : \A j \in 1 .. Cardinality(S) : g[i] <= g[j]
      BY <1>1, <2>3, LeastOfMany
    <2>5. \A j \in 1 .. Cardinality(S) : f[j] <= f[i]
      BY <2>1, <2>2, <2>4
    <2> QED BY <1>2, <2>1, <2>5
  <1>5. \A n \in S : n \in Int
    OBVIOUS
  <1>6. Min(S) \in S /\ \A n \in S : Min(S) <= n
    BY <1>3, Zenon DEF Min
  <1>7. Max(S) \in S /\ \A n \in S : Max(S) >= n
    <2>1. \E m \in S : \A n \in S : m >= n
      BY <1>4, <1>5
    <2> QED BY <2>1, Zenon DEF Max
  <1> QED BY <1>5, <1>6, <1>7

\* A function on a finite set has finitely many values.
LEMMA ImageFinite ==
    ASSUME NEW S, IsFiniteSet(S), NEW f, f = [x \in S |-> f[x]]
    PROVE  IsFiniteSet({f[x] : x \in S})
  <1> DEFINE T == {f[x] : x \in S}
  <1>1. f \in Surjection(S, T)
    BY DEF Surjection
  <1> QED BY <1>1, FS_Surjection
=============================================================================
