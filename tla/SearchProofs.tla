---------------------------- MODULE SearchProofs ----------------------------
(***************************************************************************)
(* Proofs about Search: for any fields, distances and tolerance, and for   *)
(* every set of requests that can be cut into phrases.                     *)
(***************************************************************************)
EXTENDS Search, SequenceLemmas, FiniteSetTheorems, TLAPS

-----------------------------------------------------------------------------
(***************************************************************************)
(* The inductive invariant.  While the parser works it is at the beginning of*)
(* a phrase, and the context, the heap and reach are what the phrases before it*)
(* say; while the tree is walked, the results are what has matched so far. *)
(***************************************************************************)
\* A set with at most one member.
AtMostOne(S) == \A m \in S, n \in S : m = n

\* What the first k phrases have of the words.
TargetsUpTo(k) == {n \in 1 .. k : Is(request[n], TargetWords)}

LastUpTo(words, k) ==
    {request[n] : n \in {m \in 1 .. k :
        Is(request[m], words) /\ \A j \in m + 1 .. k : ~Is(request[j], words)}}

FirstUpTo(words, k) ==
    {request[n] : n \in {m \in 1 .. k :
        Is(request[m], words) /\ \A j \in 1 .. m - 1 : ~Is(request[j], words)}}

\* The parser has read the first k phrases, and the context says so:
Options(k) ==
    /\ ctx.value = (LastUpTo(ValueWords, k) \subseteq {<<<<"word", "WITHVALUE">>>>})
    /\ ctx.dist = (LastUpTo({"WITHDIST"}, k) # {})
    /\ {ctx.sort} \ {"none"} = {phrase[1][2] : phrase \in FirstUpTo({"ASC", "DESC"}, k)}
    /\ {ctx.count} \ {0} = {phrase[2][2] : phrase \in LastUpTo({"COUNT"}, k)}
    /\ {ctx.limit} \ {0} = {phrase[2][2] : phrase \in LastUpTo({"LIMIT"}, k)}

NoneGiven ==
    /\ ctx.center = Zero /\ ctx.toMeters = 1
    /\ \/ ctx.g = {}
       \/ ctx.g = {1} /\ i > Len(args) /\ args[1][1] = "wkt" /\ ctx.bounds = args[1]

OneGiven(phrase, k) ==
    /\ ctx.g # {}
    /\ ctx.bounds = Meaning(phrase).bounds
    /\ AtMostOne(TargetsUpTo(k)) =>
          ctx.center = Meaning(phrase).center /\ ctx.toMeters = Meaning(phrase).toMeters

Target(k) ==
    /\ TargetsUpTo(k) = {} <=> LastUpTo(TargetWords, k) = {}
    /\ TargetsUpTo(k) = {} => NoneGiven
    /\ \A phrase \in LastUpTo(TargetWords, k) : OneGiven(phrase, k)

Blocks(k) ==
    /\ ctx.g \subseteq heap
    /\ heap \subseteq 1 .. Len(args)
    /\ AtMostOne(TargetsUpTo(k)) => heap = ctx.g

Progress(k) ==
    /\ i = 1 + End(request, k)
    /\ \A n \in 1 .. k : Usable(request[n])
    /\ Options(k)
    /\ Target(k)
    /\ Blocks(k)

Contexts(bounds) ==
    [type : {"none", "RADIUS", "GEOMETRY"}, g : SUBSET Int, bounds : {bounds}, center : Origins,
     meters : Int, toMeters : Nat, value : BOOLEAN, dist : BOOLEAN, sort : {"none", "ASC", "DESC"},
     count : Nat, limit : Nat]

Command ==
    /\ request \in Requests /\ args = FlattenSeq(request) /\ args # <<>>
    /\ reach = i - 1
    /\ ctx \in Contexts(ctx.bounds)
    /\ misuse = FALSE
    /\ reply = NoReply

ParsingOK ==
    pc = "parsing" =>
        /\ Command
        /\ hits = {} /\ walk = <<>> /\ results = <<>> /\ cap = 0
        /\ \E k \in 0 .. Len(request) : Progress(k)

IdleOK ==
    pc = "idle" =>
        /\ i = 1 /\ reach = 0 /\ ctx = NewContext /\ heap = {} /\ misuse = FALSE
        /\ hits = {} /\ walk = <<>> /\ results = <<>> /\ cap = 0 /\ reply = NoReply
        /\ request = <<>> /\ args = <<>>

Allocated == ctx.g \union {MapBlock} \union (IF cap > 0 THEN {ResultsBlock} ELSE {})

WalkingOK ==
    pc = "walking" =>
        /\ Command
        /\ i = Len(args) + 1
        /\ ctx.g \subseteq 1 .. Len(args)
        /\ Allocated \subseteq heap
        /\ AtMostOne(Targets) => heap = Allocated
        /\ heap \subseteq (1 .. Len(args)) \union {MapBlock, ResultsBlock}
        /\ hits \subseteq Fields
        /\ Len(results) <= cap /\ cap <= 2 * Len(results) /\ cap \in Nat
        /\ walk \in Seq(Fields) /\ results \in Seq(Fields)
        /\ IsInjective(walk) /\ IsInjective(results) /\ ToSet(walk) \intersect ToSet(results) = {}
        /\ ToSet(results) \subseteq hits
        /\ ctx.limit # 0 => Len(results) <= ctx.limit
        /\ ctx.limit = 0 \/ Len(results) < ctx.limit => hits \subseteq ToSet(walk) \union ToSet(results)

IInv ==
    /\ TypeOK /\ IdleOK /\ ParsingOK /\ WalkingOK
    /\ ArgumentsInRange /\ ParsedAsMeant /\ MemoryBalanced
    /\ ReplyFramed /\ MatchesListed /\ NearestListed

-----------------------------------------------------------------------------
(***************************************************************************)
(* Requests and their phrases.                                             *)
(***************************************************************************)
\* The library's sets of a sequence's elements.
LEMMA RequestShape ==
    ASSUME NEW phrases \in Requests
    PROVE  /\ phrases \in Seq(Seq(Tokens)) /\ Len(phrases) \in Nat
           /\ \A n \in 1 .. Len(phrases) :
                 /\ phrases[n] \in Seq(Tokens)
                 /\ Len(phrases[n]) \in Nat \ {0}
                 /\ phrases[n][1] \in Tokens
                 /\ LET needs == IF phrases[n][1][1] = "word" /\ phrases[n][1][2] \in Words
                                 THEN 1 + Arity(phrases[n][1][2]) ELSE 1
                    IN  /\ Len(phrases[n]) \in 1 .. needs
                        /\ n < Len(phrases) => Len(phrases[n]) = needs
  <1>1. phrases \in Seq(Seq(Tokens)) /\ Cut(phrases)
    BY RequestsAssumption
  <1>2. Len(phrases) \in Nat /\ DOMAIN phrases = 1 .. Len(phrases)
    BY <1>1
  <1>3. ASSUME NEW n \in 1 .. Len(phrases)
        PROVE  /\ phrases[n] \in Seq(Tokens)
               /\ LET needs == IF phrases[n][1][1] = "word" /\ phrases[n][1][2] \in Words
                               THEN 1 + Arity(phrases[n][1][2]) ELSE 1
                  IN  /\ Len(phrases[n]) \in 1 .. needs
                      /\ n < Len(phrases) => Len(phrases[n]) = needs
    <2>1. phrases[n] \in Seq(Tokens)
      BY <1>1, <1>2
    <2> QED BY <1>1, <1>2, <2>1, Zenon DEF Cut
  <1>4. ASSUME NEW n \in 1 .. Len(phrases)
        PROVE  Len(phrases[n]) \in Nat \ {0} /\ phrases[n][1] \in Tokens
    <2> DEFINE p == phrases[n]
    <2>1. p \in Seq(Tokens) /\ \E needs : Len(p) \in 1 .. needs
      BY <1>3, Zenon
    <2> HIDE DEF p
    <2>2. Len(p) \in Nat \ {0} /\ p[1] \in Tokens
      BY <2>1
    <2> QED BY <2>2 DEF p
  <1> QED BY <1>1, <1>2, <1>3, <1>4, Zenon

\* An argument is a pair.
LEMMA TokenShape ==
    ASSUME NEW a \in Tokens
    PROVE  /\ a = <<a[1], a[2]>>
           /\ a[1] = "number" => a[2] \in Int
           /\ a[1] = "unit" => a[2] \in Nat
  BY RequestsAssumption

\* Where a phrase of the request is among the arguments.
LEMMA PhraseLayout ==
    ASSUME request \in Requests, args = FlattenSeq(request)
    PROVE  /\ args \in Seq(Tokens) /\ Len(args) \in Nat /\ DOMAIN args = 1 .. Len(args)
           /\ Len(request) \in Nat
           /\ End(request, 0) = 0
           /\ End(request, Len(request)) = Len(args)
           /\ \A n \in 0 .. Len(request) : End(request, n) \in Nat
           /\ \A n \in 1 .. Len(request) :
                 /\ End(request, n) = End(request, n - 1) + Len(request[n])
                 /\ End(request, n) <= Len(args)
                 /\ \A j \in 1 .. Len(request[n]) : args[End(request, n - 1) + j] = request[n][j]
  <1>1. request \in Seq(Seq(Tokens)) /\ Len(request) \in Nat
    BY RequestShape
  <1>2. args \in Seq(Tokens)
    BY <1>1, FlattenSteps
  <1>3. Len(args) \in Nat /\ DOMAIN args = 1 .. Len(args)
    BY <1>2
  <1> QED BY <1>1, <1>2, <1>3, FlattenLayout, Zenon

\* The parser is at the first argument of phrase n.
LEMMA Reading ==
    ASSUME request \in Requests, args = FlattenSeq(request), pc = "parsing",
           NEW k \in 0 .. Len(request), i = 1 + End(request, k), i <= Len(args)
    PROVE  /\ k + 1 \in 1 .. Len(request)
           /\ i \in Nat /\ End(request, k + 1) = End(request, k) + Len(request[k + 1])
           /\ i + Len(request[k + 1]) <= Len(args) + 1
           /\ \A j \in 0 .. Len(request[k + 1]) - 1 : Arg(i + j) = request[k + 1][1 + j]
           /\ Arg(i) = request[k + 1][1]
           /\ k + 1 = Len(request) => i + Len(request[k + 1]) = Len(args) + 1
  <1>1. k \in Nat /\ Len(request) \in Nat /\ Len(args) \in Nat /\ DOMAIN args = 1 .. Len(args)
    BY PhraseLayout
  <1>2. End(request, k) \in Nat
    BY PhraseLayout
  <1>3. k # Len(request)
    BY PhraseLayout, <1>1, <1>2
  <1>4. k + 1 \in 1 .. Len(request) /\ (k + 1) - 1 = k
    BY <1>1, <1>3
  <1> DEFINE p == request[k + 1]
             e == End(request, k)
  <1>5. /\ End(request, k + 1) = e + Len(p)
        /\ End(request, k + 1) <= Len(args)
        /\ \A j \in 1 .. Len(p) : args[e + j] = p[j]
        /\ k + 1 = Len(request) => End(request, k + 1) = Len(args)
    BY <1>4, PhraseLayout, Zenon
  <1>6. Len(p) \in Nat \ {0} /\ e \in Nat /\ i = 1 + e
    BY <1>4, <1>2, RequestShape, Zenon
  <1> HIDE DEF p, e
  <1>7. ASSUME NEW j \in 0 .. Len(p) - 1 PROVE Arg(i + j) = p[1 + j]
    <2>1. 1 + j \in 1 .. Len(p) /\ i + j = e + (1 + j) /\ i + j \in DOMAIN args
      BY <1>1, <1>5, <1>6
    <2> QED BY <1>5, <2>1, Zenon DEF Arg
  <1>8. 0 \in 0 .. Len(p) - 1 /\ i + 0 = i /\ 1 + 0 = 1
    BY <1>6
  <1>9. Arg(i) = p[1]
    BY <1>7, <1>8, Zenon
  <1>10. i \in Nat /\ i + Len(p) <= Len(args) + 1 /\ (k + 1 = Len(request) => i + Len(p) = Len(args) + 1)
    BY <1>1, <1>5, <1>6
  <1> QED BY <1>4, <1>5, <1>7, <1>9, <1>10, Zenon DEF p, e

\* An option with its arguments is a phrase; anything else is one, too.
LEMMA ReadingOption ==
    ASSUME request \in Requests, args = FlattenSeq(request), pc = "parsing",
           NEW k \in 0 .. Len(request), i = 1 + End(request, k), i <= Len(args)
    PROVE  LET phrase == request[k + 1]
           IN  /\ Word = "none" => Len(phrase) = 1 /\ \A words \in SUBSET Words : ~Is(phrase, words)
               /\ Word # "none" =>
                     /\ Word \in Words
                     /\ phrase[1] = <<"word", Word>>
                     /\ Missing(Word) <=> Len(phrase) < 1 + Arity(Word)
                     /\ ~Missing(Word) => Len(phrase) = 1 + Arity(Word)
                     /\ \A words : Is(phrase, words) <=> Word \in words
  <1> DEFINE p == request[k + 1]
  <1>1. /\ k + 1 \in 1 .. Len(request) /\ i \in Nat /\ Len(args) \in Nat /\ Len(request) \in Nat
        /\ Arg(i) = p[1]
        /\ i + Len(p) <= Len(args) + 1
        /\ k + 1 = Len(request) => i + Len(p) = Len(args) + 1
    BY Reading, PhraseLayout, Zenon
  <1>2. /\ Len(p) \in Nat \ {0} /\ p[1] \in Tokens
        /\ LET needs == IF p[1][1] = "word" /\ p[1][2] \in Words THEN 1 + Arity(p[1][2]) ELSE 1
           IN  /\ Len(p) \in 1 .. needs
               /\ k + 1 < Len(request) => Len(p) = needs
    BY <1>1, RequestShape, Zenon
  <1>3. p[1] = <<p[1][1], p[1][2]>>
    BY <1>2, TokenShape
  <1> HIDE DEF p
  <1>4. CASE p[1][1] = "word" /\ p[1][2] \in Words
    <2>1. Word = p[1][2] /\ Word \in Words /\ Word # "none" /\ p[1] = <<"word", Word>>
      BY <1>1, <1>3, <1>4 DEF Word, Words, TargetWords, ValueWords
    <2>2. Arity(Word) \in Nat
      BY DEF Arity
    <2>3. Len(p) \in 1 .. 1 + Arity(Word) /\ (k + 1 < Len(request) => Len(p) = 1 + Arity(Word))
      BY <1>2, <1>4, <2>1, Zenon
    <2>4. Missing(Word) <=> Len(p) < 1 + Arity(Word)
      BY <1>1, <1>2, <2>2, <2>3 DEF Missing
    <2>5. ~Missing(Word) => Len(p) = 1 + Arity(Word)
      BY <1>2, <2>2, <2>3, <2>4
    <2>6. \A words : Is(p, words) <=> Word \in words
      BY <1>2, <2>1 DEF Is
    <2> QED BY <2>1, <2>4, <2>5, <2>6, Zenon DEF p
  <1>5. CASE ~(p[1][1] = "word" /\ p[1][2] \in Words)
    <2>1. Word = "none"
      BY <1>1, <1>5, Zenon DEF Word
    <2>2. Len(p) \in 1 .. 1
      BY <1>2, <1>5, Zenon
    <2>3. \A words \in SUBSET Words : ~Is(p, words)
      BY <1>5 DEF Is
    <2>4. Len(p) = 1
      BY <2>2
    <2> QED BY <2>1, <2>3, <2>4, Zenon DEF p
  <1> QED BY <1>4, <1>5

\* What one more phrase makes of the last phrase with a word,
LEMMA LastStep ==
    ASSUME NEW k \in Nat, NEW words
    PROVE  LastUpTo(words, k + 1) = IF Is(request[k + 1], words) THEN {request[k + 1]} ELSE LastUpTo(words, k)
  <1> DEFINE L(n) == {m \in 1 .. n : Is(request[m], words) /\ \A j \in m + 1 .. n : ~Is(request[j], words)}
  <1>1. CASE Is(request[k + 1], words)
    <2>1. L(k + 1) = {k + 1}
      BY <1>1
    <2> HIDE DEF L
    <2> QED BY <1>1, <2>1 DEF LastUpTo, L
  <1>2. CASE ~Is(request[k + 1], words)
    <2>1. L(k + 1) = L(k)
      BY <1>2
    <2> QED BY <1>2, <2>1 DEF LastUpTo
  <1> QED BY <1>1, <1>2

\* of the first one,
LEMMA FirstStep ==
    ASSUME NEW k \in Nat, NEW words
    PROVE  FirstUpTo(words, k + 1) = IF Is(request[k + 1], words) /\ FirstUpTo(words, k) = {}
                                     THEN {request[k + 1]} ELSE FirstUpTo(words, k)
  <1> DEFINE none(n) == \A j \in 1 .. n : ~Is(request[j], words)
             F(n) == {m \in 1 .. n : Is(request[m], words) /\ none(m - 1)}
             S == {n \in 0 .. k : none(n)}
  <1>1. F(k + 1) = F(k) \union (IF Is(request[k + 1], words) /\ none(k) THEN {k + 1} ELSE {})
    <2>1. \A m \in 1 .. k + 1 : m \in 1 .. k \/ (m = k + 1 /\ m - 1 = k)
      OBVIOUS
    <2>2. (k + 1) - 1 = k /\ k + 1 \in 1 .. k + 1 /\ \A m \in 1 .. k : m \in 1 .. k + 1
      OBVIOUS
    <2> HIDE DEF none
    <2> QED BY <2>1, <2>2
  <1>2. ASSUME F(k) = {} PROVE none(k)
    <2>1. 0 \in S
      OBVIOUS
    <2>2. ASSUME NEW n \in 0 .. k - 1, n \in S PROVE n + 1 \in S
      <3>1. none(n) /\ n + 1 \in 1 .. k /\ (n + 1) - 1 = n /\ n + 1 \in 0 .. k
        BY <2>2
      <3>2. ~Is(request[n + 1], words)
        BY <1>2, <3>1
      <3>3. \A j \in 1 .. n + 1 : j \in 1 .. n \/ j = n + 1
        BY <2>2
      <3> QED BY <3>1, <3>2, <3>3
    <2>3. 0 .. k \subseteq S
      <3> HIDE DEF S
      <3> QED BY <2>1, <2>2, UpTo
    <2> QED BY <2>3
  <1>3. none(k) => F(k) = {}
    OBVIOUS
  <1>4. \A n : FirstUpTo(words, n) = {request[m] : m \in F(n)}
    BY DEF FirstUpTo
  <1> HIDE DEF F, none
  <1>5. FirstUpTo(words, k) = {} <=> none(k)
    BY <1>2, <1>3, <1>4
  <1>6. CASE Is(request[k + 1], words) /\ none(k)
    <2>1. F(k + 1) = {k + 1}
      BY <1>1, <1>3, <1>6
    <2>2. FirstUpTo(words, k + 1) = {request[k + 1]}
      BY <1>4, <2>1
    <2> QED BY <1>5, <1>6, <2>2
  <1>7. CASE ~(Is(request[k + 1], words) /\ none(k))
    <2>1. F(k + 1) = F(k)
      BY <1>1, <1>7
    <2> QED BY <1>4, <1>5, <1>7, <2>1
  <1> QED BY <1>6, <1>7

\* and of the targets.
LEMMA TargetsStep ==
    ASSUME NEW k \in Nat
    PROVE  TargetsUpTo(k + 1) = TargetsUpTo(k) \union (IF Is(request[k + 1], TargetWords) THEN {k + 1} ELSE {})
  <1>1. \A m : m \in 1 .. k + 1 <=> m \in 1 .. k \/ m = k + 1
    OBVIOUS
  <1> QED BY <1>1 DEF TargetsUpTo

\* Before the first phrase.
LEMMA NoPhraseYet ==
    /\ \A words : LastUpTo(words, 0) = {} /\ FirstUpTo(words, 0) = {}
    /\ TargetsUpTo(0) = {}
  BY DEF LastUpTo, FirstUpTo, TargetsUpTo

\* After the last phrase.
LEMMA AllPhrases ==
    ASSUME request \in Requests
    PROVE  /\ \A words : LastUpTo(words, Len(request)) = LastOf(words)
           /\ \A words : FirstUpTo(words, Len(request)) = FirstOf(words)
           /\ TargetsUpTo(Len(request)) = Targets
  <1>1. DOMAIN request = 1 .. Len(request)
    BY RequestShape
  <1> QED BY <1>1 DEF LastUpTo, FirstUpTo, TargetsUpTo, LastOf, FirstOf, Targets

-----------------------------------------------------------------------------
(***************************************************************************)
(* What the parser accepts.                                                *)
(***************************************************************************)
\* The arguments of an option are the rest of its phrase.
LEMMA OptionArguments ==
    ASSUME Command, pc = "parsing", NEW k \in 0 .. Len(request), i = 1 + End(request, k), i <= Len(args),
           Word # "none", ~Missing(Word)
    PROVE  LET phrase == request[k + 1]
           IN  /\ phrase \in Seq(Tokens) /\ Len(phrase) = 1 + Arity(Word)
               /\ Len(Tail(phrase)) = Arity(Word)
               /\ \A n \in 1 .. Arity(Word) :
                     Arg(i + n) = phrase[1 + n] /\ Arg(i + n) = Tail(phrase)[n] /\ Arg(i + n) \in Tokens
  <1> DEFINE p == request[k + 1]
  <1>1. Len(p) = 1 + Arity(Word) /\ Arity(Word) \in Nat
    <2>1. Arity(Word) \in Nat
      BY DEF Arity
    <2> QED BY <2>1, ReadingOption DEF Command
  <1>2. \A j \in 0 .. Len(p) - 1 : Arg(i + j) = p[1 + j]
    BY Reading DEF Command
  <1>3. p \in Seq(Tokens)
    BY Reading, RequestShape DEF Command
  <1> HIDE DEF p
  <1>4. Len(Tail(p)) = Arity(Word) /\ \A n \in 1 .. Arity(Word) : Tail(p)[n] = p[1 + n] /\ p[1 + n] \in Tokens
    BY <1>1, <1>3
  <1>5. \A n \in 1 .. Arity(Word) : Arg(i + n) = p[1 + n]
    BY <1>1, <1>2
  <1> QED BY <1>1, <1>3, <1>4, <1>5, Zenon DEF p

\* The parser accepts an option exactly if its phrase can be used.
LEMMA ValidIsUsable ==
    ASSUME Command, pc = "parsing", NEW k \in 0 .. Len(request), i = 1 + End(request, k), i <= Len(args),
           Word # "none", ~Missing(Word)
    PROVE  Valid(Word) <=> Usable(request[k + 1])
  <1> DEFINE p == request[k + 1]
             a == Tail(p)
  <1>1. Word \in Words /\ \A words : Is(p, words) <=> Word \in words
    BY ReadingOption DEF Command
  <1>2. Len(a) = Arity(Word) /\ \A n \in 1 .. Arity(Word) : Arg(i + n) = a[n]
    BY OptionArguments, Zenon
  <1> HIDE DEF p, a
  <1>8. /\ Is(p, {"RADIUS"}) <=> Word = "RADIUS"
        /\ Is(p, {"MEMBER"}) <=> Word = "MEMBER"
        /\ Is(p, {"GEOM"}) <=> Word = "GEOM"
        /\ Is(p, {"COUNT", "LIMIT"}) <=> Word \in {"COUNT", "LIMIT"}
    BY <1>1
  <1>9. Usable(p) <=> /\ Word = "RADIUS" => /\ Len(a) = 4 /\ a[1][1] = "number" /\ a[2][1] = "number"
                                           /\ a[3][1] = "number" /\ a[4][1] = "unit"
                                           /\ a[1][2] \in -180 .. 180 /\ a[2][2] \in -90 .. 90
                      /\ Word = "MEMBER" => /\ Len(a) = 3 /\ a[1] \in Points
                                           /\ a[2][1] = "number" /\ a[3][1] = "unit"
                      /\ Word = "GEOM" => Len(a) = 1 /\ a[1][1] = "wkt"
                      /\ Word \in {"COUNT", "LIMIT"} => Len(a) = 1 /\ a[1][1] = "number" /\ a[1][2] > 0
    <2>1. 3 + 1 = 4 /\ 2 + 1 = 3
      OBVIOUS
    <2> QED BY <1>8, <2>1, Zenon DEF Usable, a
  <1>3. CASE Word = "RADIUS"
    <2>1. Len(a) = 4 /\ \A n \in 1 .. 4 : Arg(i + n) = a[n]
      BY <1>2, <1>3 DEF Arity
    <2>2. Arg(i + 1) = a[1] /\ Arg(i + 2) = a[2] /\ Arg(i + 3) = a[3] /\ Arg(i + 4) = a[4]
      BY <2>1
    <2> QED BY <1>3, <1>9, <2>1, <2>2 DEF Valid, Number, Unit, p
  <1>4. CASE Word = "MEMBER"
    <2>1. Len(a) = 3 /\ \A n \in 1 .. 3 : Arg(i + n) = a[n]
      BY <1>2, <1>4 DEF Arity
    <2>2. Arg(i + 1) = a[1] /\ Arg(i + 2) = a[2] /\ Arg(i + 3) = a[3]
      BY <2>1
    <2> QED BY <1>4, <1>9, <2>1, <2>2 DEF Valid, Number, Unit, p
  <1>5. CASE Word = "GEOM"
    <2>1. Len(a) = 1 /\ \A n \in 1 .. 1 : Arg(i + n) = a[n]
      BY <1>2, <1>5 DEF Arity
    <2>2. Arg(i + 1) = a[1]
      BY <2>1
    <2> QED BY <1>5, <1>9, <2>1, <2>2 DEF Valid, p
  <1>6. CASE Word \in {"COUNT", "LIMIT"}
    <2>1. Len(a) = 1 /\ \A n \in 1 .. 1 : Arg(i + n) = a[n]
      BY <1>2, <1>6 DEF Arity
    <2>2. Arg(i + 1) = a[1]
      BY <2>1
    <2> QED BY <1>6, <1>9, <2>1, <2>2 DEF Valid, Positive, Number, p
  <1>7. CASE Word \notin {"RADIUS", "MEMBER", "GEOM", "COUNT", "LIMIT"}
    BY <1>7, <1>9 DEF Valid, p
  <1> QED BY <1>3, <1>4, <1>5, <1>6, <1>7

\* An option that is cut short cannot be used.
LEMMA MissingIsUnusable ==
    ASSUME Command, pc = "parsing", NEW k \in 0 .. Len(request), i = 1 + End(request, k), i <= Len(args),
           Word # "none", Missing(Word)
    PROVE  ~Usable(request[k + 1])
  <1> DEFINE p == request[k + 1]
             a == Tail(p)
  <1>1. /\ Word \in Words /\ Len(p) < 1 + Arity(Word)
        /\ \A words : Is(p, words) <=> Word \in words
    BY ReadingOption DEF Command
  <1>2. p \in Seq(Tokens) /\ Len(p) \in Nat \ {0}
    BY Reading, RequestShape DEF Command
  <1>3. Len(a) < Arity(Word)
    <2>1. Arity(Word) \in Nat
      BY DEF Arity
    <2> HIDE DEF p
    <2>2. Len(Tail(p)) = Len(p) - 1
      BY <1>2
    <2> QED BY <1>1, <1>2, <2>1, <2>2
  <1>4. Len(a) \in Nat
    <2> HIDE DEF p
    <2> QED BY <1>2
  <1> HIDE DEF p, a
  <1>5. /\ Is(p, {"RADIUS"}) <=> Word = "RADIUS"
        /\ Is(p, {"MEMBER"}) <=> Word = "MEMBER"
        /\ Is(p, {"GEOM"}) <=> Word = "GEOM"
        /\ Is(p, {"COUNT", "LIMIT"}) <=> Word \in {"COUNT", "LIMIT"}
    BY <1>1
  <1>6. ASSUME Usable(p)
        PROVE  /\ Word \in {"RADIUS"} => Len(a) = 4
               /\ Word \in {"MEMBER"} => Len(a) = 3
               /\ Word \in {"GEOM", "COUNT", "LIMIT"} => Len(a) = 1
    BY <1>5, <1>6, Zenon DEF Usable, a
  <1>7. /\ Word \notin {"RADIUS", "MEMBER", "GEOM", "COUNT", "LIMIT"} => Arity(Word) = 0
        /\ Word \in {"RADIUS"} => Arity(Word) = 4
        /\ Word \in {"MEMBER"} => Arity(Word) = 3
        /\ Word \in {"GEOM", "COUNT", "LIMIT"} => Arity(Word) = 1
    BY DEF Arity
  <1>8. ASSUME Usable(p) PROVE FALSE
    <2>1. Word \in {"RADIUS", "MEMBER", "GEOM", "COUNT", "LIMIT"} => Len(a) = Arity(Word)
      BY <1>6, <1>7, <1>8, Zenon
    <2>2. Arity(Word) \in Nat
      BY DEF Arity
    <2>3. Len(a) # Arity(Word) /\ Arity(Word) # 0
      BY <1>3, <1>4, <2>2
    <2> QED BY <1>7, <2>1, <2>2, <2>3, Zenon
  <1> QED BY <1>8 DEF p

-----------------------------------------------------------------------------
(***************************************************************************)
(* parseGisFlags: one phrase more.                                         *)
(***************************************************************************)
\* What the parser does needs no more to be shown.
LEMMA FromParsing == pc = "parsing" /\ ParsingOK => IInv
  <1> SUFFICES ASSUME pc = "parsing", ParsingOK PROVE IInv
    OBVIOUS
  <1>1. Command /\ hits = {} /\ walk = <<>> /\ results = <<>> /\ cap = 0
    BY DEF ParsingOK
  <1>2. PICK k \in 0 .. Len(request) : Progress(k)
    BY DEF ParsingOK
  <1>3. i \in 1 .. Len(args) + 1 /\ Len(args) \in Nat
    <2>1. End(request, k) \in Nat /\ Len(args) \in Nat /\ i = 1 + End(request, k)
      BY <1>1, <1>2, PhraseLayout DEF Command, Progress
    <2>2. End(request, k) <= Len(args)
      <3>1. CASE k = 0
        BY <2>1, <3>1, <1>1, PhraseLayout DEF Command
      <3>2. CASE k # 0
        <4>1. k \in 1 .. Len(request)
          BY <1>1, <3>2, RequestShape DEF Command
        <4> QED BY <1>1, <4>1, PhraseLayout DEF Command
      <3> QED BY <3>1, <3>2
    <2> QED BY <2>1, <2>2
  <1>4. ctx.type \in {"none", "RADIUS", "GEOMETRY"} /\ ctx.sort \in {"none", "ASC", "DESC"}
    BY <1>1 DEF Command, Contexts
  <1>5. reply = NoReply /\ NoReply.kind = "none" /\ NoReply.announced = 0 /\ NoReply.elements = <<>>
    BY <1>1 DEF Command, NoReply
  <1>6. TypeOK
    <2>1. reach \in 0 .. i + 4
      BY <1>1, <1>3 DEF Command
    <2>2. heap \subseteq (1 .. Len(args)) \union {MapBlock, ResultsBlock}
      BY <1>2 DEF Progress, Blocks
    <2>3. misuse \in BOOLEAN /\ reply.kind \in {"none", "error", "empty", "result", "all"}
      BY <1>1, <1>5 DEF Command
    <2>4. Len(results) <= cap /\ cap <= 2 * Len(results)
      BY <1>1
    <2>5. ToSet(walk) \union ToSet(results) \subseteq Fields
      BY <1>1 DEF ToSet
    <2> QED BY <1>1, <1>3, <1>4, <2>1, <2>2, <2>3, <2>4, <2>5 DEF TypeOK
  <1>7. IdleOK /\ WalkingOK /\ ParsedAsMeant
    BY <1>5 DEF IdleOK, WalkingOK, ParsedAsMeant
  <1>8. ArgumentsInRange
    BY <1>1, <1>3 DEF Command, ArgumentsInRange
  <1>9. MemoryBalanced /\ MatchesListed /\ NearestListed
    BY <1>1, <1>5 DEF Command, MemoryBalanced, MatchesListed, NearestListed
  <1>10. ReplyFramed
    <2>1. Len(<<>>) = 0
      OBVIOUS
    <2> QED BY <1>5, <2>1 DEF ReplyFramed
  <1> QED BY <1>6, <1>7, <1>8, <1>9, <1>10 DEF IInv

\* The same of the next state.
LEMMA ToParsing == (pc = "parsing" /\ ParsingOK => IInv)'
  BY FromParsing, PTL

\* The context after an option.
After(c, word) ==
    /\ c.g = IF word \in TargetWords THEN {i} ELSE ctx.g
    /\ word \in TargetWords => c.type \in {"RADIUS", "GEOMETRY"}
    /\ word \notin TargetWords =>
          /\ c.bounds = ctx.bounds /\ c.center = ctx.center /\ c.toMeters = ctx.toMeters
          /\ c.type = ctx.type /\ c.meters = ctx.meters
    /\ word = "RADIUS" =>
          /\ c.center = Place(Arg(i + 1)[2], Arg(i + 2)[2]) /\ c.toMeters = Arg(i + 4)[2]
          /\ c.meters = Arg(i + 3)[2] * Arg(i + 4)[2] /\ c.bounds = <<c.center, c.meters>>
    /\ word = "MEMBER" =>
          /\ c.center = Arg(i + 1) /\ c.toMeters = Arg(i + 3)[2]
          /\ c.meters = Arg(i + 2)[2] * Arg(i + 3)[2] /\ c.bounds = <<c.center, c.meters>>
    /\ word = "GEOM" =>
          /\ c.bounds = Arg(i + 1) /\ c.center = ctx.center /\ c.toMeters = ctx.toMeters
          /\ c.meters = ctx.meters
    /\ c.value = IF word \in ValueWords THEN word = "WITHVALUE" ELSE ctx.value
    /\ c.dist = IF word = "WITHDIST" THEN TRUE ELSE ctx.dist
    /\ c.sort = IF word \in {"ASC", "DESC"} /\ ctx.sort = "none" THEN word ELSE ctx.sort
    /\ c.count = IF word = "COUNT" THEN Arg(i + 1)[2] ELSE ctx.count
    /\ c.limit = IF word = "LIMIT" THEN Arg(i + 1)[2] ELSE ctx.limit
    /\ c = [type |-> c.type, g |-> c.g, bounds |-> c.bounds, center |-> c.center, meters |-> c.meters,
            toMeters |-> c.toMeters, value |-> c.value, dist |-> c.dist, sort |-> c.sort,
            count |-> c.count, limit |-> c.limit]

\* What an option does to the context.
LEMMA AppliedFields ==
    ASSUME ctx \in Contexts(ctx.bounds), NEW word \in Words, NEW c, c = Applied(word)
    PROVE  After(c, word)
  <1>1. CASE word = "RADIUS"
    BY <1>1 DEF After, Applied, Contexts, Circle, TargetWords, ValueWords
  <1>2. CASE word = "MEMBER"
    BY <1>2 DEF After, Applied, Contexts, Circle, TargetWords, ValueWords
  <1>3. CASE word = "GEOM"
    BY <1>3 DEF After, Applied, Contexts, Geometry, TargetWords, ValueWords
  <1>4. CASE word \in ValueWords
    BY <1>4 DEF After, Applied, Contexts, TargetWords, ValueWords
  <1>5. CASE word = "WITHDIST"
    BY <1>5 DEF After, Applied, Contexts, TargetWords, ValueWords
  <1>6. CASE word = "COUNT"
    BY <1>6 DEF After, Applied, Contexts, TargetWords, ValueWords
  <1>7. CASE word = "LIMIT"
    BY <1>7 DEF After, Applied, Contexts, TargetWords, ValueWords
  <1>8. CASE word \in {"ASC", "DESC"}
    BY <1>8 DEF After, Applied, Contexts, Sorted, TargetWords, ValueWords
  <1> QED BY <1>1, <1>2, <1>3, <1>4, <1>5, <1>6, <1>7, <1>8 DEF Words, TargetWords

\* What distances are measured from is among the origins.
LEMMA OriginsHave ==
    /\ Zero \in Origins
    /\ \A x \in -180 .. 180, y \in -90 .. 90 : Place(x, y) \in Origins
    /\ \A f \in Points : f \in Origins
  <1> SUFFICES ASSUME NEW x \in -180 .. 180, NEW y \in -90 .. 90 PROVE Place(x, y) \in Origins
    BY DEF Origins
  <1>1. <<x, y>> \in (-180 .. 180) \X (-90 .. 90) /\ <<x, y>>[1] = x /\ <<x, y>>[2] = y
    OBVIOUS
  <1> QED BY <1>1, ZenonT(30) DEF Origins

\* An option that is accepted leaves a context of the right types.
LEMMA AppliedTyped ==
    ASSUME Command, pc = "parsing", NEW k \in 0 .. Len(request), i = 1 + End(request, k), i <= Len(args),
           NEW word \in Words, Word = word, ~Missing(word), Valid(word), NEW c, c = Applied(word)
    PROVE  c \in Contexts(c.bounds)
  <1>0. word # "none" /\ ctx \in Contexts(ctx.bounds) /\ i \in Int
    <2>1. i \in Int
      BY PhraseLayout DEF Command
    <2> QED BY <2>1 DEF Words, TargetWords, ValueWords, Command
  <1>1. \A n \in 1 .. Arity(word) : Arg(i + n) \in Tokens
    BY <1>0, OptionArguments, Zenon
  <1>2. \A n \in 1 .. Arity(word) : /\ Number(i + n) => Arg(i + n)[2] \in Int
                                    /\ Unit(i + n) => Arg(i + n)[2] \in Nat
    BY <1>1, TokenShape DEF Number, Unit
  <1>8. After(c, word)
    BY <1>0, AppliedFields
  <1>3. /\ ctx.type \in {"none", "RADIUS", "GEOMETRY"} /\ ctx.g \in SUBSET Int /\ ctx.center \in Origins
        /\ ctx.meters \in Int /\ ctx.toMeters \in Nat /\ ctx.value \in BOOLEAN /\ ctx.dist \in BOOLEAN
        /\ ctx.sort \in {"none", "ASC", "DESC"} /\ ctx.count \in Nat /\ ctx.limit \in Nat
    BY <1>0 DEF Contexts
  <1>4. /\ c.type \in {"none", "RADIUS", "GEOMETRY"} /\ c.g \in SUBSET Int
        /\ c.value \in BOOLEAN /\ c.dist \in BOOLEAN /\ c.sort \in {"none", "ASC", "DESC"}
    <2>1. c.g = (IF word \in TargetWords THEN {i} ELSE ctx.g)
      BY <1>8, Zenon DEF After
    <2>2. c.type \in {"RADIUS", "GEOMETRY"} \/ c.type = ctx.type
      BY <1>8, Zenon DEF After
    <2>3. c.value = (IF word \in ValueWords THEN word = "WITHVALUE" ELSE ctx.value)
      BY <1>8, Zenon DEF After
    <2>4. c.dist = (IF word = "WITHDIST" THEN TRUE ELSE ctx.dist)
      BY <1>8, Zenon DEF After
    <2>5. c.sort = (IF word \in {"ASC", "DESC"} /\ ctx.sort = "none" THEN word ELSE ctx.sort)
      BY <1>8, Zenon DEF After
    <2>6. c.value \in BOOLEAN /\ c.dist \in BOOLEAN
      BY <1>3, <2>3, <2>4
    <2>7. c.type \in {"none", "RADIUS", "GEOMETRY"} /\ c.g \in SUBSET Int
      BY <1>0, <1>3, <2>1, <2>2
    <2>8. c.sort \in {"none", "ASC", "DESC"}
      BY <1>3, <2>5
    <2> QED BY <2>6, <2>7, <2>8
  <1>5. c.count \in Nat /\ c.limit \in Nat
    <2>1. /\ c.count = IF word = "COUNT" THEN Arg(i + 1)[2] ELSE ctx.count
          /\ c.limit = IF word = "LIMIT" THEN Arg(i + 1)[2] ELSE ctx.limit
      BY <1>8, Zenon DEF After
    <2>2. ASSUME word \in {"COUNT", "LIMIT"} PROVE Arg(i + 1)[2] \in Nat
      <3>1. 1 \in 1 .. Arity(word)
        BY <2>2 DEF Arity
      <3>2. Number(i + 1) /\ Arg(i + 1)[2] > 0
        BY <2>2 DEF Valid, Positive
      <3>3. Arg(i + 1)[2] \in Int
        BY <1>2, <3>1, <3>2, Zenon
      <3> QED BY <3>2, <3>3
    <2> QED BY <1>3, <2>1, <2>2
  <1>6. c.center \in Origins /\ c.meters \in Int /\ c.toMeters \in Nat
    <2>1. CASE word = "RADIUS"
      <3>1. 1 \in 1 .. Arity(word) /\ 2 \in 1 .. Arity(word) /\ 3 \in 1 .. Arity(word) /\ 4 \in 1 .. Arity(word)
        BY <2>1 DEF Arity
      <3>2. /\ Arg(i + 1)[2] \in -180 .. 180 /\ Arg(i + 2)[2] \in -90 .. 90
            /\ Number(i + 3) /\ Unit(i + 4)
        BY <2>1, Zenon DEF Valid
      <3>3. Arg(i + 3)[2] \in Int /\ Arg(i + 4)[2] \in Nat
        BY <1>2, <3>1, <3>2, Zenon
      <3>4. Place(Arg(i + 1)[2], Arg(i + 2)[2]) \in Origins
        BY <3>2, OriginsHave, Zenon
      <3>5. /\ c.center = Place(Arg(i + 1)[2], Arg(i + 2)[2]) /\ c.toMeters = Arg(i + 4)[2]
            /\ c.meters = Arg(i + 3)[2] * Arg(i + 4)[2]
        BY <1>8, <2>1, Zenon DEF After
      <3> DEFINE x == Arg(i + 3)[2]
                 y == Arg(i + 4)[2]
      <3>6. x \in Int /\ y \in Nat
        BY <3>3
      <3> HIDE DEF x, y
      <3>7. x * y \in Int
        BY <3>6
      <3> QED BY <3>3, <3>4, <3>5, <3>7, Zenon DEF x, y
    <2>2. CASE word = "MEMBER"
      <3>1. 1 \in 1 .. Arity(word) /\ 2 \in 1 .. Arity(word) /\ 3 \in 1 .. Arity(word)
        BY <2>2 DEF Arity
      <3>2. Arg(i + 1) \in Points /\ Number(i + 2) /\ Unit(i + 3)
        BY <2>2, Zenon DEF Valid
      <3>3. Arg(i + 2)[2] \in Int /\ Arg(i + 3)[2] \in Nat
        BY <1>2, <3>1, <3>2, Zenon
      <3>4. Arg(i + 1) \in Origins
        BY <3>2, OriginsHave, Zenon
      <3>5. c.center = Arg(i + 1) /\ c.toMeters = Arg(i + 3)[2] /\ c.meters = Arg(i + 2)[2] * Arg(i + 3)[2]
        BY <1>8, <2>2, Zenon DEF After
      <3> DEFINE x == Arg(i + 2)[2]
                 y == Arg(i + 3)[2]
      <3>6. x \in Int /\ y \in Nat
        BY <3>3
      <3> HIDE DEF x, y
      <3>7. x * y \in Int
        BY <3>6
      <3> QED BY <3>3, <3>4, <3>5, <3>7, Zenon DEF x, y
    <2>3. CASE word \notin {"RADIUS", "MEMBER"}
      <3>1. word = "GEOM" \/ word \notin TargetWords
        BY <2>3 DEF TargetWords
      <3>2. c.center = ctx.center /\ c.meters = ctx.meters /\ c.toMeters = ctx.toMeters
        BY <1>8, <3>1, Zenon DEF After
      <3> QED BY <1>3, <3>2
    <2> QED BY <2>1, <2>2, <2>3
  <1>7. c = [type |-> c.type, g |-> c.g, bounds |-> c.bounds, center |-> c.center, meters |-> c.meters,
             toMeters |-> c.toMeters, value |-> c.value, dist |-> c.dist, sort |-> c.sort,
             count |-> c.count, limit |-> c.limit]
    BY <1>8, Zenon DEF After
  <1> QED BY <1>4, <1>5, <1>6, <1>7 DEF Contexts

\* The phrase of an option.
LEMMA OptionPhrase ==
    ASSUME Command, pc = "parsing", NEW k \in 0 .. Len(request), i = 1 + End(request, k), i <= Len(args),
           NEW word \in Words, Word = word, ~Missing(word)
    PROVE  LET phrase == request[k + 1]
           IN  /\ k \in Nat /\ word # "none"
               /\ phrase[1] = <<"word", word>>
               /\ \A words : Is(phrase, words) <=> word \in words
               /\ \A n \in 1 .. Arity(word) : Arg(i + n) = phrase[1 + n]
               /\ Len(phrase) = 1 + Arity(word)
               /\ word \in ValueWords => phrase = <<<<"word", word>>>>
  <1> DEFINE p == request[k + 1]
  <1>1. word # "none" /\ k \in Nat
    BY RequestShape DEF Words, TargetWords, ValueWords, Command
  <1>2. p[1] = <<"word", word>> /\ \A words : Is(p, words) <=> word \in words
    BY <1>1, ReadingOption DEF Command
  <1>3. /\ p \in Seq(Tokens) /\ Len(p) = 1 + Arity(word)
        /\ \A n \in 1 .. Arity(word) : Arg(i + n) = p[1 + n]
    BY <1>1, OptionArguments, Zenon
  <1> HIDE DEF p
  <1>4. ASSUME word \in ValueWords PROVE p = <<<<"word", word>>>>
    <2>1. Len(p) = 1
      BY <1>3, <1>4 DEF Arity, ValueWords
    <2>2. p \in Seq(Tokens)
      BY <1>3
    <2>3. p = <<p[1]>>
      BY <2>1, <2>2
    <2> QED BY <1>2, <2>3, Zenon
  <1> QED BY <1>1, <1>2, <1>3, <1>4, Zenon DEF p

\* After an option the context has what one more phrase says.
LEMMA OptionsStep ==
    ASSUME Command, pc = "parsing", NEW k \in 0 .. Len(request), i = 1 + End(request, k), i <= Len(args),
           NEW word \in Words, Word = word, ~Missing(word), Valid(word),
           Options(k), ctx' = Applied(word), request' = request
    PROVE  Options(k + 1)'
  <1> DEFINE p == request[k + 1]
             last(words) == LastUpTo(words, k)
             lastNow(words) == LastUpTo(words, k + 1)
             first == FirstUpTo({"ASC", "DESC"}, k)
             firstNow == FirstUpTo({"ASC", "DESC"}, k + 1)
  <1>1. /\ k \in Nat
        /\ p[1] = <<"word", word>>
        /\ \A words : Is(p, words) <=> word \in words
        /\ \A n \in 1 .. Arity(word) : Arg(i + n) = p[1 + n]
        /\ word \in ValueWords => p = <<<<"word", word>>>>
    BY OptionPhrase, Zenon
  <1>2. After(ctx', word) /\ ctx \in Contexts(ctx.bounds)
    BY AppliedFields DEF Command
  <1>3. \A words : lastNow(words) = IF word \in words THEN {p} ELSE last(words)
    BY <1>1, LastStep
  <1>4. firstNow = IF word \in {"ASC", "DESC"} /\ first = {} THEN {p} ELSE first
    BY <1>1, FirstStep
  <1>5. /\ \A words : LastUpTo(words, k + 1)' = lastNow(words)
        /\ FirstUpTo({"ASC", "DESC"}, k + 1)' = firstNow
    BY DEF LastUpTo, FirstUpTo
  <1>6. word \in {"COUNT", "LIMIT"} => Arg(i + 1) = p[2] /\ Arg(i + 1)[2] # 0
    <2> SUFFICES ASSUME word \in {"COUNT", "LIMIT"} PROVE Arg(i + 1) = p[2] /\ Arg(i + 1)[2] # 0
      OBVIOUS
    <2>1. 1 \in 1 .. Arity(word)
      BY DEF Arity
    <2>2. Arg(i + 1)[2] # 0
      BY DEF Valid, Positive
    <2> QED BY <1>1, <2>1, <2>2
  <1>7. /\ ctx.value = (last(ValueWords) \subseteq {<<<<"word", "WITHVALUE">>>>})
        /\ ctx.dist = (last({"WITHDIST"}) # {})
        /\ {ctx.sort} \ {"none"} = {phrase[1][2] : phrase \in first}
        /\ {ctx.count} \ {0} = {phrase[2][2] : phrase \in last({"COUNT"})}
        /\ {ctx.limit} \ {0} = {phrase[2][2] : phrase \in last({"LIMIT"})}
    BY DEF Options
  <1> HIDE DEF p, last, lastNow, first, firstNow
  <1>8. ctx'.value = (lastNow(ValueWords) \subseteq {<<<<"word", "WITHVALUE">>>>})
    <2>1. CASE word \in ValueWords
      <3>1. ctx'.value = (word = "WITHVALUE")
        BY <1>2, <2>1 DEF After
      <3>2. lastNow(ValueWords) = {<<<<"word", word>>>>}
        BY <1>1, <1>3, <2>1
      <3>3. lastNow(ValueWords) \subseteq {<<<<"word", "WITHVALUE">>>>} <=> word = "WITHVALUE"
        BY <3>2
      <3> QED BY <3>1, <3>3
    <2>2. CASE word \notin ValueWords
      BY <1>2, <1>3, <1>7, <2>2 DEF After
    <2> QED BY <2>1, <2>2
  <1>9. ctx'.dist = (lastNow({"WITHDIST"}) # {})
    <2>1. CASE word \in {"WITHDIST"}
      BY <1>2, <1>3, <2>1 DEF After
    <2>2. CASE word \notin {"WITHDIST"}
      BY <1>2, <1>3, <1>7, <2>2 DEF After
    <2> QED BY <2>1, <2>2
  <1>10. {ctx'.sort} \ {"none"} = {phrase[1][2] : phrase \in firstNow}
    <2>1. first = {} <=> ctx.sort = "none"
      <3>1. CASE first = {}
        <4>1. {ctx.sort} \ {"none"} = {}
          BY <1>7, <3>1
        <4> QED BY <3>1, <4>1
      <3>2. CASE first # {}
        <4>1. PICK phrase \in first : TRUE
          BY <3>2
        <4>2. phrase[1][2] \in {ctx.sort} \ {"none"}
          BY <1>7, <4>1, Zenon
        <4> QED BY <3>2, <4>2
      <3> QED BY <3>1, <3>2
    <2>2. CASE word \in {"ASC", "DESC"} /\ first = {}
      <3>1. ctx'.sort = word /\ p[1][2] = word /\ firstNow = {p}
        BY <1>1, <1>2, <1>4, <2>1, <2>2 DEF After
      <3> QED BY <2>2, <3>1
    <2>3. CASE ~(word \in {"ASC", "DESC"} /\ first = {})
      BY <1>2, <1>4, <1>7, <2>1, <2>3 DEF After
    <2> QED BY <2>2, <2>3
  <1>11. {ctx'.count} \ {0} = {phrase[2][2] : phrase \in lastNow({"COUNT"})}
    <2>1. CASE word \in {"COUNT"}
      <3>1. ctx'.count = Arg(i + 1)[2] /\ lastNow({"COUNT"}) = {p}
        BY <1>2, <1>3, <2>1 DEF After
      <3> QED BY <1>6, <2>1, <3>1
    <2>2. CASE word \notin {"COUNT"}
      BY <1>2, <1>3, <1>7, <2>2 DEF After
    <2> QED BY <2>1, <2>2
  <1>12. {ctx'.limit} \ {0} = {phrase[2][2] : phrase \in lastNow({"LIMIT"})}
    <2>1. CASE word \in {"LIMIT"}
      <3>1. ctx'.limit = Arg(i + 1)[2] /\ lastNow({"LIMIT"}) = {p}
        BY <1>2, <1>3, <2>1 DEF After
      <3> QED BY <1>6, <2>1, <3>1
    <2>2. CASE word \notin {"LIMIT"}
      BY <1>2, <1>3, <1>7, <2>2 DEF After
    <2> QED BY <2>1, <2>2
  <1> QED BY <1>5, <1>8, <1>9, <1>10, <1>11, <1>12, ZenonT(30) DEF Options

\* What a phrase with a target means is what the parser makes of it.
LEMMA TargetMeaning ==
    ASSUME Command, pc = "parsing", NEW k \in 0 .. Len(request), i = 1 + End(request, k), i <= Len(args),
           NEW word \in TargetWords, Word = word, ~Missing(word), Valid(word), NEW c, c = Applied(word)
    PROVE  LET meaning == Meaning(request[k + 1])
           IN  /\ c.bounds = meaning.bounds
               /\ word # "GEOM" => c.center = meaning.center /\ c.toMeters = meaning.toMeters
               /\ word = "GEOM" => /\ meaning.center = Zero /\ meaning.toMeters = 1
                                   /\ c.center = ctx.center /\ c.toMeters = ctx.toMeters
  <1> DEFINE p == request[k + 1]
  <1>1. word \in Words
    BY DEF Words
  <1>2. /\ \A words : Is(p, words) <=> word \in words
        /\ Len(p) = 1 + Arity(word)
        /\ \A n \in 1 .. Arity(word) : Arg(i + n) = p[1 + n]
    BY <1>1, OptionPhrase, Zenon
  <1>3. After(c, word)
    BY <1>1, AppliedFields DEF Command
  <1>4. \A n \in 1 .. Arity(word) : /\ Number(i + n) => Arg(i + n)[2] \in Int
                                    /\ Unit(i + n) => Arg(i + n)[2] \in Nat
    <2>1. word # "none"
      BY DEF TargetWords
    <2>2. \A n \in 1 .. Arity(word) : Arg(i + n) \in Tokens
      BY <2>1, OptionArguments, Zenon
    <2> QED BY <2>2, TokenShape DEF Number, Unit
  <1> HIDE DEF p
  <1>5. CASE word = "GEOM"
    <2>1. Is(p, {"GEOM"}) /\ Arg(i + 1) = p[2]
      <3>1. 1 \in 1 .. Arity(word) /\ 1 + 1 = 2
        BY <1>5 DEF Arity
      <3> QED BY <1>2, <1>5, <3>1
    <2>2. Meaning(p) = [bounds |-> p[2], center |-> Zero, toMeters |-> 1]
      BY <2>1, Zenon DEF Meaning
    <2> QED BY <1>3, <1>5, <2>1, <2>2 DEF After, p
  <1>6. CASE word = "RADIUS"
    <2>1. Is(p, {"RADIUS"}) /\ ~Is(p, {"GEOM"}) /\ Len(p) = 5
      BY <1>2, <1>6 DEF Arity
    <2>2. Arg(i + 1) = p[2] /\ Arg(i + 2) = p[3] /\ Arg(i + 3) = p[4] /\ Arg(i + 4) = p[5]
      <3>1. /\ 1 \in 1 .. Arity(word) /\ 2 \in 1 .. Arity(word) /\ 3 \in 1 .. Arity(word) /\ 4 \in 1 .. Arity(word)
            /\ 1 + 1 = 2 /\ 1 + 2 = 3 /\ 1 + 3 = 4 /\ 1 + 4 = 5
        BY <1>6 DEF Arity
      <3> QED BY <1>2, <3>1, Zenon
    <2>3. p[4][2] * p[5][2] = p[5][2] * p[4][2]
      <3> DEFINE x == p[4][2]
                 y == p[5][2]
      <3>1. x \in Int /\ y \in Nat
        <4>1. 3 \in 1 .. Arity(word) /\ 4 \in 1 .. Arity(word)
          BY <1>6 DEF Arity
        <4>2. Number(i + 3) /\ Unit(i + 4)
          BY <1>6, Zenon DEF Valid
        <4> QED BY <1>4, <2>2, <4>1, <4>2, Zenon
      <3> HIDE DEF x, y
      <3>2. x * y = y * x
        BY <3>1
      <3> QED BY <3>2 DEF x, y
    <2> DEFINE center == Place(p[2][2], p[3][2])
    <2>4. Meaning(p) = [bounds |-> <<center, p[5][2] * p[4][2]>>, center |-> center, toMeters |-> p[5][2]]
      <3>1. 5 - 1 = 4
        OBVIOUS
      <3> QED BY <2>1, <3>1, Zenon DEF Meaning
    <2>5. c.center = center /\ c.toMeters = p[5][2] /\ c.bounds = <<center, p[4][2] * p[5][2]>>
      BY <1>3, <1>6, <2>2, Zenon DEF After
    <2> HIDE DEF center
    <2> QED BY <1>6, <2>3, <2>4, <2>5 DEF p
  <1>7. CASE word = "MEMBER"
    <2>1. ~Is(p, {"RADIUS"}) /\ ~Is(p, {"GEOM"}) /\ Len(p) = 4
      BY <1>2, <1>7 DEF Arity
    <2>2. Arg(i + 1) = p[2] /\ Arg(i + 2) = p[3] /\ Arg(i + 3) = p[4]
      <3>1. /\ 1 \in 1 .. Arity(word) /\ 2 \in 1 .. Arity(word) /\ 3 \in 1 .. Arity(word)
            /\ 1 + 1 = 2 /\ 1 + 2 = 3 /\ 1 + 3 = 4
        BY <1>7 DEF Arity
      <3> QED BY <1>2, <3>1, Zenon
    <2>3. p[3][2] * p[4][2] = p[4][2] * p[3][2]
      <3> DEFINE x == p[3][2]
                 y == p[4][2]
      <3>1. x \in Int /\ y \in Nat
        <4>1. 2 \in 1 .. Arity(word) /\ 3 \in 1 .. Arity(word)
          BY <1>7 DEF Arity
        <4>2. Number(i + 2) /\ Unit(i + 3)
          BY <1>7, Zenon DEF Valid
        <4> QED BY <1>4, <2>2, <4>1, <4>2, Zenon
      <3> HIDE DEF x, y
      <3>2. x * y = y * x
        BY <3>1
      <3> QED BY <3>2 DEF x, y
    <2>4. Meaning(p) = [bounds |-> <<p[2], p[4][2] * p[3][2]>>, center |-> p[2], toMeters |-> p[4][2]]
      <3>1. 4 - 1 = 3
        OBVIOUS
      <3> QED BY <2>1, <3>1, Zenon DEF Meaning
    <2>5. c.center = p[2] /\ c.toMeters = p[4][2] /\ c.bounds = <<p[2], p[3][2] * p[4][2]>>
      BY <1>3, <1>7, <2>2, Zenon DEF After
    <2> QED BY <1>7, <2>3, <2>4, <2>5 DEF p
  <1> QED BY <1>5, <1>6, <1>7 DEF TargetWords

\* After an option the context has the target that one more phrase says, and the heap its block.
LEMMA TargetStep ==
    ASSUME Command, pc = "parsing", NEW k \in 0 .. Len(request), i = 1 + End(request, k), i <= Len(args),
           NEW word \in Words, Word = word, ~Missing(word), Valid(word),
           Target(k), Blocks(k), ctx' = Applied(word), request' = request, args' = args,
           heap' = heap \union (IF word \in TargetWords THEN {i} ELSE {})
    PROVE  Target(k + 1)' /\ Blocks(k + 1)'
  <1> DEFINE p == request[k + 1]
             T == TargetsUpTo(k)
             TNow == TargetsUpTo(k + 1)
             last == LastUpTo(TargetWords, k)
             lastNow == LastUpTo(TargetWords, k + 1)
  <1>1. /\ k \in Nat
        /\ Is(p, TargetWords) <=> word \in TargetWords
    BY OptionPhrase
  <1>2. After(ctx', word)
    BY AppliedFields DEF Command
  <1>3. /\ TargetsUpTo(k + 1)' = TNow /\ LastUpTo(TargetWords, k + 1)' = lastNow
        /\ TNow = T \union (IF word \in TargetWords THEN {k + 1} ELSE {})
        /\ lastNow = IF word \in TargetWords THEN {p} ELSE last
    <2>1. TargetsUpTo(k + 1)' = TNow /\ LastUpTo(TargetWords, k + 1)' = lastNow
      BY DEF TargetsUpTo, LastUpTo
    <2>2. TNow = T \union (IF word \in TargetWords THEN {k + 1} ELSE {})
      BY <1>1, TargetsStep, Zenon
    <2>3. lastNow = IF word \in TargetWords THEN {p} ELSE last
      BY <1>1, LastStep, Zenon
    <2> QED BY <2>1, <2>2, <2>3, Zenon
  <1>4. k + 1 \notin T
    BY <1>1 DEF TargetsUpTo
  <1>5. i \in 1 .. Len(args)
    BY PhraseLayout DEF Command
  <1>6. /\ T = {} <=> last = {}
        /\ T = {} => ctx.g = {} /\ ctx.center = Zero /\ ctx.toMeters = 1
        /\ \A phrase \in last : OneGiven(phrase, k)
        /\ ctx.g \subseteq heap /\ heap \subseteq 1 .. Len(args)
        /\ AtMostOne(T) => heap = ctx.g
    <2>1. ~(i > Len(args))
      BY <1>5, PhraseLayout DEF Command
    <2> QED BY <2>1 DEF Target, NoneGiven, Blocks
  <1> HIDE DEF p, T, TNow, last, lastNow
  <1>7. CASE word \in TargetWords
    <2>1. TNow = T \union {k + 1} /\ lastNow = {p} /\ ctx'.g = {i} /\ heap' = heap \union {i}
      BY <1>2, <1>3, <1>7 DEF After
    <2>2. AtMostOne(TNow) => T = {}
      BY <1>4, <2>1 DEF AtMostOne
    <2>3. T = {} => heap = {}
      BY <1>6 DEF AtMostOne
    <2>4. OneGiven(p, k + 1)'
      <3>1. /\ ctx'.bounds = Meaning(p).bounds
            /\ word # "GEOM" => ctx'.center = Meaning(p).center /\ ctx'.toMeters = Meaning(p).toMeters
            /\ word = "GEOM" => /\ Meaning(p).center = Zero /\ Meaning(p).toMeters = 1
                                /\ ctx'.center = ctx.center /\ ctx'.toMeters = ctx.toMeters
        BY <1>7, TargetMeaning DEF p
      <3>2. p' = p
        BY DEF p
      <3> QED BY <1>3, <1>6, <2>1, <2>2, <3>1, <3>2 DEF OneGiven
    <2>5. p' = p
      BY DEF p
    <2>6. Target(k + 1)'
      BY <1>3, <2>1, <2>4, <2>5 DEF Target
    <2>7. Blocks(k + 1)'
      BY <1>3, <1>5, <1>6, <2>1, <2>2, <2>3 DEF Blocks
    <2> QED BY <2>6, <2>7
  <1>8. CASE word \notin TargetWords
    <2>1. /\ TNow = T /\ lastNow = last /\ heap' = heap /\ ctx'.g = ctx.g /\ ctx'.bounds = ctx.bounds
          /\ ctx'.center = ctx.center /\ ctx'.toMeters = ctx.toMeters
      BY <1>2, <1>3, <1>8 DEF After
    <2>2. \A phrase \in last : OneGiven(phrase, k + 1)'
      BY <1>3, <1>6, <2>1 DEF OneGiven, T
    <2>3. T = {} => NoneGiven'
      BY <1>6, <2>1 DEF NoneGiven
    <2>4. Target(k + 1)'
      BY <1>3, <1>6, <2>1, <2>2, <2>3 DEF Target
    <2>5. Blocks(k + 1)'
      BY <1>3, <1>6, <2>1 DEF Blocks
    <2> QED BY <2>4, <2>5
  <1> QED BY <1>7, <1>8

\* Where the parser is.
LEMMA AtPhrase ==
    ASSUME IInv, Parsing
    PROVE  /\ Command /\ pc = "parsing" /\ i <= Len(args)
           /\ i \in 1 .. Len(args) /\ Len(args) \in Nat
           /\ hits = {} /\ walk = <<>> /\ results = <<>> /\ cap = 0
           /\ \E k \in 0 .. Len(request) : Progress(k)
  <1>1. ParsingOK /\ TypeOK /\ pc = "parsing" /\ i <= Len(args)
    BY DEF IInv, Parsing
  <1>2. Command
    BY <1>1 DEF ParsingOK
  <1>3. Len(args) \in Nat
    BY <1>2, PhraseLayout DEF Command
  <1>4. i \in 1 .. Len(args)
    BY <1>1, <1>3 DEF TypeOK
  <1> QED BY <1>1, <1>2, <1>3, <1>4 DEF ParsingOK

\* An option that can be used.
LEMMA ParseOptionStep ==
    ASSUME IInv, NEW word \in Words, ParseOption(word)
    PROVE  IInv'
  <1>1. /\ Command /\ pc = "parsing" /\ i \in 1 .. Len(args) /\ i <= Len(args) /\ Len(args) \in Nat
        /\ hits = {} /\ walk = <<>> /\ results = <<>> /\ cap = 0
    BY AtPhrase DEF ParseOption
  <1>2. PICK k \in 0 .. Len(request) : Progress(k)
    BY AtPhrase DEF ParseOption
  <1> DEFINE p == request[k + 1]
  <1>3. /\ Word = word /\ ~Missing(word) /\ Valid(word) /\ ctx' = Applied(word)
        /\ heap' = heap \union (IF word \in TargetWords THEN {i} ELSE {})
        /\ ReadTo(i + Arity(word)) /\ i' = i + 1 + Arity(word)
        /\ UNCHANGED <<request, args, pc, misuse, hits, walk, results, cap, reply>>
    BY DEF ParseOption
  <1>4. i = 1 + End(request, k)
    BY <1>2 DEF Progress
  <1>5. /\ k + 1 \in 1 .. Len(request) /\ k \in Nat
        /\ End(request, k + 1) = End(request, k) + Len(p) /\ Len(p) = 1 + Arity(word)
        /\ Arity(word) \in Nat /\ End(request, k) \in Nat
    <2>1. k + 1 \in 1 .. Len(request) /\ End(request, k + 1) = End(request, k) + Len(p)
      BY <1>1, <1>4, Reading DEF Command
    <2>2. k \in Nat /\ Len(p) = 1 + Arity(word)
      BY <1>1, <1>3, <1>4, OptionPhrase
    <2>3. End(request, k) \in Nat
      BY <1>1, PhraseLayout DEF Command
    <2>4. Arity(word) \in Nat
      BY DEF Arity
    <2> QED BY <2>1, <2>2, <2>3, <2>4
  <1>6. ctx' \in Contexts(ctx'.bounds)
    BY <1>1, <1>3, <1>4, AppliedTyped
  <1>7. reach' = i' - 1
    <2>1. reach = i - 1 /\ i \in Nat
      BY <1>1 DEF Command
    <2> QED BY <1>3, <1>5, <2>1 DEF ReadTo
  <1>8. Command'
    BY <1>1, <1>3, <1>6, <1>7 DEF Command
  <1>9. i' = 1 + End(request, k + 1)
    BY <1>3, <1>4, <1>5
  <1>10. Usable(p)
    <2>1. Word # "none"
      BY <1>3 DEF Words, TargetWords, ValueWords
    <2> QED BY <1>1, <1>3, <1>4, <2>1, ValidIsUsable
  <1>11. \A n \in 1 .. k + 1 : Usable(request[n])
    <2>1. \A n \in 1 .. k + 1 : n \in 1 .. k \/ n = k + 1
      BY <1>5
    <2> QED BY <1>2, <1>10, <2>1 DEF Progress
  <1>12. Options(k + 1)'
    BY <1>1, <1>2, <1>3, <1>4, OptionsStep DEF Progress
  <1>13. Target(k + 1)' /\ Blocks(k + 1)'
    BY <1>1, <1>2, <1>3, <1>4, TargetStep DEF Progress
  <1>14. Progress(k + 1)'
    BY <1>3, <1>9, <1>11, <1>12, <1>13 DEF Progress
  <1>15. ParsingOK'
    <2>1. k + 1 \in 0 .. Len(request')
      BY <1>3, <1>5
    <2> QED BY <1>1, <1>3, <1>8, <1>14, <2>1 DEF ParsingOK
  <1> QED BY <1>1, <1>3, <1>15, ToParsing

\* An argument that is no option says nothing.
LEMMA ParseOtherStep ==
    ASSUME IInv, ParseOther
    PROVE  IInv'
  <1>1. /\ Command /\ pc = "parsing" /\ i \in 1 .. Len(args) /\ i <= Len(args) /\ Len(args) \in Nat
        /\ hits = {} /\ walk = <<>> /\ results = <<>> /\ cap = 0
    BY AtPhrase DEF ParseOther
  <1>2. PICK k \in 0 .. Len(request) : Progress(k)
    BY AtPhrase DEF ParseOther
  <1> DEFINE p == request[k + 1]
  <1>3. /\ Word = "none" /\ ReadTo(i) /\ i' = i + 1
        /\ UNCHANGED <<request, args, pc, ctx, heap, misuse, hits, walk, results, cap, reply>>
    BY DEF ParseOther
  <1>4. i = 1 + End(request, k)
    BY <1>2 DEF Progress
  <1>5. Len(p) = 1 /\ \A words \in SUBSET Words : ~Is(p, words)
    BY <1>1, <1>3, <1>4, ReadingOption DEF Command
  <1>6. /\ k + 1 \in 1 .. Len(request) /\ k \in Nat
        /\ End(request, k + 1) = End(request, k) + 1 /\ End(request, k) \in Nat
    <2>1. k + 1 \in 1 .. Len(request) /\ End(request, k + 1) = End(request, k) + Len(p)
      BY <1>1, <1>4, Reading DEF Command
    <2>2. End(request, k) \in Nat
      BY <1>1, PhraseLayout DEF Command
    <2>3. k \in Nat
      BY <1>1, RequestShape DEF Command
    <2> QED BY <1>5, <2>1, <2>2, <2>3
  <1>7. Command' /\ i' = 1 + End(request, k + 1)
    <2>1. reach' = i' - 1
      <3>1. reach = i - 1 /\ i \in Nat
        BY <1>1 DEF Command
      <3> QED BY <1>3, <3>1 DEF ReadTo
    <2> QED BY <1>1, <1>3, <1>4, <1>6, <2>1 DEF Command
  <1>8. /\ \A words \in SUBSET Words : LastUpTo(words, k + 1) = LastUpTo(words, k)
        /\ \A words \in SUBSET Words : FirstUpTo(words, k + 1) = FirstUpTo(words, k)
        /\ TargetsUpTo(k + 1) = TargetsUpTo(k)
    <2>1. TargetWords \in SUBSET Words
      BY DEF Words
    <2> QED BY <1>5, <1>6, <2>1, LastStep, FirstStep, TargetsStep
  <1>9. Options(k + 1)
    <2>1. /\ ValueWords \in SUBSET Words /\ {"WITHDIST"} \in SUBSET Words /\ {"ASC", "DESC"} \in SUBSET Words
          /\ {"COUNT"} \in SUBSET Words /\ {"LIMIT"} \in SUBSET Words
      BY DEF Words
    <2>2. Options(k)
      BY <1>2 DEF Progress
    <2> QED BY <1>8, <2>1, <2>2, Zenon DEF Options
  <1>10. Target(k + 1)
    <2>1. TargetWords \in SUBSET Words
      BY DEF Words
    <2>2. Target(k) /\ LastUpTo(TargetWords, k + 1) = LastUpTo(TargetWords, k)
      BY <1>2, <1>8, <2>1 DEF Progress
    <2> QED BY <1>8, <2>2 DEF Target, OneGiven
  <1>11. Blocks(k + 1)
    BY <1>2, <1>8 DEF Progress, Blocks
  <1>12. Usable(p)
    <2>1. /\ {"RADIUS"} \in SUBSET Words /\ {"MEMBER"} \in SUBSET Words /\ {"GEOM"} \in SUBSET Words
          /\ {"COUNT", "LIMIT"} \in SUBSET Words
      BY DEF Words, TargetWords
    <2> QED BY <1>5, <2>1 DEF Usable
  <1>13. \A n \in 1 .. k + 1 : Usable(request[n])
    <2>1. \A n \in 1 .. k + 1 : n \in 1 .. k \/ n = k + 1
      BY <1>6
    <2> QED BY <1>2, <1>12, <2>1 DEF Progress
  <1>14. Options(k + 1)' /\ Blocks(k + 1)'
    <2>1. \A words : LastUpTo(words, k + 1)' = LastUpTo(words, k + 1)
      BY <1>3 DEF LastUpTo
    <2>2. \A words : FirstUpTo(words, k + 1)' = FirstUpTo(words, k + 1)
      BY <1>3 DEF FirstUpTo
    <2>3. TargetsUpTo(k + 1)' = TargetsUpTo(k + 1)
      BY <1>3 DEF TargetsUpTo
    <2>4. Options(k + 1)'
      BY <1>3, <1>9, <2>1, <2>2, Zenon DEF Options
    <2>5. Blocks(k + 1)'
      BY <1>3, <1>11, <2>3 DEF Blocks
    <2> QED BY <2>4, <2>5
  <1>15. Target(k + 1)'
    <2>1. NoneGiven => NoneGiven'
      BY <1>1, <1>3 DEF NoneGiven
    <2>2. \A phrase : OneGiven(phrase, k + 1) => OneGiven(phrase, k + 1)'
      BY <1>3 DEF OneGiven, TargetsUpTo
    <2> QED BY <1>3, <1>10, <2>1, <2>2 DEF Target, LastUpTo, TargetsUpTo
  <1>16. ParsingOK'
    <2>1. Progress(k + 1)'
      BY <1>3, <1>7, <1>13, <1>14, <1>15 DEF Progress
    <2>2. k + 1 \in 0 .. Len(request')
      BY <1>3, <1>6
    <2> QED BY <1>1, <1>3, <1>7, <2>1, <2>2 DEF ParsingOK
  <1> QED BY <1>1, <1>3, <1>16, ToParsing

-----------------------------------------------------------------------------
(***************************************************************************)
(* Commands that arrive, and commands that are refused.                    *)
(***************************************************************************)
\* A reply without elements needs no more to be shown.
LEMMA FromRefused ==
    pc = "done" /\ TypeOK /\ ArgumentsInRange /\ MemoryBalanced
        /\ reply \in {Error, [NoReply EXCEPT !.kind = "empty"]}
        /\ (reply = Error /\ reach > 0 => ~Acceptable)
    => IInv
  <1> SUFFICES ASSUME pc = "done", TypeOK, ArgumentsInRange, MemoryBalanced,
                      reply \in {Error, [NoReply EXCEPT !.kind = "empty"]},
                      reply = Error /\ reach > 0 => ~Acceptable
               PROVE  IInv
    OBVIOUS
  <1>1. /\ reply.kind \in {"error", "empty"} /\ reply.announced = 0 /\ reply.elements = <<>>
        /\ reply.kind = "error" => reply = Error
    BY DEF Error, NoReply
  <1>2. IdleOK /\ ParsingOK /\ WalkingOK
    BY DEF IdleOK, ParsingOK, WalkingOK
  <1>3. ParsedAsMeant /\ MatchesListed /\ NearestListed
    BY <1>1 DEF ParsedAsMeant, MatchesListed, NearestListed
  <1>4. Len(<<>>) = 0
    OBVIOUS
  <1>5. ReplyFramed
    BY <1>1, <1>4 DEF ReplyFramed
  <1> QED BY <1>2, <1>3, <1>5 DEF IInv

\* The same of the next state.
LEMMA ToRefused ==
    (pc = "done" /\ TypeOK /\ ArgumentsInRange /\ MemoryBalanced
        /\ reply \in {Error, [NoReply EXCEPT !.kind = "empty"]}
        /\ (reply = Error /\ reach > 0 => ~Acceptable)
    => IInv)'
  BY FromRefused, PTL

\* No command is on its way.
LEMMA FromIdle == pc = "idle" /\ IdleOK => IInv
  <1> SUFFICES ASSUME pc = "idle", IdleOK PROVE IInv
    OBVIOUS
  <1>1. /\ i = 1 /\ reach = 0 /\ ctx = NewContext /\ heap = {} /\ misuse = FALSE
        /\ hits = {} /\ walk = <<>> /\ results = <<>> /\ cap = 0 /\ reply = NoReply
        /\ request = <<>> /\ args = <<>>
    BY DEF IdleOK
  <1>2. reply.kind = "none" /\ reply.announced = 0 /\ reply.elements = <<>>
    BY <1>1 DEF NoReply
  <1>3. Len(<<>>) = 0 /\ ToSet(<<>>) = {}
    BY DEF ToSet
  <1>4. ctx.type = "none" /\ ctx.sort = "none"
    BY <1>1 DEF NewContext
  <1>5. TypeOK
    <2>1. i \in 1 .. Len(args) + 1 /\ reach \in 0 .. i + 4
      BY <1>1, <1>3
    <2>2. Len(results) <= cap /\ cap <= 2 * Len(results) /\ ToSet(walk) \union ToSet(results) \subseteq Fields
      BY <1>1, <1>3
    <2> QED BY <1>1, <1>2, <1>4, <2>1, <2>2 DEF TypeOK
  <1>6. ParsingOK /\ WalkingOK /\ ParsedAsMeant /\ MatchesListed /\ NearestListed
    BY <1>2 DEF ParsingOK, WalkingOK, ParsedAsMeant, MatchesListed, NearestListed
  <1>7. ArgumentsInRange /\ MemoryBalanced /\ ReplyFramed
    BY <1>1, <1>2, <1>3 DEF ArgumentsInRange, MemoryBalanced, ReplyFramed
  <1> QED BY <1>5, <1>6, <1>7 DEF IInv

\* The same of the next state.
LEMMA ToIdle == (pc = "idle" /\ IdleOK => IInv)'
  BY FromIdle, PTL

\* When a command has arrived that is answered at once.
LEMMA RefusedAtOnce ==
    ASSUME IInv, pc = "idle", NEW phrases \in Requests, args' = FlattenSeq(phrases), pc' = "done",
           UNCHANGED <<i, reach, ctx, heap, misuse, hits, walk, results, cap>>,
           reply' \in {Error, [NoReply EXCEPT !.kind = "empty"]}
    PROVE  IInv'
  <1>1. /\ i = 1 /\ reach = 0 /\ ctx = NewContext /\ heap = {} /\ misuse = FALSE
        /\ hits = {} /\ walk = <<>> /\ results = <<>> /\ cap = 0
    BY DEF IInv, IdleOK
  <1>2. Len(args') \in Nat
    <2>1. args' \in Seq(Tokens)
      BY RequestShape, FlattenSteps
    <2> QED BY <2>1
  <1>3. reply'.kind \in {"error", "empty"}
    BY DEF Error, NoReply
  <1>4. TypeOK'
    <2>1. Len(<<>>) = 0 /\ ToSet(<<>>) = {}
      BY DEF ToSet
    <2>2. ctx.type = "none" /\ ctx.sort = "none"
      BY <1>1 DEF NewContext
    <2>3. i' \in 1 .. Len(args') + 1 /\ reach' \in 0 .. i' + 4
      BY <1>1, <1>2
    <2>4. /\ Len(results') <= cap' /\ cap' <= 2 * Len(results')
          /\ ToSet(walk') \union ToSet(results') \subseteq Fields
      BY <1>1, <2>1
    <2> QED BY <1>1, <1>3, <2>2, <2>3, <2>4 DEF TypeOK
  <1>5. ArgumentsInRange' /\ MemoryBalanced'
    BY <1>1, <1>2 DEF ArgumentsInRange, MemoryBalanced
  <1>6. ~(reach' > 0)
    BY <1>1
  <1> QED BY <1>4, <1>5, <1>6, ToRefused

\* A command arrives,
LEMMA ReceiveStep ==
    ASSUME IInv, pc = "idle", NEW phrases \in Requests, Receive(phrases)
    PROVE  IInv'
  <1>1. /\ i = 1 /\ reach = 0 /\ ctx = NewContext /\ heap = {} /\ misuse = FALSE
        /\ hits = {} /\ walk = <<>> /\ results = <<>> /\ cap = 0
    BY DEF IInv, IdleOK
  <1>2. /\ request' = phrases /\ args' = FlattenSeq(phrases)
        /\ UNCHANGED <<i, reach, ctx, heap, misuse, hits, walk, results, cap>>
    BY DEF Receive
  <1>3. CASE args' = <<>>
    <2>1. pc' = "done" /\ reply' = Error
      BY <1>3 DEF Receive
    <2> QED BY <1>2, <2>1, RefusedAtOnce
  <1>4. CASE args' # <<>>
    <2>1. pc' = "parsing" /\ reply' = NoReply
      BY <1>4 DEF Receive
    <2>2. ctx \in Contexts(ctx.bounds) /\ ctx.g = {} /\ ctx.center = Zero /\ ctx.toMeters = 1
          /\ ctx.value = TRUE /\ ctx.dist = FALSE /\ ctx.sort = "none" /\ ctx.count = 0 /\ ctx.limit = 0
      <3>1. Zero \in Origins
        BY OriginsHave
      <3>2. ctx = NewContext
        BY <1>1
      <3> QED BY <3>1, <3>2 DEF Contexts, NewContext
    <2>3. Command'
      <3>1. ctx' \in Contexts(ctx'.bounds)
        BY <1>2, <2>2
      <3> QED BY <1>1, <1>2, <1>4, <2>1, <3>1 DEF Command
    <2>4. Progress(0)'
      <3>1. End(phrases, 0) = 0
        BY RequestShape, FlattenLayout
      <3>2. /\ \A words : LastUpTo(words, 0)' = {} /\ FirstUpTo(words, 0)' = {}
            /\ TargetsUpTo(0)' = {}
        BY DEF LastUpTo, FirstUpTo, TargetsUpTo
      <3>3. Options(0)'
        BY <1>2, <2>2, <3>2 DEF Options
      <3>4. NoneGiven'
        BY <1>2, <2>2 DEF NoneGiven
      <3>5. Target(0)' /\ Blocks(0)'
        BY <1>1, <1>2, <2>2, <3>2, <3>4 DEF Target, Blocks
      <3>6. i' = 1 + End(request', 0) /\ \A n \in 1 .. 0 : Usable(request[n])'
        BY <1>1, <1>2, <3>1
      <3> QED BY <3>3, <3>5, <3>6 DEF Progress
    <2>5. 0 \in 0 .. Len(request')
      BY <1>2, RequestShape
    <2>6. ParsingOK'
      BY <1>1, <1>2, <2>3, <2>4, <2>5 DEF ParsingOK
    <2> QED BY <2>1, <2>6, ToParsing
  <1> QED BY <1>3, <1>4

\* or one whose key cannot be searched.
LEMMA ReceiveNoKeyStep ==
    ASSUME IInv, pc = "idle", NEW phrases \in Requests, NEW type \in {"none", "string"}, ReceiveNoKey(phrases, type)
    PROVE  IInv'
  <1>1. /\ args' = FlattenSeq(phrases) /\ pc' = "done" /\ reply' \in {Error, [NoReply EXCEPT !.kind = "empty"]}
        /\ UNCHANGED <<i, reach, ctx, heap, misuse, hits, walk, results, cap>>
    BY DEF ReceiveNoKey
  <1> QED BY <1>1, RefusedAtOnce

\* A set with at most one member.
LEMMA FewTargets ==
    ASSUME request \in Requests
    PROVE  Cardinality(Targets) <= 1 <=> AtMostOne(Targets)
  <1>1. Targets \subseteq 1 .. Len(request) /\ Len(request) \in Nat
    BY RequestShape DEF Targets
  <1>2. IsFiniteSet(Targets)
    <2>1. IsFiniteSet(1 .. Len(request))
      BY <1>1, FS_Interval
    <2> QED BY <1>1, <2>1, FS_Subset
  <1> HIDE DEF Targets
  <1>3. ASSUME NEW m \in Targets, NEW n \in Targets, m # n PROVE ~(Cardinality(Targets) <= 1)
    <2>1. IsFiniteSet({m, n}) /\ Cardinality({m, n}) = 2
      <3>1. IsFiniteSet({m}) /\ Cardinality({m}) = 1
        BY FS_Singleton
      <3>2. IsFiniteSet({m} \union {n}) /\ Cardinality({m} \union {n}) = 2
        <4>1. n \notin {m}
          BY <1>3
        <4>2. IsFiniteSet({m} \union {n}) /\ Cardinality({m} \union {n}) = Cardinality({m}) + 1
          BY <3>1, <4>1, FS_AddElement, Zenon
        <4> QED BY <3>1, <4>2
      <3>3. {m} \union {n} = {m, n}
        OBVIOUS
      <3> QED BY <3>2, <3>3
    <2>2. Cardinality({m, n}) <= Cardinality(Targets) /\ Cardinality(Targets) \in Nat
      <3>1. {m, n} \in SUBSET Targets
        OBVIOUS
      <3> QED BY <1>2, <3>1, FS_Subset, FS_CardinalityType
    <2> QED BY <2>1, <2>2
  <1>4. ASSUME AtMostOne(Targets) PROVE Cardinality(Targets) <= 1
    <2>1. CASE Targets = {}
      BY <2>1, FS_EmptySet
    <2>2. CASE Targets # {}
      <3>1. PICK m \in Targets : TRUE
        BY <2>2
      <3>2. Targets = {m}
        BY <1>4, <3>1 DEF AtMostOne
      <3> QED BY <3>2, FS_Singleton
    <2> QED BY <2>1, <2>2
  <1> QED BY <1>3, <1>4 DEF AtMostOne

\* An option that cannot be used.
LEMMA ParseFailStep ==
    ASSUME IInv, ParseFail
    PROVE  IInv'
  <1>1. /\ Command /\ pc = "parsing" /\ i \in 1 .. Len(args) /\ i <= Len(args) /\ Len(args) \in Nat
        /\ hits = {} /\ walk = <<>> /\ results = <<>> /\ cap = 0
    BY AtPhrase DEF ParseFail
  <1>2. PICK k \in 0 .. Len(request) : Progress(k)
    BY AtPhrase DEF ParseFail
  <1>3. /\ Word # "none" /\ (Missing(Word) \/ ~Valid(Word))
        /\ ReadTo(IF Missing(Word) THEN i ELSE i + Arity(Word))
        /\ Free(ctx.g) /\ reply' = Error /\ pc' = "done"
        /\ UNCHANGED <<request, args, i, ctx, hits, walk, results, cap>>
    BY DEF ParseFail
  <1>4. i = 1 + End(request, k)
    BY <1>2 DEF Progress
  <1>5. ~Usable(request[k + 1])
    BY <1>1, <1>3, <1>4, MissingIsUnusable, ValidIsUsable
  <1>6. k + 1 \in DOMAIN request
    <2>1. k + 1 \in 1 .. Len(request)
      BY <1>1, <1>4, Reading DEF Command
    <2>2. DOMAIN request = 1 .. Len(request)
      BY <1>1, RequestShape DEF Command
    <2> QED BY <2>1, <2>2
  <1>7. ~Acceptable'
    <2>1. ~Acceptable
      BY <1>5, <1>6 DEF Acceptable
    <2> QED BY <1>3, <2>1 DEF Acceptable, Targets
  <1>8. reach' \in 0 .. Len(args) /\ reach' <= i + 4
    <2>1. reach = i - 1 /\ i \in Nat
      BY <1>1 DEF Command
    <2>2. Word \in Words
      BY <1>3 DEF Word
    <2>3. Arity(Word) \in 0 .. 4
      BY DEF Arity
    <2>4. ~Missing(Word) => i + Arity(Word) <= Len(args)
      BY <1>1, <2>1, <2>3 DEF Missing
    <2> QED BY <1>1, <1>3, <2>1, <2>3, <2>4 DEF ReadTo
  <1>9. /\ misuse' = FALSE /\ heap' \subseteq heap /\ heap \subseteq 1 .. Len(args)
        /\ AtMostOne(TargetsUpTo(k)) => heap' = {}
    <2>1. Blocks(k) /\ misuse = FALSE
      BY <1>1, <1>2 DEF Progress, Command
    <2> QED BY <1>3, <2>1 DEF Blocks, Free
  <1>10. TypeOK'
    <2>1. TypeOK
      BY DEF IInv
    <2>2. reply'.kind = "error"
      BY <1>3 DEF Error, NoReply
    <2>3. heap' \subseteq (1 .. Len(args')) \union {MapBlock, ResultsBlock}
      BY <1>3, <1>9
    <2>4. reach' \in 0 .. i' + 4
      BY <1>3, <1>8, <1>1
    <2> QED BY <1>3, <1>9, <2>1, <2>2, <2>3, <2>4 DEF TypeOK
  <1>11. ArgumentsInRange'
    BY <1>1, <1>3, <1>8 DEF ArgumentsInRange
  <1>12. MemoryBalanced'
    <2> SUFFICES ASSUME Cardinality(Targets') <= 1 PROVE heap' = {}
      BY <1>9 DEF MemoryBalanced
    <2>1. TargetsUpTo(k) \subseteq Targets /\ Targets' = Targets
      BY <1>1, <1>3, RequestShape DEF TargetsUpTo, Targets, Command
    <2>2. AtMostOne(Targets)
      BY <1>1, <2>1, FewTargets DEF Command
    <2>3. AtMostOne(TargetsUpTo(k))
      BY <2>1, <2>2 DEF AtMostOne
    <2> QED BY <1>9, <2>3
  <1> QED BY <1>3, <1>7, <1>10, <1>11, <1>12, ToRefused

-----------------------------------------------------------------------------
(***************************************************************************)
(* exgsearchInner: from the options to the search.                         *)
(***************************************************************************)
\* A command that is searched for needs no more to be shown.
LEMMA FromWalking == pc = "walking" /\ WalkingOK /\ ParsedAsMeant => IInv
  <1> SUFFICES ASSUME pc = "walking", WalkingOK, ParsedAsMeant PROVE IInv
    OBVIOUS
  <1>1. Command /\ i = Len(args) + 1 /\ Len(args) \in Nat
    BY PhraseLayout DEF WalkingOK, Command
  <1>2. reply = NoReply /\ NoReply.kind = "none" /\ NoReply.announced = 0 /\ NoReply.elements = <<>>
    BY <1>1 DEF Command, NoReply
  <1>3. TypeOK
    <2>1. i \in 1 .. Len(args) + 1 /\ reach \in 0 .. i + 4 /\ misuse \in BOOLEAN
      <3>1. reach = i - 1
        BY <1>1 DEF Command
      <3>2. misuse \in BOOLEAN
        BY <1>1 DEF Command
      <3>3. reach \in 0 .. i + 4 /\ i \in 1 .. Len(args) + 1
        BY <1>1, <3>1
      <3> QED BY <3>2, <3>3
    <2>2. ctx.type \in {"none", "RADIUS", "GEOMETRY"} /\ ctx.sort \in {"none", "ASC", "DESC"}
      BY <1>1 DEF Command, Contexts
    <2>3. ToSet(walk) \union ToSet(results) \subseteq Fields
      <3>1. walk \in Seq(Fields) /\ results \in Seq(Fields)
        BY DEF WalkingOK
      <3> QED BY <3>1 DEF ToSet
    <2>4. /\ heap \subseteq (1 .. Len(args)) \union {MapBlock, ResultsBlock}
          /\ hits \subseteq Fields
          /\ Len(results) <= cap /\ cap <= 2 * Len(results)
      BY DEF WalkingOK
    <2> QED BY <1>2, <2>1, <2>2, <2>3, <2>4 DEF TypeOK
  <1>4. IdleOK /\ ParsingOK
    BY DEF IdleOK, ParsingOK
  <1>5. MatchesListed /\ NearestListed
    BY <1>2 DEF MatchesListed, NearestListed
  <1>6. ArgumentsInRange /\ MemoryBalanced
    BY <1>1 DEF Command, ArgumentsInRange, MemoryBalanced
  <1>7. ReplyFramed
    <2>1. Len(<<>>) = 0
      OBVIOUS
    <2> QED BY <1>2, <2>1 DEF ReplyFramed
  <1> QED BY <1>3, <1>4, <1>5, <1>6, <1>7 DEF IInv

\* The same of the next state.
LEMMA ToWalking == (pc = "walking" /\ WalkingOK /\ ParsedAsMeant => IInv)'
  BY FromWalking, PTL

\* The parser has read all phrases.
LEMMA ParsedAll ==
    ASSUME IInv, pc = "parsing", i > Len(args)
    PROVE  /\ Command /\ i = Len(args) + 1 /\ Len(args) \in Nat \ {0} /\ DOMAIN args = 1 .. Len(args)
           /\ hits = {} /\ walk = <<>> /\ results = <<>> /\ cap = 0
           /\ Len(request) \in Nat \ {0} /\ args[1] = request[1][1] /\ Arg(1) = args[1]
           /\ Progress(Len(request))
  <1>1. /\ Command /\ hits = {} /\ walk = <<>> /\ results = <<>> /\ cap = 0
        /\ \E k \in 0 .. Len(request) : Progress(k)
    BY DEF IInv, ParsingOK
  <1>2. PICK k \in 0 .. Len(request) : Progress(k)
    BY <1>1
  <1>3. /\ args \in Seq(Tokens) /\ Len(args) \in Nat /\ Len(request) \in Nat /\ DOMAIN args = 1 .. Len(args)
        /\ End(request, 0) = 0 /\ End(request, Len(request)) = Len(args)
        /\ \A n \in 0 .. Len(request) : End(request, n) \in Nat
        /\ \A n \in 1 .. Len(request) :
              /\ End(request, n) = End(request, n - 1) + Len(request[n])
              /\ End(request, n) <= Len(args)
              /\ \A j \in 1 .. Len(request[n]) : args[End(request, n - 1) + j] = request[n][j]
    BY <1>1, PhraseLayout DEF Command
  <1>4. Len(args) # 0
    <2>1. args # <<>>
      BY <1>1 DEF Command
    <2> QED BY <1>3, <2>1
  <1>5. Len(request) # 0
    BY <1>3, <1>4
  <1>6. 1 \in 1 .. Len(request) /\ 1 - 1 = 0
    BY <1>3, <1>5
  <1>7. args[1] = request[1][1]
    <2>1. 1 \in 1 .. Len(request[1])
      BY <1>1, <1>6, RequestShape DEF Command
    <2>2. args[End(request, 1 - 1) + 1] = request[1][1]
      BY <1>3, <1>6, <2>1, Zenon
    <2>3. End(request, 1 - 1) + 1 = 1
      BY <1>3
    <2> QED BY <2>2, <2>3
  <1>8. Arg(1) = args[1]
    BY <1>3, <1>4 DEF Arg
  <1>9. k = Len(request)
    <2> SUFFICES ASSUME k # Len(request) PROVE FALSE
      OBVIOUS
    <2>1. k + 1 \in 1 .. Len(request) /\ (k + 1) - 1 = k
      BY <1>3
    <2>2. /\ End(request, k + 1) = End(request, k) + Len(request[k + 1]) /\ End(request, k + 1) <= Len(args)
          /\ End(request, k) \in Nat
      BY <1>3, <2>1, Zenon
    <2>3. Len(request[k + 1]) \in Nat \ {0}
      BY <1>1, <2>1, RequestShape DEF Command
    <2>4. i = 1 + End(request, k)
      BY <1>2 DEF Progress
    <2> QED BY <1>3, <2>2, <2>3, <2>4
  <1>10. i = Len(args) + 1
    BY <1>2, <1>3, <1>9 DEF Progress
  <1> QED BY <1>1, <1>2, <1>3, <1>4, <1>5, <1>7, <1>8, <1>9, <1>10

\* Without a target, there is nothing allocated.
LEMMA NoTargetYet ==
    ASSUME IInv, pc = "parsing", i > Len(args), ctx.g = {}
    PROVE  /\ Targets = {} /\ heap = {} /\ ctx.center = Zero /\ ctx.toMeters = 1
           /\ TargetsUpTo(Len(request)) = {} /\ LastUpTo(TargetWords, Len(request)) = {}
  <1> DEFINE T == TargetsUpTo(Len(request))
             last == LastUpTo(TargetWords, Len(request))
  <1>1. Progress(Len(request)) /\ Command
    BY ParsedAll
  <1>2. last = {}
    <2>1. \A phrase \in last : FALSE
      BY <1>1 DEF Progress, Target, OneGiven
    <2> QED BY <2>1
  <1>3. T = {}
    BY <1>1, <1>2 DEF Progress, Target
  <1>4. Targets = {}
    BY <1>1, <1>3, AllPhrases DEF Command
  <1>5. heap = {}
    BY <1>1, <1>3 DEF Progress, Blocks, AtMostOne
  <1>6. ctx.center = Zero /\ ctx.toMeters = 1
    BY <1>1, <1>3 DEF Progress, Target, NoneGiven
  <1> QED BY <1>2, <1>3, <1>4, <1>5, <1>6

\* A geometry as the target leaves the other fields of the context alone.
LEMMA GeometryFields ==
    ASSUME ctx \in Contexts(ctx.bounds), NEW wkt, NEW c,
           c = Geometry(ctx, 1, wkt)
    PROVE  /\ c.g = {1} /\ c.bounds = wkt /\ c \in Contexts(c.bounds)
           /\ c.center = ctx.center /\ c.toMeters = ctx.toMeters /\ c.value = ctx.value
           /\ c.dist = ctx.dist /\ c.sort = ctx.sort /\ c.count = ctx.count /\ c.limit = ctx.limit
  <1>1. /\ c.type = "GEOMETRY" /\ c.g = {1} /\ c.bounds = wkt /\ c.meters = ctx.meters
        /\ c.center = ctx.center /\ c.toMeters = ctx.toMeters /\ c.value = ctx.value
        /\ c.dist = ctx.dist /\ c.sort = ctx.sort /\ c.count = ctx.count /\ c.limit = ctx.limit
        /\ c = [type |-> c.type, g |-> c.g, bounds |-> c.bounds, center |-> c.center, meters |-> c.meters,
                toMeters |-> c.toMeters, value |-> c.value, dist |-> c.dist, sort |-> c.sort,
                count |-> c.count, limit |-> c.limit]
    BY DEF Contexts, Geometry
  <1>2. /\ ctx.center \in Origins /\ ctx.meters \in Int /\ ctx.toMeters \in Nat
        /\ ctx.value \in BOOLEAN /\ ctx.dist \in BOOLEAN /\ ctx.sort \in {"none", "ASC", "DESC"}
        /\ ctx.count \in Nat /\ ctx.limit \in Nat
    BY DEF Contexts
  <1>3. c \in Contexts(c.bounds)
    BY <1>1, <1>2 DEF Contexts
  <1> QED BY <1>1, <1>3

\* The first argument becomes the target.
LEMMA DefaultTargetStep ==
    ASSUME IInv, DefaultTarget
    PROVE  IInv'
  <1>1. /\ pc = "parsing" /\ i > Len(args) /\ ctx.g = {} /\ Arg(1)[1] = "wkt"
        /\ ctx' = Geometry(ctx, 1, Arg(1)) /\ heap' = heap \union {1}
        /\ UNCHANGED <<request, args, pc, i, reach, misuse, hits, walk, results, cap, reply>>
    BY DEF DefaultTarget
  <1>2. /\ Command /\ i = Len(args) + 1 /\ Len(args) \in Nat \ {0} /\ DOMAIN args = 1 .. Len(args)
        /\ hits = {} /\ walk = <<>> /\ results = <<>> /\ cap = 0
        /\ Len(request) \in Nat \ {0} /\ args[1] = request[1][1] /\ Arg(1) = args[1]
        /\ Progress(Len(request))
    BY <1>1, ParsedAll
  <1> DEFINE k == Len(request)
  <1>3. /\ heap = {} /\ ctx.center = Zero /\ ctx.toMeters = 1
        /\ TargetsUpTo(k) = {} /\ LastUpTo(TargetWords, k) = {}
    BY <1>1, NoTargetYet
  <1>4. /\ ctx'.g = {1} /\ ctx'.bounds = args[1] /\ ctx' \in Contexts(ctx'.bounds)
        /\ ctx'.center = ctx.center /\ ctx'.toMeters = ctx.toMeters /\ ctx'.value = ctx.value
        /\ ctx'.dist = ctx.dist /\ ctx'.sort = ctx.sort /\ ctx'.count = ctx.count /\ ctx'.limit = ctx.limit
    <2>1. ctx \in Contexts(ctx.bounds)
      BY <1>2 DEF Command
    <2>2. ctx' = Geometry(ctx, 1, args[1])
      BY <1>1, <1>2
    <2> QED BY <2>1, <2>2, GeometryFields
  <1>5. /\ \A words : LastUpTo(words, k)' = LastUpTo(words, k)
        /\ \A words : FirstUpTo(words, k)' = FirstUpTo(words, k)
        /\ TargetsUpTo(k)' = TargetsUpTo(k)
    BY <1>1 DEF LastUpTo, FirstUpTo, TargetsUpTo
  <1>6. Options(k)'
    <2>1. Options(k)
      BY <1>2 DEF Progress
    <2> QED BY <1>4, <1>5, <2>1, Zenon DEF Options
  <1>7. NoneGiven'
    BY <1>1, <1>2, <1>3, <1>4 DEF NoneGiven
  <1>8. Target(k)'
    BY <1>3, <1>5, <1>7 DEF Target
  <1>9. Blocks(k)'
    BY <1>1, <1>2, <1>3, <1>4, <1>5 DEF Blocks
  <1>10. Progress(k)'
    BY <1>1, <1>2, <1>6, <1>8, <1>9 DEF Progress
  <1>11. Command'
    BY <1>1, <1>2, <1>4 DEF Command
  <1>12. ParsingOK'
    <2>1. k' = k /\ k \in 0 .. Len(request')
      BY <1>1, <1>2
    <2> HIDE DEF k
    <2> QED BY <1>1, <1>2, <1>10, <1>11, <2>1 DEF ParsingOK
  <1> QED BY <1>1, <1>12, ToParsing

\* There is no target at all.
LEMMA NoTargetStep ==
    ASSUME IInv, NoTarget
    PROVE  IInv'
  <1>1. /\ pc = "parsing" /\ i > Len(args) /\ ctx.g = {} /\ Arg(1)[1] # "wkt"
        /\ reply' = Error /\ pc' = "done"
        /\ UNCHANGED <<request, args, i, reach, ctx, heap, misuse, hits, walk, results, cap>>
    BY DEF NoTarget
  <1>2. Command /\ i = Len(args) + 1 /\ Len(args) \in Nat /\ args[1] = request[1][1] /\ Arg(1) = args[1]
    BY <1>1, ParsedAll
  <1>3. Targets = {} /\ heap = {}
    BY <1>1, NoTargetYet
  <1>4. ~Acceptable'
    BY <1>1, <1>2, <1>3 DEF Acceptable, Targets
  <1>5. TypeOK'
    <2>1. TypeOK
      BY DEF IInv
    <2>2. reply'.kind = "error"
      BY <1>1 DEF Error, NoReply
    <2> QED BY <1>1, <2>1, <2>2 DEF TypeOK
  <1>6. ArgumentsInRange' /\ MemoryBalanced'
    BY <1>1, <1>2, <1>3 DEF ArgumentsInRange, MemoryBalanced, Command
  <1> QED BY <1>1, <1>4, <1>5, <1>6, ToRefused

\* What a request means does not change on the way.
LEMMA SameMeaning ==
    ASSUME request' = request
    PROVE  /\ Acceptable' <=> Acceptable
           /\ Meant' = Meant /\ Targets' = Targets
           /\ \A words : LastOf(words)' = LastOf(words) /\ FirstOf(words)' = FirstOf(words)
  <1>1. Targets' = Targets
    BY DEF Targets
  <1>2. \A words : LastOf(words)' = LastOf(words) /\ FirstOf(words)' = FirstOf(words)
    BY DEF LastOf, FirstOf
  <1>3. Meant' = Meant
    <2>1. LastOf(TargetWords)' = LastOf(TargetWords)
      BY <1>2
    <2> QED BY <1>1, <2>1 DEF Meant
  <1>4. Acceptable' <=> Acceptable
    BY <1>1 DEF Acceptable
  <1> QED BY <1>1, <1>2, <1>3, <1>4

\* The search starts with what the request means.
LEMMA StartWalkStep ==
    ASSUME IInv, StartWalk
    PROVE  IInv'
  <1>1. /\ pc = "parsing" /\ i > Len(args) /\ ctx.g # {}
        /\ heap' = heap \union {MapBlock} /\ hits' \in SUBSET Fields /\ walk' \in SetToSeqs(Fields)
        /\ pc' = "walking"
        /\ UNCHANGED <<request, args, i, reach, ctx, misuse, results, cap, reply>>
    BY DEF StartWalk
  <1>2. /\ Command /\ i = Len(args) + 1 /\ Len(args) \in Nat \ {0}
        /\ results = <<>> /\ cap = 0
        /\ args[1] = request[1][1] /\ DOMAIN request = 1 .. Len(request)
        /\ Progress(Len(request))
    BY <1>1, ParsedAll, RequestShape DEF Command
  <1>3. /\ \A words : LastUpTo(words, Len(request)) = LastOf(words)
        /\ \A words : FirstUpTo(words, Len(request)) = FirstOf(words)
        /\ TargetsUpTo(Len(request)) = Targets
    BY <1>2, AllPhrases DEF Command
  <1>4. /\ Targets = {} <=> LastOf(TargetWords) = {}
        /\ Targets = {} => /\ args[1][1] = "wkt" /\ ctx.bounds = args[1]
                           /\ ctx.center = Zero /\ ctx.toMeters = 1
        /\ \A phrase \in LastOf(TargetWords) :
              /\ ctx.bounds = Meaning(phrase).bounds
              /\ AtMostOne(Targets) => /\ ctx.center = Meaning(phrase).center
                                       /\ ctx.toMeters = Meaning(phrase).toMeters
    BY <1>1, <1>2, <1>3 DEF Progress, Target, NoneGiven, OneGiven
  <1>5. Acceptable
    BY <1>2, <1>4 DEF Acceptable, Progress
  <1>6. ctx.bounds = Meant.bounds
    <2>1. CASE Targets = {}
      BY <1>2, <1>4, <2>1 DEF Meant
    <2>2. CASE Targets # {}
      BY <1>4, <2>2, Zenon DEF Meant
    <2> QED BY <2>1, <2>2
  <1>7. AtMostOne(Targets) => ctx.center = Meant.center /\ ctx.toMeters = Meant.toMeters
    <2>1. CASE Targets = {}
      BY <1>2, <1>4, <2>1 DEF Meant
    <2>2. CASE Targets # {}
      BY <1>4, <2>2, Zenon DEF Meant
    <2> QED BY <2>1, <2>2
  <1>8. /\ ctx.value = (LastOf(ValueWords) \subseteq {<<<<"word", "WITHVALUE">>>>})
        /\ ctx.dist = (LastOf({"WITHDIST"}) # {})
        /\ {ctx.sort} \ {"none"} = {phrase[1][2] : phrase \in FirstOf({"ASC", "DESC"})}
        /\ {ctx.count} \ {0} = {phrase[2][2] : phrase \in LastOf({"COUNT"})}
        /\ {ctx.limit} \ {0} = {phrase[2][2] : phrase \in LastOf({"LIMIT"})}
    <2>1. Options(Len(request))
      BY <1>2 DEF Progress
    <2>2. /\ LastUpTo(ValueWords, Len(request)) = LastOf(ValueWords)
          /\ LastUpTo({"WITHDIST"}, Len(request)) = LastOf({"WITHDIST"})
          /\ FirstUpTo({"ASC", "DESC"}, Len(request)) = FirstOf({"ASC", "DESC"})
          /\ LastUpTo({"COUNT"}, Len(request)) = LastOf({"COUNT"})
          /\ LastUpTo({"LIMIT"}, Len(request)) = LastOf({"LIMIT"})
      BY <1>3
    <2> QED BY <2>1, <2>2, Zenon DEF Options
  <1>9. Cardinality(Targets) <= 1 <=> AtMostOne(Targets)
    BY <1>2, FewTargets DEF Command
  <1>10. ParsedAsMeant'
    <2>1. reply'.kind # "error"
      BY <1>1, <1>2 DEF Command, NoReply
    <2>2. /\ Acceptable' /\ Meant' = Meant /\ Targets' = Targets
          /\ \A words : LastOf(words)' = LastOf(words) /\ FirstOf(words)' = FirstOf(words)
      BY <1>1, <1>5, SameMeaning
    <2>3. ctx' = ctx
      BY <1>1
    <2> QED BY <1>6, <1>7, <1>8, <1>9, <2>1, <2>2, <2>3, Zenon DEF ParsedAsMeant
  <1>11. Command'
    BY <1>1, <1>2 DEF Command
  <1>12. /\ ctx.g \subseteq heap /\ heap \subseteq 1 .. Len(args)
         /\ AtMostOne(Targets) => heap = ctx.g
    BY <1>2, <1>3 DEF Progress, Blocks
  <1>13. Allocated' = ctx.g \union {MapBlock}
    BY <1>1, <1>2 DEF Allocated
  <1>14. /\ walk' \in Seq(Fields) /\ IsInjective(walk') /\ ToSet(walk') = Fields
    <2>1. IsFiniteSet(Fields)
      BY FieldsAssumption DEF Fields
    <2> QED BY <1>1, <2>1, SequenceOfSet
  <1>15. /\ results' = <<>> /\ ToSet(<<>>) = {} /\ <<>> \in Seq(Fields) /\ IsInjective(<<>>) /\ Len(<<>>) = 0
    <2>1. results' = <<>>
      BY <1>1, <1>2
    <2> QED BY <2>1 DEF ToSet, IsInjective
  <1>16. ctx'.limit \in Nat
    BY <1>1, <1>2 DEF Command, Contexts
  <1>17. WalkingOK'
    <2>1. /\ i' = Len(args') + 1 /\ ctx'.g \subseteq 1 .. Len(args') /\ Allocated' \subseteq heap'
          /\ AtMostOne(Targets)' => heap' = Allocated'
          /\ heap' \subseteq (1 .. Len(args')) \union {MapBlock, ResultsBlock}
      <3>1. AtMostOne(Targets)' <=> AtMostOne(Targets)
        BY <1>1 DEF AtMostOne, Targets
      <3> QED BY <1>1, <1>2, <1>12, <1>13, <3>1
    <2>2. /\ hits' \subseteq Fields /\ walk' \in Seq(Fields) /\ results' \in Seq(Fields)
          /\ Len(results') <= cap' /\ cap' <= 2 * Len(results') /\ cap' \in Nat
          /\ IsInjective(walk') /\ IsInjective(results') /\ ToSet(walk') \intersect ToSet(results') = {}
          /\ ToSet(results') \subseteq hits'
          /\ ctx'.limit # 0 => Len(results') <= ctx'.limit
          /\ hits' \subseteq ToSet(walk') \union ToSet(results')
      BY <1>1, <1>2, <1>14, <1>15, <1>16
    <2> QED BY <1>11, <2>1, <2>2 DEF WalkingOK
  <1> QED BY <1>1, <1>10, <1>17, ToWalking

\* An entry of the tree is skipped or goes to the results.
LEMMA VisitStep ==
    ASSUME IInv, Visit
    PROVE  IInv'
  <1>1. /\ pc = "walking" /\ walk # <<>> /\ walk' = Tail(walk)
        /\ IF Head(walk) \in hits /\ ~LimitReached
           THEN /\ cap' = IF Len(results) < cap THEN cap ELSE Grown(cap)
                /\ heap' = heap \union {ResultsBlock}
                /\ results' = Append(results, Head(walk))
           ELSE UNCHANGED <<heap, results, cap>>
        /\ UNCHANGED <<request, args, pc, i, reach, ctx, misuse, hits, reply>>
    BY DEF Visit
  <1>2. /\ Command /\ i = Len(args) + 1 /\ ctx.g \subseteq 1 .. Len(args)
        /\ Allocated \subseteq heap
        /\ AtMostOne(Targets) => heap = Allocated
        /\ heap \subseteq (1 .. Len(args)) \union {MapBlock, ResultsBlock}
        /\ hits \subseteq Fields
        /\ Len(results) <= cap /\ cap <= 2 * Len(results) /\ cap \in Nat
        /\ walk \in Seq(Fields) /\ results \in Seq(Fields)
        /\ IsInjective(walk) /\ IsInjective(results) /\ ToSet(walk) \intersect ToSet(results) = {}
        /\ ToSet(results) \subseteq hits
        /\ ctx.limit # 0 => Len(results) <= ctx.limit
        /\ ctx.limit = 0 \/ Len(results) < ctx.limit => hits \subseteq ToSet(walk) \union ToSet(results)
    BY <1>1 DEF IInv, WalkingOK
  <1> DEFINE h == Head(walk)
  <1>3. /\ walk' \in Seq(Fields) /\ IsInjective(walk') /\ h \in Fields /\ h \notin ToSet(walk')
        /\ ToSet(walk) = {h} \union ToSet(walk')
    BY <1>1, <1>2, InjectiveTail
  <1>4. ParsedAsMeant'
    <2>1. ParsedAsMeant
      BY DEF IInv
    <2>2. /\ Acceptable' <=> Acceptable
          /\ Meant' = Meant /\ Targets' = Targets
          /\ \A words : LastOf(words)' = LastOf(words) /\ FirstOf(words)' = FirstOf(words)
      BY <1>1, SameMeaning
    <2>3. ctx' = ctx /\ pc' = pc /\ reply' = reply /\ reach' = reach
      BY <1>1
    <2> QED BY <2>1, <2>2, <2>3, Zenon DEF ParsedAsMeant
  <1>5. Command'
    BY <1>1, <1>2 DEF Command
  <1>6. AtMostOne(Targets)' <=> AtMostOne(Targets)
    BY <1>1 DEF AtMostOne, Targets
  <1>7. ctx.limit \in Nat /\ Len(results) \in Nat
    BY <1>2 DEF Command, Contexts
  <1> HIDE DEF h
  <1>8. CASE h \in hits /\ ~LimitReached
    <2>1. /\ cap' = IF Len(results) < cap THEN cap ELSE Grown(cap)
          /\ heap' = heap \union {ResultsBlock}
          /\ results' = Append(results, h)
      BY <1>1, <1>8 DEF h
    <2>2. ctx.limit = 0 \/ Len(results) < ctx.limit
      BY <1>7, <1>8 DEF LimitReached
    <2>3. h \notin ToSet(results)
      BY <1>2, <1>3
    <2>4. /\ results' \in Seq(Fields) /\ Len(results') = Len(results) + 1
          /\ ToSet(results') = ToSet(results) \union {h} /\ IsInjective(results')
      BY <1>2, <1>3, <2>1, <2>3, InjectiveAppend
    <2>5. Len(results') <= cap' /\ cap' <= 2 * Len(results') /\ cap' \in Nat /\ cap' > 0
      BY <1>2, <1>7, <2>1, <2>4 DEF Grown
    <2>6. /\ Allocated' \subseteq heap'
          /\ AtMostOne(Targets)' => heap' = Allocated'
          /\ heap' \subseteq (1 .. Len(args')) \union {MapBlock, ResultsBlock}
      <3>1. Allocated' = Allocated \union {ResultsBlock}
        BY <1>1, <2>5 DEF Allocated
      <3> QED BY <1>1, <1>2, <1>6, <2>1, <3>1
    <2>7. /\ ToSet(walk') \intersect ToSet(results') = {}
          /\ ToSet(results') \subseteq hits'
          /\ hits' \subseteq ToSet(walk') \union ToSet(results')
      BY <1>1, <1>2, <1>3, <1>8, <2>2, <2>4
    <2>8. ctx'.limit # 0 => Len(results') <= ctx'.limit
      BY <1>1, <1>7, <2>2, <2>4
    <2>9. i' = Len(args') + 1 /\ ctx'.g \subseteq 1 .. Len(args') /\ hits' \subseteq Fields
      BY <1>1, <1>2
    <2>10. WalkingOK'
      BY <1>3, <1>5, <2>4, <2>5, <2>6, <2>7, <2>8, <2>9 DEF WalkingOK
    <2> QED BY <1>1, <1>4, <2>10, ToWalking
  <1>9. CASE ~(h \in hits /\ ~LimitReached)
    <2>1. UNCHANGED <<heap, results, cap>>
      BY <1>1, <1>9 DEF h
    <2>2. ctx.limit = 0 \/ Len(results) < ctx.limit => hits \subseteq ToSet(walk') \union ToSet(results)
      <3>1. ctx.limit = 0 \/ Len(results) < ctx.limit => ~LimitReached
        BY <1>7 DEF LimitReached
      <3> QED BY <1>2, <1>3, <1>9, <3>1
    <2>3. ToSet(walk') \intersect ToSet(results') = {}
      BY <1>2, <1>3, <2>1
    <2>4. Allocated' = Allocated
      BY <1>1, <2>1 DEF Allocated
    <2>5. WalkingOK'
      BY <1>1, <1>2, <1>3, <1>5, <1>6, <2>1, <2>2, <2>3, <2>4 DEF WalkingOK
    <2> QED BY <1>1, <1>4, <2>5, ToWalking
  <1> QED BY <1>8, <1>9

-----------------------------------------------------------------------------
(***************************************************************************)
(* qsort and its comparator.                                               *)
(***************************************************************************)
\* Numbers that fall by no more than e from each one to the next.
LEMMA Chain ==
    ASSUME NEW N \in Nat, NEW v \in [1 .. N -> Int], NEW e \in Nat,
           \A n \in 1 .. N - 1 : v[n] <= v[n + 1] + e
    PROVE  \A m \in 1 .. N, n \in 1 .. N : m < n => v[m] <= v[n] + e * N
  <1> SUFFICES ASSUME NEW m \in 1 .. N, NEW n \in 1 .. N, m < n PROVE v[m] <= v[n] + e * N
    OBVIOUS
  <1> DEFINE S == {k \in 0 .. n - m : v[m] <= v[m + k] + e * k}
  <1>1. n - m \in Nat /\ m + 0 = m /\ m + (n - m) = n /\ v[m] \in Int
    OBVIOUS
  <1>2. 0 \in S
    <2>1. v[m] <= v[m] + e * 0
      BY <1>1
    <2> QED BY <1>1, <2>1
  <1>3. ASSUME NEW k \in 0 .. (n - m) - 1, k \in S PROVE k + 1 \in S
    <2>1. m + k \in 1 .. N - 1 /\ m + k \in 1 .. N /\ m + (k + 1) \in 1 .. N /\ (m + k) + 1 = m + (k + 1)
      OBVIOUS
    <2>2. v[m + k] <= v[m + (k + 1)] + e /\ v[m + k] \in Int /\ v[m + (k + 1)] \in Int
      BY <2>1
    <2>3. e * (k + 1) = e * k + e /\ e * k \in Int
      OBVIOUS
    <2>4. v[m] <= v[m + k] + e * k
      BY <1>3
    <2>5. v[m] <= v[m + (k + 1)] + e * (k + 1)
      BY <1>1, <2>2, <2>3, <2>4
    <2> QED BY <2>5
  <1>4. n - m \in S
    <2>1. 0 .. n - m \subseteq S
      <3> HIDE DEF S
      <3> QED BY <1>1, <1>2, <1>3, UpTo
    <2>2. n - m \in 0 .. n - m
      BY <1>1
    <2> HIDE DEF S
    <2> QED BY <2>1, <2>2
  <1>5. v[m] <= v[n] + e * (n - m)
    BY <1>1, <1>4
  <1>6. e * (n - m) <= e * N
    <2> DEFINE d == n - m
               r == N - d
    <2>1. d \in Nat /\ r \in Nat /\ N = d + r
      OBVIOUS
    <2> HIDE DEF d, r
    <2>2. e * N = e * d + e * r /\ e * r \in Nat /\ e * d \in Nat
      BY <2>1
    <2>3. e * d <= e * N
      BY <2>2
    <2> QED BY <2>3 DEF d
  <1>7. e * (n - m) \in Int /\ e * N \in Int /\ v[n] \in Int
    OBVIOUS
  <1> DEFINE x == e * (n - m)
             y == e * N
  <1>8. v[m] \in Int /\ v[n] \in Int /\ x \in Int /\ y \in Int /\ v[m] <= v[n] + x /\ x <= y
    BY <1>1, <1>5, <1>6, <1>7
  <1> HIDE DEF S, x, y
  <1>9. v[m] <= v[n] + y
    BY <1>8
  <1> QED BY <1>9 DEF y

\* The distances of the fields are numbers, and so is the tolerance.
LEMMA DistancesTyped ==
    ASSUME ctx \in Contexts(ctx.bounds)
    PROVE  /\ \A f \in Fields : Distance(f) \in Int
           /\ Epsilon * ctx.toMeters \in Nat
           /\ Order \in {"none", "ASC", "DESC"}
  <1>1. ctx.center \in Origins /\ ctx.toMeters \in Nat /\ ctx.sort \in {"none", "ASC", "DESC"}
    BY DEF Contexts
  <1>2. \A f \in Fields : Distance(f) \in Int
    BY <1>1, DistanceAssumption DEF Distance
  <1>3. Epsilon * ctx.toMeters \in Nat
    <2>1. Epsilon \in Nat
      BY EpsilonAssumption
    <2> DEFINE m == ctx.toMeters
    <2>2. m \in Nat
      BY <1>1
    <2> HIDE DEF m
    <2>3. Epsilon * m \in Nat
      BY <2>1, <2>2
    <2> QED BY <2>3 DEF m
  <1> QED BY <1>1, <1>2, <1>3 DEF Order

\* What the comparator says of two neighbours leaves them in order, up to its tolerance.
LEMMA NeighboursOrdered ==
    ASSUME ctx \in Contexts(ctx.bounds), Order # "none", NEW f \in Fields, NEW g \in Fields,
           Compare(f, g) <= 0 \/ Compare(g, f) >= 0
    PROVE  IF Order = "ASC" THEN Distance(f) <= Distance(g) + Epsilon * ctx.toMeters
           ELSE Distance(g) <= Distance(f) + Epsilon * ctx.toMeters
  <1> DEFINE a == Distance(f)
             b == Distance(g)
             e == Epsilon * ctx.toMeters
             up == IF a > b THEN 1 ELSE IF a - b < e /\ b - a < e THEN 0 ELSE -1
             down == IF b > a THEN 1 ELSE IF b - a < e /\ a - b < e THEN 0 ELSE -1
  <1>1. a \in Int /\ b \in Int /\ e \in Nat
    BY DistancesTyped
  <1>2. sortDistanceAsc(f, g) = up /\ sortDistanceAsc(g, f) = down
    BY DEF sortDistanceAsc, Close
  <1>3. IF Order = "ASC" THEN up <= 0 \/ down >= 0 ELSE -up <= 0 \/ -down >= 0
    BY <1>2 DEF Compare
  <1> HIDE DEF a, b, e
  <1>4. IF Order = "ASC" THEN a <= b + e ELSE b <= a + e
    BY <1>1, <1>3
  <1> QED BY <1>4 DEF a, b, e

\* The results, sorted.
LEMMA SortedResults ==
    ASSUME ctx \in Contexts(ctx.bounds), results \in Seq(Fields), IsInjective(results),
           NEW sorted \in SortOutcomes
    PROVE  /\ sorted \in Seq(Fields) /\ Len(sorted) = Len(results) /\ IsInjective(sorted)
           /\ ToSet(sorted) = ToSet(results)
           /\ Order # "none" =>
                 \A m \in 1 .. Len(sorted), n \in 1 .. Len(sorted) : m < n => Before(sorted[m], sorted[n])
  <1>1. Order \in {"none", "ASC", "DESC"} /\ Epsilon * ctx.toMeters \in Nat
    BY DistancesTyped
  <1>2. CASE Order = "none"
    <2>1. sorted = results
      BY <1>2 DEF SortOutcomes
    <2> QED BY <1>2, <2>1
  <1>3. CASE Order # "none"
    <2> DEFINE N == Len(results)
               F == ToSet(results)
    <2>1. /\ sorted \in SetToSeqs(F)
          /\ \A n \in 1 .. N - 1 :
                Compare(sorted[n], sorted[n + 1]) <= 0 \/ Compare(sorted[n + 1], sorted[n]) >= 0
      BY <1>3 DEF SortOutcomes, Sorts
    <2>2. IsFiniteSet(F) /\ Cardinality(F) = N /\ F \subseteq Fields /\ N \in Nat
      <3>1. IsFiniteSet(F) /\ Cardinality(F) = N
        BY InjectiveCardinality
      <3>2. F \subseteq Fields
        BY DEF ToSet
      <3> QED BY <3>1, <3>2
    <2>3. sorted \in Seq(F) /\ Len(sorted) = N /\ IsInjective(sorted) /\ ToSet(sorted) = F
      <3> HIDE DEF F, N
      <3> QED BY <2>1, <2>2, SequenceOfSet
    <2> HIDE DEF F, N
    <2>4. \A n \in 1 .. N : sorted[n] \in Fields
      BY <2>2, <2>3
    <2>5. sorted \in Seq(Fields)
      BY <2>2, <2>3
    <2> DEFINE e == Epsilon * ctx.toMeters
               up == [n \in 1 .. N |-> Distance(sorted[n])]
               down == [n \in 1 .. N |-> -Distance(sorted[n])]
    <2>6. up \in [1 .. N -> Int] /\ down \in [1 .. N -> Int] /\ e \in Nat
      BY <1>1, <2>4, DistancesTyped
    <2>7. \A n \in 1 .. N - 1 :
             IF Order = "ASC" THEN Distance(sorted[n]) <= Distance(sorted[n + 1]) + e
             ELSE Distance(sorted[n + 1]) <= Distance(sorted[n]) + e
      <3> SUFFICES ASSUME NEW n \in 1 .. N - 1
                   PROVE  IF Order = "ASC" THEN Distance(sorted[n]) <= Distance(sorted[n + 1]) + e
                          ELSE Distance(sorted[n + 1]) <= Distance(sorted[n]) + e
        OBVIOUS
      <3>1. n \in 1 .. N /\ n + 1 \in 1 .. N
        BY <2>2
      <3>2. sorted[n] \in Fields /\ sorted[n + 1] \in Fields
        BY <2>4, <3>1
      <3>3. Compare(sorted[n], sorted[n + 1]) <= 0 \/ Compare(sorted[n + 1], sorted[n]) >= 0
        BY <2>1
      <3> QED BY <1>3, <3>2, <3>3, NeighboursOrdered
    <2>8. \A m \in 1 .. N, n \in 1 .. N : m < n => Before(sorted[m], sorted[n])
      <3> SUFFICES ASSUME NEW m \in 1 .. N, NEW n \in 1 .. N, m < n PROVE Before(sorted[m], sorted[n])
        OBVIOUS
      <3>1. Distance(sorted[m]) \in Int /\ Distance(sorted[n]) \in Int /\ e * N \in Int
        BY <2>2, <2>4, <2>6, DistancesTyped
      <3>2. Slack = e * N
        BY DEF Slack, N
      <3>3. CASE Order = "ASC"
        <4>1. \A j \in 1 .. N - 1 : up[j] <= up[j + 1] + e
          <5> SUFFICES ASSUME NEW j \in 1 .. N - 1 PROVE up[j] <= up[j + 1] + e
            OBVIOUS
          <5>1. j \in 1 .. N /\ j + 1 \in 1 .. N
            BY <2>2
          <5>2. up[j] = Distance(sorted[j]) /\ up[j + 1] = Distance(sorted[j + 1])
            BY <5>1
          <5> HIDE DEF up, e
          <5> QED BY <2>7, <3>3, <5>2
        <4>2. up[m] <= up[n] + e * N
          <5> HIDE DEF up, e
          <5> QED BY <2>2, <2>6, <4>1, Chain
        <4>3. Distance(sorted[m]) <= Distance(sorted[n]) + e * N
          BY <4>2
        <4> HIDE DEF e
        <4> QED BY <3>2, <3>3, <4>3 DEF Before
      <3>4. CASE Order # "ASC"
        <4>1. \A j \in 1 .. N - 1 : down[j] <= down[j + 1] + e
          <5> SUFFICES ASSUME NEW j \in 1 .. N - 1 PROVE down[j] <= down[j + 1] + e
            OBVIOUS
          <5>1. j \in 1 .. N /\ j + 1 \in 1 .. N
            BY <2>2
          <5>2. /\ down[j] = -Distance(sorted[j]) /\ down[j + 1] = -Distance(sorted[j + 1])
                /\ Distance(sorted[j]) \in Int /\ Distance(sorted[j + 1]) \in Int
            BY <2>4, <5>1, DistancesTyped
          <5>3. Distance(sorted[j + 1]) <= Distance(sorted[j]) + e
            BY <2>7, <3>4
          <5> HIDE DEF down, e
          <5> QED BY <2>6, <5>2, <5>3
        <4>2. down[m] <= down[n] + e * N
          <5> HIDE DEF down, e
          <5> QED BY <2>2, <2>6, <4>1, Chain
        <4>3. -Distance(sorted[m]) <= -Distance(sorted[n]) + e * N
          BY <4>2
        <4> HIDE DEF e
        <4>4. Distance(sorted[n]) <= Distance(sorted[m]) + e * N
          BY <3>1, <4>3
        <4> QED BY <3>2, <3>4, <4>4 DEF Before
      <3> QED BY <3>3, <3>4
    <2> QED BY <1>3, <2>3, <2>5, <2>8 DEF F, N
  <1> QED BY <1>2, <1>3

-----------------------------------------------------------------------------
(***************************************************************************)
(* The elements of a reply.                                                *)
(***************************************************************************)
\* Where the n-th row of a reply begins, of rows with L elements.
RowAt(n, L) == (n - 1) * L + 1

\* Rows do not overlap, and later rows are further on.
LEMMA RowsApart ==
    ASSUME NEW L \in Nat \ {0}, NEW m \in Nat, NEW n \in Nat
    PROVE  /\ RowAt(m, L) \in Int
           /\ m < n <=> RowAt(m, L) < RowAt(n, L)
           /\ RowAt(m, L) = RowAt(n, L) => m = n
  <1>1. \A j \in Nat, k \in Nat : j < k => RowAt(j, L) < RowAt(k, L)
    <2> SUFFICES ASSUME NEW j \in Nat, NEW k \in Nat, j < k PROVE RowAt(j, L) < RowAt(k, L)
      OBVIOUS
    <2> DEFINE d == k - j
    <2>1. d \in Nat \ {0} /\ k = j + d
      OBVIOUS
    <2> HIDE DEF d
    <2>2. (k - 1) * L = (j - 1) * L + d * L
      BY <2>1
    <2>3. d * L \in Nat \ {0} /\ (j - 1) * L \in Int
      BY <2>1
    <2>4. (j - 1) * L + 1 < (k - 1) * L + 1
      BY <2>2, <2>3
    <2> QED BY <2>4 DEF RowAt
  <1>2. RowAt(m, L) \in Int /\ RowAt(n, L) \in Int
    BY DEF RowAt
  <1> QED BY <1>1, <1>2

\* A reply whose rows have L elements each, the first of them a field and no other one.
LEMMA ReplyLayout ==
    ASSUME NEW T, NEW rows \in Seq(Seq(T)), NEW L \in Nat \ {0},
           \A n \in 1 .. Len(rows) :
              /\ Len(rows[n]) = L
              /\ rows[n][1][1] = "field"
              /\ \A j \in 2 .. L : rows[n][j][1] # "field"
    PROVE  LET all == FlattenSeq(rows)
           IN  /\ Len(all) = Len(rows) * L
               /\ {m \in DOMAIN all : all[m][1] = "field"} = {RowAt(n, L) : n \in 1 .. Len(rows)}
               /\ \A n \in 1 .. Len(rows) : all[RowAt(n, L)] = rows[n][1]
  <1> DEFINE all == FlattenSeq(rows)
             e(n) == End(rows, n)
  <1>1. /\ Len(rows) \in Nat /\ all \in Seq(T) /\ Len(all) \in Nat /\ DOMAIN all = 1 .. Len(all)
        /\ Len(all) = Len(rows) * L
        /\ \A n \in 0 .. Len(rows) : e(n) = n * L
        /\ \A n \in 1 .. Len(rows) : \A j \in 1 .. L : all[e(n - 1) + j] = rows[n][j]
        /\ \A n \in 1 .. Len(rows) : e(n) <= Len(all)
        /\ \A m \in 1 .. Len(all) : \E n \in 1 .. Len(rows) : \E j \in 1 .. L : m = e(n - 1) + j
    <2>1. Len(rows) \in Nat
      OBVIOUS
    <2>2. all \in Seq(T)
      BY FlattenSteps
    <2>3. Len(all) = Len(rows) * L /\ \A n \in 0 .. Len(rows) : e(n) = n * L
      BY FlattenUniform
    <2>4. /\ \A n \in 1 .. Len(rows) : \A j \in 1 .. Len(rows[n]) : all[e(n - 1) + j] = rows[n][j]
          /\ \A n \in 1 .. Len(rows) : e(n) <= Len(all)
      BY FlattenLayout
    <2>5. \A m \in 1 .. Len(all) : \E n \in 1 .. Len(rows) : \E j \in 1 .. Len(rows[n]) : m = e(n - 1) + j
      BY FlattenPosition
    <2>6. Len(all) \in Nat /\ DOMAIN all = 1 .. Len(all)
      BY <2>2
    <2> HIDE DEF all, e
    <2>7. \A n \in 1 .. Len(rows) : Len(rows[n]) = L
      OBVIOUS
    <2>8. \A n \in 1 .. Len(rows) : \A j \in 1 .. L : all[e(n - 1) + j] = rows[n][j]
      BY <2>4, <2>7
    <2>9. \A m \in 1 .. Len(all) : \E n \in 1 .. Len(rows) : \E j \in 1 .. L : m = e(n - 1) + j
      BY <2>5, <2>7
    <2> QED BY <2>1, <2>2, <2>3, <2>4, <2>6, <2>8, <2>9
  <1> HIDE DEF all, e
  <1>2. \A n \in 1 .. Len(rows) : RowAt(n, L) = e(n - 1) + 1
    <2> SUFFICES ASSUME NEW n \in 1 .. Len(rows) PROVE RowAt(n, L) = e(n - 1) + 1
      OBVIOUS
    <2>1. n - 1 \in 0 .. Len(rows)
      BY <1>1
    <2>2. e(n - 1) = (n - 1) * L
      BY <1>1, <2>1, Zenon
    <2> QED BY <2>2 DEF RowAt
  <1>3. 1 \in 1 .. L
    OBVIOUS
  <1>4. \A n \in 1 .. Len(rows) : all[RowAt(n, L)] = rows[n][1]
    <2>1. \A n \in 1 .. Len(rows) : \A j \in 1 .. L : all[e(n - 1) + j] = rows[n][j]
      BY <1>1
    <2>2. \A n \in 1 .. Len(rows) : all[e(n - 1) + 1] = rows[n][1]
      BY <1>3, <2>1, Zenon
    <2> QED BY <1>2, <2>2, Zenon
  <1>5. \A n \in 1 .. Len(rows) : RowAt(n, L) \in DOMAIN all
    <2> SUFFICES ASSUME NEW n \in 1 .. Len(rows) PROVE RowAt(n, L) \in DOMAIN all
      OBVIOUS
    <2>1. n \in 0 .. Len(rows) /\ n - 1 \in 0 .. Len(rows) /\ n - 1 \in Nat /\ n \in Nat
      BY <1>1
    <2>2. e(n) = n * L /\ e(n - 1) = (n - 1) * L
      BY <1>1, <2>1, Zenon
    <2>3. e(n) = e(n - 1) + L /\ e(n - 1) \in Nat
      BY <2>1, <2>2
    <2>4. e(n) <= Len(all)
      BY <1>1
    <2> DEFINE a == e(n)
               b == e(n - 1)
               r == RowAt(n, L)
    <2>5. b \in Nat /\ a = b + L /\ r = b + 1 /\ a <= Len(all)
      BY <1>2, <2>3, <2>4
    <2> HIDE DEF a, b, r
    <2>6. r \in 1 .. Len(all)
      BY <1>1, <2>5
    <2> QED BY <1>1, <2>6 DEF r
  <1>6. ASSUME NEW m \in DOMAIN all, all[m][1] = "field" PROVE \E n \in 1 .. Len(rows) : m = RowAt(n, L)
    <2>1. PICK n \in 1 .. Len(rows) : \E j \in 1 .. L : m = e(n - 1) + j
      BY <1>1
    <2>2. PICK j \in 1 .. L : m = e(n - 1) + j
      BY <2>1
    <2>3. all[m] = rows[n][j]
      BY <1>1, <2>2, Zenon
    <2>4. j \notin 2 .. L
      BY <1>6, <2>3, Zenon
    <2>5. j = 1
      BY <2>4
    <2> QED BY <1>2, <2>2, <2>5
  <1>7. {m \in DOMAIN all : all[m][1] = "field"} = {RowAt(n, L) : n \in 1 .. Len(rows)}
    <2>1. \A n \in 1 .. Len(rows) : all[RowAt(n, L)][1] = "field"
      BY <1>4
    <2> QED BY <1>5, <1>6, <2>1
  <1> QED BY <1>1, <1>4, <1>7 DEF all

\* The rows of a search.
LEMMA ElementsShape ==
    ASSUME ctx.value \in BOOLEAN, ctx.dist \in BOOLEAN, NEW f \in Fields
    PROVE  /\ OptionLength \in Nat \ {0}
           /\ Elements(f) \in Seq({"field", "value", "distance"} \X Fields)
           /\ Len(Elements(f)) = OptionLength
           /\ Elements(f)[1] = <<"field", f>>
           /\ \A j \in 2 .. OptionLength : Elements(f)[j][1] # "field"
  <1>1. CASE ctx.value /\ ctx.dist
    <2>1. OptionLength = 3
      BY <1>1 DEF OptionLength
    <2>2. Elements(f) = <<<<"field", f>>, <<"value", f>>, <<"distance", f>>>>
      <3>1. Elements(f) = (<<<<"field", f>>>> \o <<<<"value", f>>>>) \o <<<<"distance", f>>>>
        BY <1>1 DEF Elements
      <3>2. <<<<"field", f>>>> \o <<<<"value", f>>>> = <<<<"field", f>>, <<"value", f>>>>
        BY Concatenated
      <3>3. <<<<"field", f>>, <<"value", f>>>> \o <<<<"distance", f>>>>
               = <<<<"field", f>>, <<"value", f>>, <<"distance", f>>>>
        BY Concatenated, Zenon
      <3> QED BY <3>1, <3>2, <3>3, Zenon
    <2>3. 2 .. 3 = {2, 3}
      OBVIOUS
    <2> QED BY <2>1, <2>2, <2>3
  <1>2. CASE ctx.value /\ ~ctx.dist
    <2>1. OptionLength = 2
      BY <1>2 DEF OptionLength
    <2>2. Elements(f) = <<<<"field", f>>, <<"value", f>>>>
      BY <1>2, Concatenated DEF Elements
    <2>3. 2 .. 2 = {2}
      OBVIOUS
    <2> QED BY <2>1, <2>2, <2>3
  <1>3. CASE ~ctx.value /\ ctx.dist
    <2>1. OptionLength = 2
      BY <1>3 DEF OptionLength
    <2>2. Elements(f) = <<<<"field", f>>, <<"distance", f>>>>
      BY <1>3, Concatenated DEF Elements
    <2>3. 2 .. 2 = {2}
      OBVIOUS
    <2> QED BY <2>1, <2>2, <2>3
  <1>4. CASE ~ctx.value /\ ~ctx.dist
    <2>1. OptionLength = 1
      BY <1>4 DEF OptionLength
    <2>2. Elements(f) = <<<<"field", f>>>>
      BY <1>4 DEF Elements
    <2>3. 2 .. 1 = {}
      OBVIOUS
    <2> QED BY <2>1, <2>2, <2>3
  <1> QED BY <1>1, <1>2, <1>3, <1>4

-----------------------------------------------------------------------------
(***************************************************************************)
(* The reply to a search.                                                  *)
(***************************************************************************)
\* What the walk has selected when it ends.
Selected ==
    /\ ctx \in Contexts(ctx.bounds)
    /\ hits \subseteq Fields
    /\ results \in Seq(Fields) /\ IsInjective(results) /\ ToSet(results) \subseteq hits
    /\ ctx.limit # 0 => Len(results) <= ctx.limit
    /\ ctx.limit = 0 \/ Len(results) < ctx.limit => hits = ToSet(results)

\* The reply with the results in the order they were sorted in.
ReplyOf(sorted) ==
    [kind |-> "result", count |-> Returned, announced |-> Returned * OptionLength,
     elements |-> FlattenSeq([n \in 1 .. Returned |-> Elements(sorted[n])])]

\* Where the fields of the reply are.
LEMMA ReplyRows ==
    ASSUME Selected, NEW sorted \in SortOutcomes, reply = ReplyOf(sorted)
    PROVE  /\ ReplyFramed
           /\ OptionLength \in Nat \ {0}
           /\ Returned \in 0 .. Len(results)
           /\ Listed = {RowAt(n, OptionLength) : n \in 1 .. Returned}
           /\ \A n \in 1 .. Returned : FieldAt(RowAt(n, OptionLength)) = sorted[n]
  <1> DEFINE L == OptionLength
             R == Returned
             N == Len(results)
             rows == [n \in 1 .. R |-> Elements(sorted[n])]
             T == {"field", "value", "distance"} \X Fields
  <1>1. /\ results \in Seq(Fields) /\ N \in Nat /\ ctx.count \in Nat
        /\ ctx.value \in BOOLEAN /\ ctx.dist \in BOOLEAN
    BY DEF Selected, Contexts
  <1>2. R \in 0 .. N
    <2> DEFINE c == ctx.count
    <2>1. R = IF c = 0 \/ N < c THEN N ELSE c
      BY DEF Returned
    <2>2. c \in Nat
      BY <1>1
    <2> HIDE DEF R, N, c
    <2> QED BY <1>1, <2>1, <2>2
  <1>3. sorted \in Seq(Fields) /\ Len(sorted) = N
    BY SortedResults DEF Selected
  <1>4. L \in Nat \ {0}
    <2>1. L = 1 \/ L = 2 \/ L = 3
      BY DEF OptionLength
    <2> QED BY <2>1
  <1> HIDE DEF L, R, N
  <1>5. \A n \in 1 .. R : sorted[n] \in Fields
    BY <1>1, <1>2, <1>3
  <1>6. \A n \in 1 .. R : /\ Elements(sorted[n]) \in Seq(T)
                          /\ Len(Elements(sorted[n])) = L
                          /\ Elements(sorted[n])[1] = <<"field", sorted[n]>>
                          /\ \A j \in 2 .. L : Elements(sorted[n])[j][1] # "field"
    BY <1>1, <1>5, ElementsShape, Zenon DEF L
  <1> HIDE DEF T
  <1>7. /\ rows \in Seq(Seq(T)) /\ Len(rows) = R
        /\ \A n \in 1 .. R : rows[n] = Elements(sorted[n])
    BY <1>1, <1>2, <1>6
  <1> HIDE DEF rows
  <1>8. \A n \in 1 .. R : rows[n][1] = <<"field", sorted[n]>>
    BY <1>6, <1>7
  <1>9. \A n \in 1 .. Len(rows) : /\ Len(rows[n]) = L
                                  /\ rows[n][1][1] = "field"
                                  /\ \A j \in 2 .. L : rows[n][j][1] # "field"
    BY <1>6, <1>7, <1>8
  <1> DEFINE all == FlattenSeq(rows)
  <1>10. /\ Len(all) = Len(rows) * L
         /\ {m \in DOMAIN all : all[m][1] = "field"} = {RowAt(n, L) : n \in 1 .. Len(rows)}
         /\ \A n \in 1 .. Len(rows) : all[RowAt(n, L)] = rows[n][1]
    BY <1>4, <1>7, <1>9, ReplyLayout
  <1>11. reply.elements = all /\ reply.announced = R * L
    BY DEF ReplyOf, rows, R, L
  <1> HIDE DEF all
  <1>12. ReplyFramed
    BY <1>7, <1>10, <1>11 DEF ReplyFramed
  <1>13. Listed = {RowAt(n, L) : n \in 1 .. R}
    BY <1>7, <1>10, <1>11, Zenon DEF Listed
  <1>14. \A n \in 1 .. R : FieldAt(RowAt(n, L)) = sorted[n]
    <2> SUFFICES ASSUME NEW n \in 1 .. R PROVE FieldAt(RowAt(n, L)) = sorted[n]
      OBVIOUS
    <2>1. all[RowAt(n, L)] = <<"field", sorted[n]>>
      BY <1>7, <1>8, <1>10
    <2> QED BY <1>11, <2>1 DEF FieldAt
  <1> QED BY <1>2, <1>4, <1>12, <1>13, <1>14 DEF L, R, N

\* As many rows as fields are returned.
LEMMA RowsCounted ==
    ASSUME NEW L \in Nat \ {0}, NEW R \in Nat
    PROVE  Cardinality({RowAt(n, L) : n \in 1 .. R}) = R
  <1> DEFINE at == [n \in 1 .. R |-> RowAt(n, L)]
             S == {RowAt(n, L) : n \in 1 .. R}
  <1>1. IsFiniteSet(1 .. R) /\ Cardinality(1 .. R) = R
    BY FS_Interval
  <1>2. \A m \in 1 .. R, n \in 1 .. R : RowAt(m, L) = RowAt(n, L) => m = n
    BY RowsApart
  <1>3. at \in Injection(1 .. R, S) /\ at \in Surjection(1 .. R, S)
    BY <1>2 DEF Injection, Surjection, IsInjective
  <1> QED BY <1>1, <1>3, FS_Surjection

\* How many fields are returned: as many as match, up to COUNT and LIMIT.
LEMMA ReturnedCount ==
    ASSUME Selected
    PROVE  LET bounds == {Cardinality(hits)} \union ({ctx.count, ctx.limit} \ {0})
           IN  Returned = CHOOSE n \in bounds : \A m \in bounds : n <= m
  <1> DEFINE N == Len(results)
             H == Cardinality(hits)
             c == ctx.count
             l == ctx.limit
             bounds == {H} \union ({c, l} \ {0})
             R == Returned
  <1>1. N \in Nat /\ c \in Nat /\ l \in Nat /\ results \in Seq(Fields) /\ IsInjective(results)
    BY DEF Selected, Contexts
  <1>2. Cardinality(ToSet(results)) = N
    BY <1>1, InjectiveCardinality
  <1>3. H \in Nat /\ N <= H
    <2>1. IsFiniteSet(Fields)
      BY FieldsAssumption DEF Fields
    <2>2. IsFiniteSet(hits)
      <3>1. hits \in SUBSET Fields
        BY DEF Selected
      <3> QED BY <2>1, <3>1, FS_Subset
    <2>3. ToSet(results) \in SUBSET hits
      BY DEF Selected
    <2> QED BY <1>2, <2>2, <2>3, FS_Subset, FS_CardinalityType
  <1>4. l = 0 \/ N < l => H = N
    BY <1>2 DEF Selected
  <1>5. l # 0 => N <= l
    BY DEF Selected
  <1>6. R = IF c = 0 \/ N < c THEN N ELSE c
    BY DEF Returned
  <1> HIDE DEF N, H, c, l, R
  <1>7. R \in bounds
    BY <1>1, <1>3, <1>4, <1>5, <1>6
  <1>8. \A m \in bounds : m \in Nat /\ R <= m
    BY <1>1, <1>3, <1>4, <1>5, <1>6
  <1>9. ASSUME NEW n \in bounds, \A m \in bounds : n <= m PROVE n = R
    <2>1. n <= R /\ R <= n
      BY <1>7, <1>8, <1>9, Zenon
    <2>2. n \in Nat /\ R \in Nat
      BY <1>7, <1>8, Zenon
    <2> QED BY <2>1, <2>2
  <1> DEFINE least(n) == \A m \in bounds : n <= m
  <1>10. R \in bounds /\ least(R)
    BY <1>7, <1>8, Zenon
  <1>11. \A n \in bounds : least(n) => n = R
    BY <1>9
  <1> HIDE DEF least
  <1>12. R = CHOOSE n \in bounds : least(n)
    BY <1>10, <1>11
  <1> QED BY <1>12 DEF least, H, c, l, R

\* The fields of the reply are those that match.
LEMMA ReplyMatches ==
    ASSUME Selected, NEW sorted \in SortOutcomes, reply = ReplyOf(sorted)
    PROVE  MatchesListed
  <1> DEFINE L == OptionLength
             R == Returned
  <1>1. /\ L \in Nat \ {0} /\ R \in 0 .. Len(results)
        /\ Listed = {RowAt(n, L) : n \in 1 .. R}
        /\ \A n \in 1 .. R : FieldAt(RowAt(n, L)) = sorted[n]
    BY ReplyRows
  <1>2. /\ sorted \in Seq(Fields) /\ Len(sorted) = Len(results) /\ IsInjective(sorted)
        /\ ToSet(sorted) = ToSet(results) /\ Len(results) \in Nat
    BY SortedResults DEF Selected
  <1> HIDE DEF L, R
  <1>3. \A n \in 1 .. R : n \in DOMAIN sorted /\ n \in Nat
    BY <1>1, <1>2
  <1>4. \A n \in 1 .. R : sorted[n] \in hits
    <2>1. \A n \in 1 .. R : sorted[n] \in ToSet(sorted)
      BY <1>3 DEF ToSet
    <2>2. ToSet(results) \subseteq hits
      BY DEF Selected
    <2> QED BY <1>2, <2>1, <2>2
  <1>5. \A n \in Listed : FieldAt(n) \in hits
    BY <1>1, <1>4
  <1>6. ASSUME NEW m \in Listed, NEW n \in Listed, FieldAt(m) = FieldAt(n) PROVE m = n
    <2>1. PICK j \in 1 .. R : m = RowAt(j, L)
      BY <1>1
    <2>2. PICK k \in 1 .. R : n = RowAt(k, L)
      BY <1>1
    <2>3. sorted[j] = sorted[k]
      BY <1>1, <1>6, <2>1, <2>2
    <2>4. j = k
      BY <1>2, <1>3, <2>3, Zenon DEF IsInjective
    <2> QED BY <2>1, <2>2, <2>4
  <1>7. reply.count = R
    BY DEF ReplyOf, R
  <1>8. Cardinality(Listed) = R
    <2>1. R \in Nat
      BY <1>1, <1>2
    <2> QED BY <1>1, <2>1, RowsCounted
  <1>9. R = CHOOSE n \in {Cardinality(hits)} \union ({ctx.count, ctx.limit} \ {0}) :
               \A m \in {Cardinality(hits)} \union ({ctx.count, ctx.limit} \ {0}) : n <= m
    BY ReturnedCount DEF R
  <1> QED BY <1>5, <1>6, <1>7, <1>8, <1>9, Zenon DEF MatchesListed

\* They are the nearest, in their order.
LEMMA ReplyNearest ==
    ASSUME Selected, NEW sorted \in SortOutcomes, reply = ReplyOf(sorted)
    PROVE  NearestListed
  <1> SUFFICES ASSUME Order # "none" PROVE NearestListed
    BY DEF NearestListed
  <1> DEFINE L == OptionLength
             R == Returned
             N == Len(results)
             found == IF ctx.limit = 0 THEN hits ELSE ToSet(results)
  <1>1. /\ L \in Nat \ {0} /\ R \in 0 .. N
        /\ Listed = {RowAt(n, L) : n \in 1 .. R}
        /\ \A n \in 1 .. R : FieldAt(RowAt(n, L)) = sorted[n]
    BY ReplyRows
  <1>2. /\ sorted \in Seq(Fields) /\ Len(sorted) = N
        /\ ToSet(sorted) = ToSet(results) /\ N \in Nat
        /\ \A m \in 1 .. N, n \in 1 .. N : m < n => Before(sorted[m], sorted[n])
    BY SortedResults DEF Selected
  <1>3. found = ToSet(sorted)
    BY <1>2 DEF Selected
  <1> HIDE DEF L, R, N, found
  <1>4. \A n \in 1 .. R : n \in 1 .. N /\ n \in Nat
    BY <1>1, <1>2
  <1>5. ASSUME NEW m \in Listed, NEW n \in Listed, m < n PROVE Before(FieldAt(m), FieldAt(n))
    <2>1. PICK j \in 1 .. R : m = RowAt(j, L)
      BY <1>1
    <2>2. PICK k \in 1 .. R : n = RowAt(k, L)
      BY <1>1
    <2>3. j < k
      BY <1>1, <1>4, <1>5, <2>1, <2>2, RowsApart
    <2>4. Before(sorted[j], sorted[k])
      BY <1>2, <1>4, <2>3
    <2> QED BY <1>1, <2>1, <2>2, <2>4
  <1>6. ASSUME NEW n \in Listed, NEW f \in found, \A m \in Listed : FieldAt(m) # f
        PROVE  Before(FieldAt(n), f)
    <2>1. PICK k \in 1 .. R : n = RowAt(k, L)
      BY <1>1
    <2>2. PICK j \in 1 .. N : f = sorted[j]
      BY <1>2, <1>3 DEF ToSet
    <2>3. j \notin 1 .. R
      BY <1>1, <1>6, <2>2
    <2>4. k < j
      BY <1>1, <1>2, <2>3
    <2>5. Before(sorted[k], sorted[j])
      BY <1>2, <1>4, <2>4
    <2> QED BY <1>1, <2>1, <2>2, <2>5
  <1> QED BY <1>5, <1>6, Zenon DEF NearestListed, found

\* Such a reply has the properties of a search's reply.
LEMMA FromReplied ==
    (Selected /\ \E sorted \in SortOutcomes : reply = ReplyOf(sorted))
        => ReplyFramed /\ MatchesListed /\ NearestListed /\ reply.kind = "result"
  <1> SUFFICES ASSUME Selected, NEW sorted \in SortOutcomes, reply = ReplyOf(sorted)
               PROVE  ReplyFramed /\ MatchesListed /\ NearestListed /\ reply.kind = "result"
    OBVIOUS
  <1>1. ReplyFramed
    BY ReplyRows
  <1>2. MatchesListed
    BY ReplyMatches
  <1>3. NearestListed
    BY ReplyNearest
  <1> QED BY <1>1, <1>2, <1>3 DEF ReplyOf

\* The same of the next state.
LEMMA ToReplied ==
    ((Selected /\ \E sorted \in SortOutcomes : reply = ReplyOf(sorted))
        => ReplyFramed /\ MatchesListed /\ NearestListed /\ reply.kind = "result")'
  BY FromReplied, PTL

\* A command with fields in its reply.
LEMMA FromAnswered ==
    pc = "done" /\ TypeOK /\ ArgumentsInRange /\ MemoryBalanced /\ reply.kind # "error"
        /\ ReplyFramed /\ MatchesListed /\ NearestListed
    => IInv
  BY DEF IInv, IdleOK, ParsingOK, WalkingOK, ParsedAsMeant

\* The same of the next state.
LEMMA ToAnswered ==
    (pc = "done" /\ TypeOK /\ ArgumentsInRange /\ MemoryBalanced /\ reply.kind # "error"
        /\ ReplyFramed /\ MatchesListed /\ NearestListed
    => IInv)'
  BY FromAnswered, PTL

\* The reply to a search.
LEMMA ReplySearchStep ==
    ASSUME IInv, ReplySearch
    PROVE  IInv'
  <1>1. /\ pc = "walking" /\ walk = <<>> /\ pc' = "done"
        /\ \E sorted \in SortOutcomes : reply' = ReplyOf(sorted)
        /\ Free(Allocated)
        /\ UNCHANGED <<request, args, i, reach, ctx, hits, walk, results, cap>>
    BY DEF ReplySearch, ReplyOf, Allocated
  <1>2. WalkingOK /\ Command
    BY <1>1 DEF IInv, WalkingOK
  <1>3. Selected
    <2>1. ToSet(walk) = {}
      BY <1>1 DEF ToSet
    <2>2. /\ hits \subseteq Fields /\ results \in Seq(Fields) /\ IsInjective(results)
          /\ ToSet(results) \subseteq hits
          /\ ctx.limit # 0 => Len(results) <= ctx.limit
          /\ ctx.limit = 0 \/ Len(results) < ctx.limit => hits \subseteq ToSet(walk) \union ToSet(results)
      BY <1>1, <1>2 DEF WalkingOK
    <2>3. ctx \in Contexts(ctx.bounds)
      BY <1>2 DEF Command
    <2>4. ctx.limit = 0 \/ Len(results) < ctx.limit => hits = ToSet(results)
      BY <2>1, <2>2
    <2> QED BY <2>2, <2>3, <2>4 DEF Selected
  <1>4. Selected'
    BY <1>1, <1>3 DEF Selected
  <1>5. (\E sorted \in SortOutcomes : reply = ReplyOf(sorted))'
    <2>1. SortOutcomes' = SortOutcomes
      BY <1>1 DEF SortOutcomes, Order, Sorts, Compare, sortDistanceAsc, Close, Distance
    <2>2. \A sorted : ReplyOf(sorted)' = ReplyOf(sorted)
      BY <1>1 DEF ReplyOf, Returned, OptionLength, Elements
    <2> QED BY <1>1, <2>1, <2>2, Zenon
  <1>6. ReplyFramed' /\ MatchesListed' /\ NearestListed' /\ reply'.kind = "result"
    BY <1>4, <1>5, ToReplied
  <1>7. misuse' = FALSE /\ heap' \subseteq heap /\ (AtMostOne(Targets) => heap' = {})
    <2>1. Allocated \subseteq heap /\ (AtMostOne(Targets) => heap = Allocated) /\ misuse = FALSE
      BY <1>1, <1>2 DEF WalkingOK, Command
    <2> QED BY <1>1, <2>1 DEF Free
  <1>8. TypeOK'
    <2>1. TypeOK
      BY DEF IInv
    <2>2. heap' \subseteq (1 .. Len(args')) \union {MapBlock, ResultsBlock}
      BY <1>1, <1>7, <2>1 DEF TypeOK
    <2> QED BY <1>1, <1>6, <1>7, <2>1, <2>2 DEF TypeOK
  <1>9. ArgumentsInRange'
    <2>1. ArgumentsInRange
      BY DEF IInv
    <2> QED BY <1>1, <2>1 DEF ArgumentsInRange
  <1>10. MemoryBalanced'
    <2>1. Targets' = Targets
      BY <1>1 DEF Targets
    <2>2. Cardinality(Targets) <= 1 => AtMostOne(Targets)
      BY <1>2, FewTargets DEF Command
    <2> QED BY <1>7, <2>1, <2>2 DEF MemoryBalanced
  <1> QED BY <1>1, <1>6, <1>8, <1>9, <1>10, ToAnswered

-----------------------------------------------------------------------------
(***************************************************************************)
(* The reply to GIS.GETALL.                                                *)
(***************************************************************************)
\* The reply to GIS.GETALL.
AllRow(f, value) == <<<<"field", f>>>> \o (IF value THEN <<<<"value", f>>>> ELSE <<>>)

\* It is framed, too.
LEMMA AllRows ==
    ASSUME NEW order \in SetToSeqs(Fields), NEW value
    PROVE  LET size == Cardinality(Fields)
           IN  /\ Len(FlattenSeq([n \in 1 .. size |-> AllRow(order[n], value)]))
                     = IF value THEN 2 * size ELSE size
  <1> DEFINE size == Cardinality(Fields)
             T == {"field", "value"} \X Fields
             L == IF value THEN 2 ELSE 1
             rows == [n \in 1 .. size |-> AllRow(order[n], value)]
  <1>1. order \in Seq(Fields) /\ Len(order) = size /\ size \in Nat
    <2>1. IsFiniteSet(Fields)
      BY FieldsAssumption DEF Fields
    <2> QED BY <2>1, SequenceOfSet, FS_CardinalityType
  <1> HIDE DEF size
  <1>2. \A f \in Fields : AllRow(f, value) \in Seq(T) /\ Len(AllRow(f, value)) = L
    <2> SUFFICES ASSUME NEW f \in Fields PROVE AllRow(f, value) \in Seq(T) /\ Len(AllRow(f, value)) = L
      OBVIOUS
    <2>1. CASE value
      <3>1. AllRow(f, value) = <<<<"field", f>>, <<"value", f>>>>
        BY <2>1, Concatenated DEF AllRow
      <3>2. L = 2
        BY <2>1
      <3> HIDE DEF L
      <3> QED BY <3>1, <3>2
    <2>2. CASE ~value
      <3>1. AllRow(f, value) = <<<<"field", f>>>>
        BY <2>2, Concatenated DEF AllRow
      <3>2. L = 1
        BY <2>2
      <3> HIDE DEF L
      <3> QED BY <3>1, <3>2
    <2> QED BY <2>1, <2>2
  <1>3. L \in Nat
    OBVIOUS
  <1> HIDE DEF T
  <1>4. \A n \in 1 .. size : order[n] \in Fields
    BY <1>1
  <1>5. rows \in Seq(Seq(T)) /\ Len(rows) = size /\ \A n \in 1 .. Len(rows) : Len(rows[n]) = L
    <2>1. \A n \in 1 .. size : AllRow(order[n], value) \in Seq(T) /\ Len(AllRow(order[n], value)) = L
      BY <1>2, <1>4
    <2> HIDE DEF L
    <2> QED BY <1>1, <2>1
  <1> HIDE DEF rows, L
  <1>6. Len(FlattenSeq(rows)) = size * L
    BY <1>3, <1>5, FlattenUniform
  <1>7. size * L = IF value THEN 2 * size ELSE size
    BY <1>1 DEF L
  <1> QED BY <1>6, <1>7 DEF rows, size

\* GIS.GETALL replies at once.
LEMMA GetAllStep ==
    ASSUME IInv, pc = "idle", NEW phrases \in Requests, GetAll(phrases)
    PROVE  IInv'
  <1>1. /\ args' = FlattenSeq(phrases) /\ pc' = "done"
        /\ UNCHANGED <<i, reach, ctx, heap, misuse, hits, walk, results, cap>>
    BY DEF GetAll
  <1>2. PICK value :
            \E order \in SetToSeqs(Fields) :
              reply' = [kind |-> "all", count |-> Cardinality(Fields),
                        announced |-> IF value THEN 2 * Cardinality(Fields) ELSE Cardinality(Fields),
                        elements |-> FlattenSeq([n \in 1 .. Cardinality(Fields) |-> AllRow(order[n], value)])]
    BY DEF GetAll, AllRow
  <1>3. reply'.kind = "all" /\ reply'.announced = Len(reply'.elements)
    BY <1>2, AllRows
  <1>4. /\ i = 1 /\ reach = 0 /\ ctx = NewContext /\ heap = {} /\ misuse = FALSE
        /\ hits = {} /\ walk = <<>> /\ results = <<>> /\ cap = 0
    BY DEF IInv, IdleOK
  <1>5. Len(args') \in Nat
    <2>1. args' \in Seq(Tokens)
      BY <1>1, RequestShape, FlattenSteps
    <2> QED BY <2>1
  <1>6. TypeOK'
    <2>1. Len(<<>>) = 0 /\ ToSet(<<>>) = {}
      BY DEF ToSet
    <2>2. ctx.type = "none" /\ ctx.sort = "none"
      BY <1>4 DEF NewContext
    <2>3. i' \in 1 .. Len(args') + 1 /\ reach' \in 0 .. i' + 4
      BY <1>1, <1>4, <1>5
    <2>4. /\ Len(results') <= cap' /\ cap' <= 2 * Len(results')
          /\ ToSet(walk') \union ToSet(results') \subseteq Fields
      BY <1>1, <1>4, <2>1
    <2> QED BY <1>1, <1>3, <1>4, <2>2, <2>3, <2>4 DEF TypeOK
  <1>7. ArgumentsInRange' /\ MemoryBalanced'
    BY <1>1, <1>4, <1>5 DEF ArgumentsInRange, MemoryBalanced
  <1>8. ReplyFramed' /\ MatchesListed' /\ NearestListed'
    BY <1>3 DEF ReplyFramed, MatchesListed, NearestListed
  <1> QED BY <1>1, <1>3, <1>6, <1>7, <1>8, ToAnswered

-----------------------------------------------------------------------------
(***************************************************************************)
(* The invariant, and what follows from it.                                *)
(***************************************************************************)
\* The handler returns.
LEMMA ReturnStep ==
    ASSUME Return
    PROVE  IInv'
  <1>1. pc' = "idle" /\ IdleOK'
    BY DEF Return, IdleOK
  <1> QED BY <1>1, ToIdle

\* The invariant holds initially.
LEMMA InitInvariant == Init => IInv
  BY FromIdle DEF Init, IdleOK

\* A step that changes nothing.
LEMMA StutterInvariant == IInv /\ UNCHANGED vars => IInv'
  <1> SUFFICES ASSUME IInv, UNCHANGED vars PROVE IInv'
    OBVIOUS
  <1>1. UNCHANGED <<request, args, pc, i, reach, ctx, heap, misuse, hits, walk, results, cap, reply>>
    BY DEF vars
  <1>2. TypeOK' /\ IdleOK' /\ ArgumentsInRange' /\ ReplyFramed'
    BY <1>1 DEF IInv, TypeOK, IdleOK, ArgumentsInRange, ReplyFramed
  <1>3. /\ Acceptable' <=> Acceptable
        /\ Meant' = Meant /\ Targets' = Targets
        /\ \A words : LastOf(words)' = LastOf(words) /\ FirstOf(words)' = FirstOf(words)
    BY <1>1, SameMeaning
  <1>4. Command' <=> Command
    BY <1>1 DEF Command
  <1>5. AtMostOne(Targets)' <=> AtMostOne(Targets)
    BY <1>3 DEF AtMostOne
  <1>6. ParsedAsMeant'
    BY <1>1, <1>3, Zenon DEF IInv, ParsedAsMeant
  <1>7. MemoryBalanced'
    BY <1>1, <1>3 DEF IInv, MemoryBalanced
  <1>8. WalkingOK'
    <2>1. Allocated' = Allocated
      BY <1>1 DEF Allocated
    <2> QED BY <1>1, <1>4, <1>5, <2>1 DEF IInv, WalkingOK
  <1>9. ParsingOK'
    <2> SUFFICES ASSUME pc = "parsing" PROVE ParsingOK'
      BY <1>1 DEF ParsingOK
    <2>1. /\ Command /\ hits = {} /\ walk = <<>> /\ results = <<>> /\ cap = 0
          /\ \E k \in 0 .. Len(request) : Progress(k)
      BY DEF IInv, ParsingOK
    <2>2. PICK k \in 0 .. Len(request) : Progress(k)
      BY <2>1
    <2>3. /\ \A words : LastUpTo(words, k)' = LastUpTo(words, k) /\ FirstUpTo(words, k)' = FirstUpTo(words, k)
          /\ TargetsUpTo(k)' = TargetsUpTo(k)
      BY <1>1 DEF LastUpTo, FirstUpTo, TargetsUpTo
    <2>4. Options(k)'
      BY <1>1, <2>2, <2>3, Zenon DEF Progress, Options
    <2>5. Target(k)'
      BY <1>1, <2>2, <2>3 DEF Progress, Target, NoneGiven, OneGiven, AtMostOne
    <2>6. Blocks(k)'
      BY <1>1, <2>2, <2>3 DEF Progress, Blocks, AtMostOne
    <2>7. Progress(k)'
      BY <1>1, <2>2, <2>4, <2>5, <2>6 DEF Progress
    <2> QED BY <1>1, <1>4, <2>1, <2>7 DEF ParsingOK
  <1>10. MatchesListed'
    BY <1>1 DEF IInv, MatchesListed, Listed, FieldAt
  <1>11. NearestListed'
    BY <1>1 DEF IInv, NearestListed, Listed, FieldAt, Order, Before, Distance, Slack
  <1> QED BY <1>2, <1>6, <1>7, <1>8, <1>9, <1>10, <1>11 DEF IInv

\* Every step preserves the invariant.
LEMMA NextInvariant == IInv /\ [Next]_vars => IInv'
  <1> SUFFICES ASSUME IInv, [Next]_vars PROVE IInv'
    OBVIOUS
  <1>1. CASE UNCHANGED vars
    BY <1>1, StutterInvariant
  <1>2. CASE pc = "idle" /\ \E phrases \in Requests : Receive(phrases)
    BY <1>2, ReceiveStep
  <1>3. CASE pc = "idle" /\ \E phrases \in Requests, type \in {"none", "string"} : ReceiveNoKey(phrases, type)
    BY <1>3, ReceiveNoKeyStep
  <1>4. CASE pc = "idle" /\ \E phrases \in Requests : FlagsOnly(phrases) /\ GetAll(phrases)
    BY <1>4, GetAllStep
  <1>5. CASE \E word \in Words : ParseOption(word)
    BY <1>5, ParseOptionStep
  <1>6. CASE ParseOther
    BY <1>6, ParseOtherStep
  <1>7. CASE ParseFail
    BY <1>7, ParseFailStep
  <1>8. CASE DefaultTarget
    BY <1>8, DefaultTargetStep
  <1>9. CASE NoTarget
    BY <1>9, NoTargetStep
  <1>10. CASE StartWalk
    BY <1>10, StartWalkStep
  <1>11. CASE Visit
    BY <1>11, VisitStep
  <1>12. CASE ReplySearch
    BY <1>12, ReplySearchStep
  <1>13. CASE Return
    BY <1>13, ReturnStep
  <1> QED
    BY <1>1, <1>2, <1>3, <1>4, <1>5, <1>6, <1>7, <1>8, <1>9, <1>10, <1>11, <1>12, <1>13, Zenon DEF Next

\* The invariant holds of every behaviour of Search.
THEOREM Invariant == Spec => []IInv
  BY InitInvariant, NextInvariant, PTL DEF Spec

\* Type correctness; a part of it is that the array of results is never too small for them,
\* and less than half of it is unused.
THEOREM TypeCorrect == Spec => []TypeOK
  <1>1. IInv => TypeOK
    BY DEF IInv
  <1> QED BY <1>1, Invariant, PTL

\* parseGisFlags reads no argument that is not there.
THEOREM ArgumentsRead == Spec => []ArgumentsInRange
  <1>1. IInv => ArgumentsInRange
    BY DEF IInv
  <1> QED BY <1>1, Invariant, PTL

\* A command is refused if it has to be, and otherwise searched for as it was meant.
THEOREM CommandsUnderstood == Spec => []ParsedAsMeant
  <1>1. IInv => ParsedAsMeant
    BY DEF IInv
  <1> QED BY <1>1, Invariant, PTL

\* A command frees what it allocated, and nothing else.
THEOREM NothingLeaked == Spec => []MemoryBalanced
  <1>1. IInv => MemoryBalanced
    BY DEF IInv
  <1> QED BY <1>1, Invariant, PTL

\* A reply has as many elements as it announces.
THEOREM RepliesWhole == Spec => []ReplyFramed
  <1>1. IInv => ReplyFramed
    BY DEF IInv
  <1> QED BY <1>1, Invariant, PTL

\* A reply lists matches, each once, and as many as COUNT and LIMIT allow.
THEOREM RepliesComplete == Spec => []MatchesListed
  <1>1. IInv => MatchesListed
    BY DEF IInv
  <1> QED BY <1>1, Invariant, PTL

\* With COUNT the nearest are listed, and what is listed is in its order.
THEOREM RepliesOrdered == Spec => []NearestListed
  <1>1. IInv => NearestListed
    BY DEF IInv
  <1> QED BY <1>1, Invariant, PTL

=============================================================================
