------------------------------- MODULE Search -------------------------------
(***************************************************************************)
(* One search command of src/tairgis.c from its arguments to its reply:    *)
(* parseGisFlags, exgsearchInner and the searchIterator of src/spatial.c,  *)
(* with the memory they allocate.                                          *)
(*                                                                         *)
(* An argument is a pair of its kind and its value: <<"word", "COUNT">>,   *)
(* <<"number", 3>>, <<"unit", 1000>>, <<"wkt", g>>, or a field of the key, *)
(* whose name may be a word, too.  A request is a sequence of phrases, an  *)
(* option with its arguments each; the code sees the arguments only.       *)
(* Matching and distances are parameters; Spatial has the entries that a   *)
(* search skips.  Redis ends the process when it runs out of memory, and   *)
(* geomNewPolyMap succeeds for what geomDecode accepted.                   *)
(***************************************************************************)
EXTENDS Integers, SequencesExt

CONSTANTS
    Points,             \* the fields of the key that hold a point
    Shapes,             \* its other fields
    DistanceFrom(_, _), \* the distance of a field from an origin, in meters
    Epsilon,            \* 0.0000001 of the comparator
    Requests            \* the requests to try

ASSUME FieldsAssumption == Points \intersect Shapes = {} /\ IsFiniteSet(Points \union Shapes)

ASSUME EpsilonAssumption == Epsilon \in Nat

VARIABLES
    request,    \* ghost: the phrases of the command
    args,       \* its arguments after the key
    pc,         \* where the command is
    i,          \* the argument that is parsed next
    reach,      \* ghost: the last argument that was read
    ctx,        \* searchContext
    heap,       \* ghost: what is allocated
    misuse,     \* ghost: whether something was freed that was not allocated
    hits,       \* what matches the target, of the entries that overlap its bounds
    walk,       \* the entries that the tree still has to visit
    results,    \* ctx.results, ctx.len
    cap,        \* ctx.cap
    reply

vars == <<request, args, pc, i, reach, ctx, heap, misuse, hits, walk, results, cap, reply>>

Fields == Points \union Shapes

Place(longitude, latitude) == <<"place", longitude, latitude>>

Zero == Place(0, 0)

\* Where distances are measured from: the origin of a circle, or Zero for a geometry.
Origins == {Zero} \union {Place(p[1], p[2]) : p \in (-180 .. 180) \X (-90 .. 90)} \union Points

ASSUME DistanceAssumption == \A origin \in Origins, f \in Fields : DistanceFrom(origin, f) \in Int

\* searchContext after exgsearchInner has filled it; g is the block of the target.
NewContext ==
    [type |-> "none", g |-> {}, bounds |-> {}, center |-> Zero, meters |-> 0, toMeters |-> 1,
     value |-> TRUE, dist |-> FALSE, sort |-> "none", count |-> 0, limit |-> 0]

NoReply == [kind |-> "none", count |-> 0, announced |-> 0, elements |-> <<>>]

Error == [NoReply EXCEPT !.kind = "error"]

Init ==
    /\ request = <<>>
    /\ args = <<>>
    /\ pc = "idle"
    /\ i = 1
    /\ reach = 0
    /\ ctx = NewContext
    /\ heap = {}
    /\ misuse = FALSE
    /\ hits = {}
    /\ walk = <<>>
    /\ results = <<>>
    /\ cap = 0
    /\ reply = NoReply

-----------------------------------------------------------------------------
(***************************************************************************)
(* parseGisFlags.                                                          *)
(***************************************************************************)
Arg(n) == IF n \in DOMAIN args THEN args[n] ELSE <<"none", 0>>

TargetWords == {"RADIUS", "GEOM", "MEMBER"}

ValueWords == {"WITHVALUE", "WITHOUTVALUE", "WITHOUTWKT"}

Words == TargetWords \union ValueWords \union {"WITHDIST", "COUNT", "LIMIT", "ASC", "DESC"}

Arity(word) ==
    CASE word = "RADIUS" -> 4
      [] word = "MEMBER" -> 3
      [] word \in {"GEOM", "COUNT", "LIMIT"} -> 1
      [] OTHER -> 0

Tokens == UNION {UNION {ToSet(phrase) : phrase \in ToSet(phrases)} : phrases \in Requests}

\* Whether the arguments are cut into phrases in the one way there is: an option takes the
\* arguments it needs, or as many as are left; any other argument is a phrase of its own.
Cut(phrases) ==
    \A n \in DOMAIN phrases :
        LET phrase == phrases[n]
            needs == IF phrase[1][1] = "word" /\ phrase[1][2] \in Words THEN 1 + Arity(phrase[1][2]) ELSE 1
        IN  /\ Len(phrase) \in 1 .. needs
            /\ n < Len(phrases) => Len(phrase) = needs

ASSUME RequestsAssumption ==
    /\ Requests \subseteq Seq(Seq(Tokens))
    /\ \A phrases \in Requests : Cut(phrases)
    /\ \A a \in Tokens : /\ a = <<a[1], a[2]>>
                         /\ a[1] = "number" => a[2] \in Int
                         /\ a[1] = "unit" => a[2] \in Nat

\* The option at i, if there is one; anything else is passed over.
Word == IF Arg(i)[1] = "word" /\ Arg(i)[2] \in Words THEN Arg(i)[2] ELSE "none"

\* Mutant: a command may end one argument too early.
MissingOne(word) == i + Arity(word) > Len(args) + 1

Missing(word) == i + Arity(word) > Len(args)

Number(n) == Arg(n)[1] = "number"

Positive(n) == Number(n) /\ Arg(n)[2] > 0

Unit(n) == Arg(n)[1] = "unit"

\* Whether the arguments of the option at i can be used.
Valid(word) ==
    /\ word = "RADIUS" => /\ Number(i + 1) /\ Arg(i + 1)[2] \in -180 .. 180
                          /\ Number(i + 2) /\ Arg(i + 2)[2] \in -90 .. 90
                          /\ Number(i + 3) /\ Unit(i + 4)
    /\ word = "GEOM" => Arg(i + 1)[1] = "wkt"
    /\ word = "MEMBER" => Arg(i + 1) \in Points /\ Number(i + 2) /\ Unit(i + 3)
    /\ word \in {"COUNT", "LIMIT"} => Positive(i + 1)

\* The context with a circle, or with a geometry, as its target.
Circle(c, center, number, unit) ==
    [c EXCEPT !.type = "RADIUS", !.g = {i}, !.center = center, !.toMeters = unit,
              !.meters = number * unit, !.bounds = <<center, number * unit>>]

Geometry(c, block, wkt) == [c EXCEPT !.type = "GEOMETRY", !.g = {block}, !.bounds = wkt]

\* ASC and DESC: the first one counts.  Mutant: the last one does.
SortedLast(c, word) == [c EXCEPT !.sort = word]

Sorted(c, word) == [c EXCEPT !.sort = IF @ = "none" THEN word ELSE @]

\* The context after the option at i.
Applied(word) ==
    CASE word = "RADIUS" -> Circle(ctx, Place(Arg(i + 1)[2], Arg(i + 2)[2]), Arg(i + 3)[2], Arg(i + 4)[2])
      [] word = "GEOM" -> Geometry(ctx, i, Arg(i + 1))
      [] word = "MEMBER" -> Circle(ctx, Arg(i + 1), Arg(i + 2)[2], Arg(i + 3)[2])
      [] word \in ValueWords -> [ctx EXCEPT !.value = (word = "WITHVALUE")]
      [] word = "WITHDIST" -> [ctx EXCEPT !.dist = TRUE]
      [] word = "COUNT" -> [ctx EXCEPT !.count = Arg(i + 1)[2]]
      [] word = "LIMIT" -> [ctx EXCEPT !.limit = Arg(i + 1)[2]]
      [] word \in {"ASC", "DESC"} -> Sorted(ctx, word)

Parsing == pc = "parsing" /\ i <= Len(args)

ReadTo(n) == reach' = IF n > reach THEN n ELSE reach

\* Mutant: the option itself is not counted among what is skipped.
ParseOptionShort(word) ==
    /\ Parsing /\ Word = word /\ ~Missing(word) /\ Valid(word)
    /\ ctx' = Applied(word)
    /\ heap' = heap \union (IF word \in TargetWords THEN {i} ELSE {})
    /\ ReadTo(i + Arity(word))
    /\ i' = i + Arity(word)
    /\ UNCHANGED <<request, args, pc, misuse, hits, walk, results, cap, reply>>

\* An option; the block of an earlier target is not freed.
ParseOption(word) ==
    /\ Parsing /\ Word = word /\ ~Missing(word) /\ Valid(word)
    /\ ctx' = Applied(word)
    /\ heap' = heap \union (IF word \in TargetWords THEN {i} ELSE {})
    /\ ReadTo(i + Arity(word))
    /\ i' = i + 1 + Arity(word)
    /\ UNCHANGED <<request, args, pc, misuse, hits, walk, results, cap, reply>>

\* An argument that is no option is passed over.
ParseOther ==
    /\ Parsing /\ Word = "none"
    /\ ReadTo(i)
    /\ i' = i + 1
    /\ UNCHANGED <<request, args, pc, ctx, heap, misuse, hits, walk, results, cap, reply>>

Free(blocks) ==
    /\ misuse' = (misuse \/ ~(blocks \subseteq heap))
    /\ heap' = heap \ blocks

\* Mutant: the target of an earlier option is left allocated.
ParseFailLeak ==
    /\ Parsing /\ Word # "none" /\ (Missing(Word) \/ ~Valid(Word))
    /\ ReadTo(IF Missing(Word) THEN i ELSE i + Arity(Word))
    /\ reply' = Error
    /\ pc' = "done"
    /\ UNCHANGED <<request, args, i, ctx, heap, misuse, hits, walk, results, cap>>

\* An option that cannot be used: an error, and what was allocated is freed.
ParseFail ==
    /\ Parsing /\ Word # "none" /\ (Missing(Word) \/ ~Valid(Word))
    /\ ReadTo(IF Missing(Word) THEN i ELSE i + Arity(Word))
    /\ Free(ctx.g)
    /\ reply' = Error
    /\ pc' = "done"
    /\ UNCHANGED <<request, args, i, ctx, hits, walk, results, cap>>

-----------------------------------------------------------------------------
(***************************************************************************)
(* exgsearchInner.                                                         *)
(***************************************************************************)
\* Without an option for it, the first argument is the target.
DefaultTarget ==
    /\ pc = "parsing" /\ i > Len(args) /\ ctx.g = {}
    /\ Arg(1)[1] = "wkt"
    /\ ctx' = Geometry(ctx, 1, Arg(1))
    /\ heap' = heap \union {1}
    /\ UNCHANGED <<request, args, pc, i, reach, misuse, hits, walk, results, cap, reply>>

NoTarget ==
    /\ pc = "parsing" /\ i > Len(args) /\ ctx.g = {}
    /\ Arg(1)[1] # "wkt"
    /\ reply' = Error
    /\ pc' = "done"
    /\ UNCHANGED <<request, args, i, reach, ctx, heap, misuse, hits, walk, results, cap>>

\* Blocks: a target has the number of its argument.
MapBlock == -1

ResultsBlock == -2

\* The poly map of the target, and the search of the tree in whatever order it is in.
StartWalk ==
    /\ pc = "parsing" /\ i > Len(args) /\ ctx.g # {}
    /\ heap' = heap \union {MapBlock}
    /\ hits' \in SUBSET Fields
    /\ walk' \in SetToSeqs(Fields)
    /\ pc' = "walking"
    /\ UNCHANGED <<request, args, i, reach, ctx, misuse, results, cap, reply>>

\* Mutant: an array without elements stays so.
GrownDouble(capacity) == 2 * capacity

Grown(capacity) == IF capacity = 0 THEN 1 ELSE 2 * capacity

LimitReached == ctx.limit # 0 /\ Len(results) >= ctx.limit

\* searchIterator: an entry is skipped or goes to the results, whose array grows.
\* Mutant: LIMIT does not stop anything.
VisitAll ==
    /\ pc = "walking" /\ walk # <<>>
    /\ walk' = Tail(walk)
    /\ IF Head(walk) \in hits
       THEN /\ cap' = IF Len(results) < cap THEN cap ELSE Grown(cap)
            /\ heap' = heap \union {ResultsBlock}
            /\ results' = Append(results, Head(walk))
       ELSE UNCHANGED <<heap, results, cap>>
    /\ UNCHANGED <<request, args, pc, i, reach, ctx, misuse, hits, reply>>

Visit ==
    /\ pc = "walking" /\ walk # <<>>
    /\ walk' = Tail(walk)
    /\ IF Head(walk) \in hits /\ ~LimitReached
       THEN /\ cap' = IF Len(results) < cap THEN cap ELSE Grown(cap)
            /\ heap' = heap \union {ResultsBlock}
            /\ results' = Append(results, Head(walk))
       ELSE UNCHANGED <<heap, results, cap>>
    /\ UNCHANGED <<request, args, pc, i, reach, ctx, misuse, hits, reply>>

-----------------------------------------------------------------------------
\* COUNT without an order means the nearest.
Order == IF ctx.count # 0 /\ ctx.sort = "none" THEN "ASC" ELSE ctx.sort

Distance(f) == DistanceFrom(ctx.center, f)

\* Distances are compared in the unit of the option.
Close(a, b) == a - b < Epsilon * ctx.toMeters /\ b - a < Epsilon * ctx.toMeters

sortDistanceAsc(f, g) ==
    IF Distance(f) > Distance(g) THEN 1 ELSE IF Close(Distance(f), Distance(g)) THEN 0 ELSE -1

Compare(f, g) == IF Order = "ASC" THEN sortDistanceAsc(f, g) ELSE -sortDistanceAsc(f, g)

\* qsort: two neighbours of the outcome have been compared, in one order or in the other.
\* The comparator may say of two close distances that each is the greater one.
Sorts(s) ==
    {p \in SetToSeqs(ToSet(s)) :
        \A n \in 1 .. Len(s) - 1 : Compare(p[n], p[n + 1]) <= 0 \/ Compare(p[n + 1], p[n]) >= 0}

SortOutcomes == IF Order = "none" THEN {results} ELSE Sorts(results)

Returned == IF ctx.count = 0 \/ Len(results) < ctx.count THEN Len(results) ELSE ctx.count

\* Mutant: a distance is not counted as an element.
OptionLengthNoDist == 1 + (IF ctx.value THEN 1 ELSE 0)

OptionLength == 1 + (IF ctx.value THEN 1 ELSE 0) + (IF ctx.dist THEN 1 ELSE 0)

\* The elements of the reply that belong to a field.
Elements(f) ==
    <<<<"field", f>>>>
        \o (IF ctx.value THEN <<<<"value", f>>>> ELSE <<>>)
        \o (IF ctx.dist THEN <<<<"distance", f>>>> ELSE <<>>)

\* Mutant: what COUNT leaves out is cut before sorting.
ReplySearchCut ==
    /\ pc = "walking" /\ walk = <<>>
    /\ \E sorted \in (IF Order = "none" THEN {results} ELSE Sorts(SubSeq(results, 1, Returned))) :
          reply' = [kind |-> "result", count |-> Returned, announced |-> Returned * OptionLength,
                    elements |-> FlattenSeq([n \in 1 .. Returned |-> Elements(sorted[n])])]
    /\ Free(ctx.g \union {MapBlock} \union (IF cap > 0 THEN {ResultsBlock} ELSE {}))
    /\ pc' = "done"
    /\ UNCHANGED <<request, args, i, reach, ctx, hits, walk, results, cap>>

\* Sorting, the reply, and everything that was allocated is freed.
ReplySearch ==
    /\ pc = "walking" /\ walk = <<>>
    /\ \E sorted \in SortOutcomes :
          reply' = [kind |-> "result", count |-> Returned, announced |-> Returned * OptionLength,
                    elements |-> FlattenSeq([n \in 1 .. Returned |-> Elements(sorted[n])])]
    /\ Free(ctx.g \union {MapBlock} \union (IF cap > 0 THEN {ResultsBlock} ELSE {}))
    /\ pc' = "done"
    /\ UNCHANGED <<request, args, i, reach, ctx, hits, walk, results, cap>>

\* The command arrives; one that has no argument after the key is refused.
Receive(phrases) ==
    /\ request' = phrases
    /\ args' = FlattenSeq(phrases)
    /\ IF args' = <<>> THEN pc' = "done" /\ reply' = Error
       ELSE pc' = "parsing" /\ reply' = NoReply
    /\ UNCHANGED <<i, reach, ctx, heap, misuse, hits, walk, results, cap>>

\* There is no such key, or it holds something else.
ReceiveNoKey(phrases, type) ==
    /\ request' = phrases
    /\ args' = FlattenSeq(phrases)
    /\ args' # <<>>
    /\ reply' = IF type = "none" THEN [NoReply EXCEPT !.kind = "empty"] ELSE Error
    /\ pc' = "done"
    /\ UNCHANGED <<i, reach, ctx, heap, misuse, hits, walk, results, cap>>

\* Whether the values are replied, too, after one more argument.
WithValue(value, a) == IF a[2] \in ValueWords THEN a[2] = "WITHVALUE" ELSE value

\* GIS.GETALL: WITHOUTWKT is the option it has; the fields come in the order of the dictionary.
GetAll(phrases) ==
    /\ request' = phrases
    /\ args' = FlattenSeq(phrases)
    /\ LET value == FoldLeft(WithValue, TRUE, args')
           size == Cardinality(Fields)
       IN  \E order \in SetToSeqs(Fields) :
              reply' = [kind |-> "all", count |-> size, announced |-> IF value THEN 2 * size ELSE size,
                        elements |-> FlattenSeq([n \in 1 .. size |->
                            <<<<"field", order[n]>>>> \o (IF value THEN <<<<"value", order[n]>>>> ELSE <<>>)])]
    /\ pc' = "done"
    /\ UNCHANGED <<i, reach, ctx, heap, misuse, hits, walk, results, cap>>

FlagsOnly(phrases) == \A n \in DOMAIN phrases : phrases[n][1] \in {"word"} \X (ValueWords \union {"WITHDIST"})

\* The handler returns; the next command starts with a context of its own.
Return ==
    /\ pc = "done"
    /\ request' = <<>> /\ args' = <<>> /\ pc' = "idle" /\ i' = 1 /\ reach' = 0 /\ ctx' = NewContext
    /\ heap' = {} /\ misuse' = FALSE
    /\ hits' = {} /\ walk' = <<>> /\ results' = <<>> /\ cap' = 0 /\ reply' = NoReply

Next ==
    \/ pc = "idle" /\ \E phrases \in Requests : Receive(phrases)
    \/ pc = "idle" /\ \E phrases \in Requests, type \in {"none", "string"} : ReceiveNoKey(phrases, type)
    \/ pc = "idle" /\ \E phrases \in Requests : FlagsOnly(phrases) /\ GetAll(phrases)
    \/ \E word \in Words : ParseOption(word)
    \/ ParseOther
    \/ ParseFail
    \/ DefaultTarget
    \/ NoTarget
    \/ StartWalk
    \/ Visit
    \/ ReplySearch
    \/ Return

\* A handler that has begun goes on; clients need not send commands.
Spec == Init /\ [][Next]_vars /\ WF_vars(pc # "idle" /\ Next)

-----------------------------------------------------------------------------
(***************************************************************************)
(* What the phrases of a request mean, after the README.                   *)
(***************************************************************************)
Is(phrase, words) == Len(phrase) > 0 /\ phrase[1][1] = "word" /\ phrase[1][2] \in words

\* The last phrase with one of the words, or the first, as a set with at most one member.
LastOf(words) ==
    {request[n] : n \in {m \in DOMAIN request :
        Is(request[m], words) /\ \A k \in m + 1 .. Len(request) : ~Is(request[k], words)}}

FirstOf(words) ==
    {request[n] : n \in {m \in DOMAIN request :
        Is(request[m], words) /\ \A k \in 1 .. m - 1 : ~Is(request[k], words)}}

Targets == {n \in DOMAIN request : Is(request[n], TargetWords)}

Usable(phrase) ==
    LET a == Tail(phrase)
        number(n) == a[n][1] = "number"
        circle(n) == number(n) /\ a[n + 1][1] = "unit"
    IN  /\ Is(phrase, {"RADIUS"}) => /\ Len(a) = 4 /\ number(1) /\ number(2) /\ circle(3)
                                     /\ a[1][2] \in -180 .. 180 /\ a[2][2] \in -90 .. 90
        /\ Is(phrase, {"MEMBER"}) => Len(a) = 3 /\ a[1] \in Points /\ circle(2)
        /\ Is(phrase, {"GEOM"}) => Len(a) = 1 /\ a[1][1] = "wkt"
        /\ Is(phrase, {"COUNT", "LIMIT"}) => Len(a) = 1 /\ number(1) /\ a[1][2] > 0

Acceptable ==
    /\ \A n \in DOMAIN request : Usable(request[n])
    /\ Targets # {} \/ request[1][1][1] = "wkt"

\* What to search around, of a phrase with a target,
Meaning(phrase) ==
    LET center == IF Is(phrase, {"RADIUS"}) THEN Place(phrase[2][2], phrase[3][2]) ELSE phrase[2]
        unit == phrase[Len(phrase)][2]
    IN  IF Is(phrase, {"GEOM"}) THEN [bounds |-> phrase[2], center |-> Zero, toMeters |-> 1]
        ELSE [bounds |-> <<center, unit * phrase[Len(phrase) - 1][2]>>, center |-> center, toMeters |-> unit]

\* and of an acceptable request.
Meant ==
    IF Targets = {} THEN [bounds |-> request[1][1], center |-> Zero, toMeters |-> 1]
    ELSE Meaning(CHOOSE phrase \in LastOf(TargetWords) : TRUE)

-----------------------------------------------------------------------------
(***************************************************************************)
(* Properties.                                                             *)
(***************************************************************************)
TypeOK ==
    /\ pc \in {"idle", "parsing", "walking", "done"}
    /\ i \in 1 .. Len(args) + 1
    /\ reach \in 0 .. i + 4
    /\ ctx.type \in {"none", "RADIUS", "GEOMETRY"}
    /\ ctx.sort \in {"none", "ASC", "DESC"}
    /\ heap \subseteq (1 .. Len(args)) \union {MapBlock, ResultsBlock}
    /\ misuse \in BOOLEAN
    /\ hits \subseteq Fields
    /\ ToSet(walk) \union ToSet(results) \subseteq Fields
    /\ Len(results) <= cap /\ cap <= 2 * Len(results)
    /\ reply.kind \in {"none", "error", "empty", "result", "all"}

\* parseGisFlags reads no argument beyond the last one, wherever the command ends.
ArgumentsInRange == reach <= Len(args)

\* A command that reaches the parser is refused exactly when an option has not the arguments
\* it needs or there is no target.  Otherwise it is searched for with the options that were
\* given: the last target, COUNT and LIMIT, the first of ASC and DESC, whatever stands
\* between them.  The name of a MEMBER is no option, even if it is one of the words.
ParsedAsMeant ==
    /\ reply.kind = "error" /\ reach > 0 => ~Acceptable
    /\ pc = "walking" =>
          /\ Acceptable
          /\ ctx.bounds = Meant.bounds
          /\ Cardinality(Targets) <= 1 => ctx.center = Meant.center /\ ctx.toMeters = Meant.toMeters
          /\ ctx.value = (LastOf(ValueWords) \subseteq {<<<<"word", "WITHVALUE">>>>})
          /\ ctx.dist = (LastOf({"WITHDIST"}) # {})
          /\ {ctx.sort} \ {"none"} = {phrase[1][2] : phrase \in FirstOf({"ASC", "DESC"})}
          /\ {ctx.count} \ {0} = {phrase[2][2] : phrase \in LastOf({"COUNT"})}
          /\ {ctx.limit} \ {0} = {phrase[2][2] : phrase \in LastOf({"LIMIT"})}

\* Nothing is freed twice, and of what a command with one target allocates nothing is left,
\* on no path to its reply.
MemoryBalanced == ~misuse /\ (pc = "done" /\ Cardinality(Targets) <= 1 => heap = {})

\* The reply has as many elements as it announced before it sent them.
ReplyFramed == reply.announced = Len(reply.elements)

\* Where the reply has fields, and which.
Listed == {n \in DOMAIN reply.elements : reply.elements[n][1] = "field"}

FieldAt(n) == reply.elements[n][2]

\* A reply lists fields that match, none twice, and as many as there are, up to COUNT and
\* LIMIT.
MatchesListed ==
    reply.kind = "result" =>
        LET bounds == {Cardinality(hits)} \union ({ctx.count, ctx.limit} \ {0})
        IN  /\ \A n \in Listed : FieldAt(n) \in hits
            /\ \A m \in Listed, n \in Listed : FieldAt(m) = FieldAt(n) => m = n
            /\ reply.count = Cardinality(Listed)
            /\ reply.count = CHOOSE n \in bounds : \A m \in bounds : n <= m

\* How far the order may be wrong: the comparator's tolerance for each pair of neighbours.
Slack == Epsilon * ctx.toMeters * Len(results)

Before(f, g) == IF Order = "ASC" THEN Distance(f) <= Distance(g) + Slack
                ELSE Distance(g) <= Distance(f) + Slack

\* With COUNT the nearest fields are listed, or the farthest with DESC: of everything that
\* matches, or with LIMIT of what was found before it stopped the search.  What is listed is
\* in that order.
NearestListed ==
    reply.kind = "result" /\ Order # "none" =>
        LET found == IF ctx.limit = 0 THEN hits ELSE ToSet(results)
        IN  /\ \A m \in Listed, n \in Listed : m < n => Before(FieldAt(m), FieldAt(n))
            /\ \A n \in Listed, f \in found : (\A m \in Listed : FieldAt(m) # f) => Before(FieldAt(n), f)

\* Every command gets its reply, whatever its arguments are.
Answered == pc # "idle" ~> pc = "done" /\ reply.kind # "none"

=============================================================================
