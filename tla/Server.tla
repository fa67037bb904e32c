------------------------------- MODULE Server -------------------------------
(***************************************************************************)
(* The keyspace of a master, with the write commands of src/tairgis.c, and *)
(* the three readers that rebuild it from the commands the module asks     *)
(* Redis to replicate: the AOF, an AOF rewrite in progress and a replica.  *)
(*                                                                         *)
(* A reader starts from a copy of the keyspace (base) and receives         *)
(* commands (pending), which it executes in their order: a replica when    *)
(* they arrive, the AOF when it is loaded, so that its base is what the    *)
(* part of the file that reached the disk would load to.  A value is the   *)
(* map that GisMap makes of it; Spatial shows that a key is no more.       *)
(***************************************************************************)
EXTENDS Integers, SequencesExt

CONSTANTS
    Keys,           \* key names
    Fields,         \* field names
    Geoms,          \* the geometries that decode
    Bad,            \* a text that does not decode
    CString(_),     \* a field up to its first NUL
    MaxPairs,       \* bound of the model: pairs of a GIS.ADD
    MaxCommands     \* bound of the model: write commands, over all restarts

ASSUME BadAssumption == Bad \notin Geoms

ASSUME CStringAssumption == \A f \in Fields : CString(f) \in Fields

ASSUME BoundsAssumption == MaxPairs \in Nat /\ MaxCommands \in Nat

VARIABLES
    db,             \* the keyspace of the master
    link,           \* whether the replica is connected
    rewriting,      \* whether an AOF rewrite is in progress
    base,           \* what each reader has rebuilt
    pending,        \* the commands it has still to execute
    suspect,        \* ghost: the fields it may have wrong
    commands        \* bound: how many commands were executed

vars == <<db, link, rewriting, base, pending, suspect, commands>>

Readers == {"aof", "rewrite", "replica"}

\* The readers that Redis feeds with replicated commands.
Fed == {"aof"} \union (IF link THEN {"replica"} ELSE {})
               \union (IF rewriting THEN {"rewrite"} ELSE {})

-----------------------------------------------------------------------------
(***************************************************************************)
(* Values.                                                                 *)
(***************************************************************************)
Maps == UNION {[fs -> Geoms] : fs \in SUBSET Fields}

NoFields == [f \in {} |-> f]

Value == [type : {"none", "string", "exgistype"}, map : Maps]

Absent == [type |-> "none", map |-> NoFields]

\* A value without fields, and no key at all, are the same to GIS.GET and searches.
NotEmpty(v) == IF v.map = NoFields /\ v.type = "exgistype" THEN Absent ELSE v

RedisString == [type |-> "string", map |-> NoFields]

Gis(map) == [type |-> "exgistype", map |-> map]

Keyspace == [Keys -> Value]

NoKeys == [k \in Keys |-> Absent]

\* The reply of GIS.GET: nothing, or one thing.
GisGet(v, f) ==
    IF v.type = "string" THEN {"wrongtype"} ELSE {v.map[g] : g \in {f} \intersect DOMAIN v.map}

-----------------------------------------------------------------------------
(***************************************************************************)
(* The write commands.                                                     *)
(***************************************************************************)
\* The pairs that are stored: those before the first one that does not decode.
\* Mutant: what does not decode is stored as it is.
DecodedAll(pairs) == DOMAIN pairs

Decoded(pairs) ==
    LET bad == {n \in DOMAIN pairs : pairs[n][2] = Bad}
    IN  {n \in DOMAIN pairs : \A m \in bad : n < m}

FieldsOf(pairs, positions) == {pairs[n][1] : n \in positions}

\* The map after those pairs, of which the last one for a field counts.
Stored(map, pairs) ==
    LET positions == Decoded(pairs)
        last(f) == CHOOSE n \in positions :
                      pairs[n][1] = f /\ \A m \in positions : pairs[m][1] = f => m <= n
    IN  [f \in DOMAIN map \union FieldsOf(pairs, positions) |->
            IF f \in FieldsOf(pairs, positions) THEN pairs[last(f)][2] ELSE map[f]]

GisAddTo(v, pairs) == IF v.type = "string" THEN v ELSE Gis(Stored(v.map, pairs))

GisDelFrom(v, f) ==
    IF f \notin DOMAIN v.map THEN v
    ELSE IF DOMAIN v.map = {f} THEN Absent
    ELSE Gis([x \in DOMAIN v.map \ {f} |-> v.map[x]])

\* The value of its key after a command: GIS.ADD and GIS.DEL of the module, SET and DEL
\* (an expiry, too) of Redis.
Result(v, cmd) ==
    IF cmd.op = "gis.add" THEN GisAddTo(v, cmd.pairs)
    ELSE IF cmd.op = "gis.del" THEN GisDelFrom(v, cmd.field)
    ELSE IF cmd.op = "set" THEN RedisString
    ELSE Absent

Executed(keyspace, cmd) == [keyspace EXCEPT ![cmd.key] = Result(@, cmd)]

AllDecoded(pairs) == Decoded(pairs) = DOMAIN pairs

FailedAdd(cmd) == cmd.op = "gis.add" /\ ~AllDecoded(cmd.pairs)

\* Whether the command is replicated (RedisModule_ReplicateVerbatim at the end of a
\* handler; Redis does it itself for its own commands).
\* Mutant: a deletion is not.
ReplicatedAddOnly(v, cmd) ==
    \/ cmd.op = "gis.add" /\ v.type # "string" /\ AllDecoded(cmd.pairs)
    \/ cmd.op = "set"
    \/ cmd.op = "del" /\ v.type # "none"

Replicated(v, cmd) ==
    \/ cmd.op = "gis.add" /\ v.type # "string" /\ AllDecoded(cmd.pairs)
    \/ cmd.op = "gis.del" /\ cmd.field \in DOMAIN v.map
    \/ cmd.op = "set"
    \/ cmd.op = "del" /\ v.type # "none"

\* The fields a command sets or removes.
Touched(v, cmd) ==
    {cmd.key} \X {f \in Fields :
        \/ cmd.op = "gis.add" /\ v.type # "string" /\ f \in FieldsOf(cmd.pairs, Decoded(cmd.pairs))
        \/ cmd.op = "gis.del" /\ f \in {cmd.field} \intersect DOMAIN v.map
        \/ cmd.op = "set"
        \/ cmd.op = "del" /\ v.type # "none"}

-----------------------------------------------------------------------------
Init ==
    /\ db = NoKeys
    /\ link = FALSE
    /\ rewriting = FALSE
    /\ base = [c \in Readers |-> NoKeys]
    /\ pending = [c \in Readers |-> <<>>]
    /\ suspect = [c \in Readers |-> {}]
    /\ commands = 0

\* The readers that a command goes to.
Receivers(v, cmd) == IF Replicated(v, cmd) THEN Fed ELSE {}

\* What follows a command that the master has executed.  A failed GIS.ADD makes the fields it
\* stored suspect; any other command that writes them makes them certain again.
Propagate(v, cmd) ==
    /\ pending' = [c \in Readers |->
                      IF c \in Receivers(v, cmd) THEN Append(pending[c], cmd) ELSE pending[c]]
    /\ suspect' = [c \in Readers |-> IF FailedAdd(cmd) THEN suspect[c] \union Touched(v, cmd)
                                     ELSE suspect[c] \ Touched(v, cmd)]

\* One command, which runs alone from its beginning to its end.
Execute(cmd) ==
    /\ commands < MaxCommands
    /\ commands' = commands + 1
    /\ db' = Executed(db, cmd)
    /\ Propagate(db[cmd.key], cmd)
    /\ UNCHANGED <<link, rewriting, base>>

GisAdd(k, pairs) == Execute([op |-> "gis.add", key |-> k, pairs |-> pairs])

GisDel(k, f) == Execute([op |-> "gis.del", key |-> k, field |-> f])

RedisSet(k) == Execute([op |-> "set", key |-> k])

RedisDel(k) == Execute([op |-> "del", key |-> k])

-----------------------------------------------------------------------------
\* The replica executes a command; a command reaches the disk.
Apply(c) ==
    /\ c \in Fed
    /\ pending[c] # <<>>
    /\ base' = [base EXCEPT ![c] = Executed(@, Head(pending[c]))]
    /\ pending' = [pending EXCEPT ![c] = Tail(@)]
    /\ UNCHANGED <<db, link, rewriting, suspect, commands>>

\* A reader starts over from a copy of the keyspace.
StartFrom(c, keyspace, wrong) ==
    /\ base' = [base EXCEPT ![c] = keyspace]
    /\ pending' = [pending EXCEPT ![c] = <<>>]
    /\ suspect' = [suspect EXCEPT ![c] = wrong]

\* A full synchronisation: RDB save on the master, RDB load on the replica.  An empty
\* value is a count of 0, and comes back as an empty value.
ReplicaSync ==
    /\ ~link
    /\ link' = TRUE
    /\ StartFrom("replica", db, {})
    /\ UNCHANGED <<db, rewriting, commands>>

\* The connection breaks, and with it what was on its way is lost.
ReplicaLost ==
    /\ link
    /\ link' = FALSE
    /\ pending' = [pending EXCEPT !["replica"] = <<>>]
    /\ UNCHANGED <<db, rewriting, base, suspect, commands>>

\* ExGisTypeAofRewrite: a GIS.ADD for each field, whose name passes as a C string, and so
\* nothing for a value without fields.  Of two fields that become one, one is kept.
\* Mutant: the iterator starts after some field instead of at the first.
RewrittenValueSkip(v) ==
    [NotEmpty(v) EXCEPT !.map = IF @ = NoFields THEN @
                                ELSE LET first == CHOOSE f \in DOMAIN @ : TRUE
                                     IN  [f \in DOMAIN @ \ {first} |-> @[f]]]

RewrittenValue(v) ==
    [NotEmpty(v) EXCEPT !.map = [c \in {CString(f) : f \in DOMAIN @} |->
                                     @[CHOOSE f \in DOMAIN @ : CString(f) = c]]]

Rewritten(keyspace) == [k \in Keys |-> RewrittenValue(keyspace[k])]

\* The fields whose names do not survive that, or that such a field may end up as.
Renamed == {f \in Fields : \E g \in Fields : CString(g) # g /\ f \in {g, CString(g)}}

\* A child process starts to write the file from its copy of the keyspace, as commands or,
\* with aof-use-rdb-preamble, as an RDB.
RewriteStart(preamble) ==
    /\ ~rewriting
    /\ rewriting' = TRUE
    /\ IF preamble THEN StartFrom("rewrite", db, {})
       ELSE StartFrom("rewrite", Rewritten(db), Keys \X Renamed)
    /\ UNCHANGED <<db, link, commands>>

\* The new file takes the place of the old one, with the commands since the start.
RewriteDone ==
    /\ rewriting
    /\ rewriting' = FALSE
    /\ base' = [base EXCEPT !["aof"] = base["rewrite"]]
    /\ pending' = [pending EXCEPT !["aof"] = pending["rewrite"]]
    /\ suspect' = [suspect EXCEPT !["aof"] = suspect["rewrite"]]
    /\ UNCHANGED <<db, link, commands>>

\* The master dies and comes back with what the file holds; a rewrite is given up and the
\* replica has to connect again.
Crash ==
    /\ db' = base["aof"]
    /\ link' = FALSE
    /\ rewriting' = FALSE
    /\ pending' = [c \in Readers |-> <<>>]
    /\ suspect' = [suspect EXCEPT !["aof"] = {}]
    /\ UNCHANGED <<base, commands>>

Arguments == UNION {[1 .. n -> Fields \X (Geoms \union {Bad})] : n \in 1 .. MaxPairs}

Next ==
    \/ \E k \in Keys, pairs \in Arguments : GisAdd(k, pairs)
    \/ \E k \in Keys, f \in Fields : GisDel(k, f)
    \/ \E k \in Keys : RedisSet(k) \/ RedisDel(k)
    \/ \E c \in Readers : Apply(c)
    \/ ReplicaSync
    \/ ReplicaLost
    \/ \E preamble \in BOOLEAN : RewriteStart(preamble)
    \/ RewriteDone
    \/ Crash

Spec == Init /\ [][Next]_vars

-----------------------------------------------------------------------------
(***************************************************************************)
(* Properties.                                                             *)
(***************************************************************************)
Commands ==
    [op : {"gis.add"}, key : Keys, pairs : Seq(Fields \X (Geoms \union {Bad}))]
        \union [op : {"gis.del"}, key : Keys, field : Fields]
        \union [op : {"set", "del"}, key : Keys]

TypeOK ==
    /\ db \in Keyspace
    /\ link \in BOOLEAN
    /\ rewriting \in BOOLEAN
    /\ base \in [Readers -> Keyspace]
    /\ pending \in [Readers -> Seq(Commands)]
    /\ suspect \in [Readers -> SUBSET (Keys \X Fields)]
    /\ commands \in 0 .. MaxCommands

\* What a reader has rebuilt once it has executed everything that is pending.
CaughtUp(c) == FoldLeft(Executed, base[c], pending[c])

\* A GIS.GET of any field gives the same reply on the master, on a replica that has executed
\* what is pending and after a restart from the AOF, rewritten or not: the only exceptions are fields
\* that a failed GIS.ADD stored and that were not written since (tairgis.c:228 returns
\* before it replicates), and, after a rewrite, fields with a NUL in their names.
FieldsAgree ==
    \A c \in Fed, k \in Keys, f \in Fields :
        <<k, f>> \notin suspect[c] => GisGet(CaughtUp(c)[k], f) = GisGet(db[k], f)

\* A key without such fields is the same as a whole on both sides, with the same type, where
\* an empty value counts as no key.  Empty values are what a GIS.ADD leaves when its first
\* pair does not decode; they pass to a replica that synchronises, and stay there when the
\* master, after another failed GIS.ADD, deletes the key with its last field.
KeysAgree ==
    \A c \in Fed, k \in Keys :
        \/ \E f \in Fields : <<k, f>> \in suspect[c]
        \/ NotEmpty(CaughtUp(c)[k]) = NotEmpty(db[k])

\* tests/tairgis.tcl:461-462 reads a field on a replica that has acknowledged everything,
\* and expects what was stored on the master.
ReplicaAgrees ==
    link /\ pending["replica"] = <<>> =>
        \A k \in Keys, f \in Fields : GisGet(base["replica"][k], f) = GisGet(db[k], f)

=============================================================================
