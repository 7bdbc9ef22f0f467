---------------------------- MODULE RequestBody -----------------------------
(* The bodies of the POST requests: create_table(), commit(), query() and    *)
(* retrieve_text() with the serializers they call.                           *)
(*                                                                           *)
(* A body is the JSON object the text stands for.  A member the code emits   *)
(* under a condition is a set: the empty set when it is left out, else the   *)
(* set of its one value.  Optional fields of the caller's structs are sets   *)
(* of at most one value as well.  A scalar is a pair of its JSON type and    *)
(* its value; raw JSON handed in by the caller is such a scalar already.     *)
(* Two things can spoil the text, and "text" says whether they did not: a    *)
(* number that has no JSON form, and a tuning block longer than the buffer   *)
(* snprintf writes it to.  The body says nothing of a spoiled text: such a   *)
(* text is cut off, and two of them may be the same for different bodies.    *)
EXTENDS Integers, Sequences

CONSTANTS
    Calls,          \* what callers ask for
    NonFinite,      \* the doubles that are NaN or an infinity
    GoldenSeed,     \* 0x9E3779B97F4A7C15, the default seed
    DigitsOf(_)     \* how many decimal digits a number prints as

VARIABLES
    call,    \* {} or the call whose request is on the wire
    sent     \* {} or [path, body, text] of it

vars == <<call, sent>>

Given(condition, value) == IF condition THEN {value} ELSE {}

Quoted(texts) == {<<"string", t>> : t \in texts}

Number(n) == <<"number", n>>
Null == <<"null", 0>>

-----------------------------------------------------------------------------
(* Values and cells *)

(* json_value.                                                               *)
JsonValue(v) ==
    CASE v.tag = "Null"   -> Null
      [] v.tag = "Bool"   -> <<"bool", v.val>>
      [] v.tag = "Int64"  -> Number(v.val)
      [] v.tag = "Double" -> IF v.val \in NonFinite THEN Null ELSE Number(v.val)
      [] v.tag = "String" -> <<"string", v.val>>
      [] v.tag = "Json"   -> v.val

JsonCells(cells) ==
    [i \in 1..Len(cells) |-> <<cells[i].column_id, JsonValue(cells[i].value)>>]

-----------------------------------------------------------------------------
(* create_table *)

(* A column whose dynamic default does not silence the static ones.          *)
MColumnBody(col) ==
    [id |-> col.id, name |-> col.name, ty |-> col.ty,
     primary_key |-> col.primary_key, nullable |-> col.nullable,
     enum_variants |-> Given(col.enum_variants # <<>>, col.enum_variants),
     default_expr |-> Quoted(col.default_expr),
     default_value |-> IF col.default_value_json # {} THEN col.default_value_json
                       ELSE Quoted(col.default_value),
     embedding_source |-> col.embedding_source_json]

ColumnBody(col) ==
    [id |-> col.id, name |-> col.name, ty |-> col.ty,
     primary_key |-> col.primary_key, nullable |-> col.nullable,
     enum_variants |-> Given(col.enum_variants # <<>>, col.enum_variants),
     default_expr |-> Quoted(col.default_expr),
     default_value |-> IF col.default_expr # {} THEN {}
                       ELSE IF col.default_value_json # {} THEN col.default_value_json
                       ELSE Quoted(col.default_value),
     embedding_source |-> col.embedding_source_json]

KindName == [Bitmap |-> "bitmap", Fm |-> "fm_index", Ann |-> "ann",
             LearnedRange |-> "learned_range", MinHash |-> "minhash", Sparse |-> "sparse"]

QuantizationName == [BinarySign |-> "binary_sign", Dense |-> "dense", Product |-> "product"]

AlgorithmName == [Diskann |-> "diskann", Ivf |-> "ivf"]

(* Zero stands for the engine's default, which the client spells out.        *)
OrElse(n, default) == IF n # 0 THEN n ELSE default

Diskann(ix) ==
    [r |-> OrElse(ix.diskann_r, 64), l |-> OrElse(ix.diskann_l, 128),
     beam_width |-> OrElse(ix.diskann_beam_width, 8),
     alpha |-> OrElse(ix.diskann_alpha, 120)]

Ivf(ix) == [nlist |-> OrElse(ix.ivf_nlist, 256), nprobe |-> OrElse(ix.ivf_nprobe, 8)]

Product(ix) ==
    [training_samples |-> OrElse(ix.pq_training_samples, 256000),
     seed |-> OrElse(ix.pq_seed, GoldenSeed),
     rerank_factor |-> OrElse(ix.pq_rerank_factor, 5)]

(* Does a block fit the buffer of its snprintf?  45, 27 and 57 characters    *)
(* are not digits, and the last byte of a buffer is the terminator.          *)
DiskannFits(ix) ==
    LET b == Diskann(ix)
    IN  45 + DigitsOf(b.r) + DigitsOf(b.l) + DigitsOf(b.beam_width) + DigitsOf(b.alpha) < 96

IvfFits(ix) == LET b == Ivf(ix) IN 27 + DigitsOf(b.nlist) + DigitsOf(b.nprobe) < 64

ProductDigits(ix) ==
    LET b == Product(ix)
    IN  DigitsOf(b.training_samples) + DigitsOf(b.seed) + DigitsOf(b.rerank_factor)

(* A buffer for the product block as short as the one of the ivf block.      *)
MProductFits(ix) == 57 + ProductDigits(ix) < 64

ProductFits(ix) == 57 + ProductDigits(ix) < 96

AnnOptions(ix) ==
    [m |-> ix.ann_m, ef_construction |-> ix.ann_ef_construction,
     ef_search |-> ix.ann_ef_search,
     quantization |-> QuantizationName[ix.ann_quantization],
     algorithm |-> {AlgorithmName[a] : a \in {ix.ann_algorithm} \ {"Hnsw"}},
     diskann |-> Given(ix.ann_algorithm = "Diskann", Diskann(ix)),
     ivf |-> Given(ix.ann_algorithm = "Ivf", Ivf(ix)),
     product |-> Given(ix.ann_quantization = "Product", Product(ix))]

IndexBody(ix) ==
    [name |-> ix.name, column_id |-> ix.column_id, kind |-> KindName[ix.kind],
     predicate |-> Quoted(ix.predicate),
     ann |-> Given(ix.kind = "Ann", AnnOptions(ix)),
     minhash |-> Given(ix.kind = "MinHash",
                       [permutations |-> ix.minhash_permutations, bands |-> ix.minhash_bands]),
     learned_range |-> Given(ix.kind = "LearnedRange", ix.learned_range_epsilon)]

IndexIsText(ix) ==
    ix.kind = "Ann" =>
        /\ ix.ann_algorithm = "Diskann" => DiskannFits(ix)
        /\ ix.ann_algorithm = "Ivf" => IvfFits(ix)
        /\ ix.ann_quantization = "Product" => ProductFits(ix)

CreateTableBody(c) ==
    [name |-> c.name,
     columns |-> [i \in 1..Len(c.columns) |-> ColumnBody(c.columns[i])],
     constraints |-> c.constraints_json,
     indexes |-> Given(c.indexes # <<>>, [i \in 1..Len(c.indexes) |-> IndexBody(c.indexes[i])])]

-----------------------------------------------------------------------------
(* commit: put, upsert, del and delete_by_pk come here with one operation    *)

(* An upsert that always sends its update cells.                             *)
MOpBody(op) ==
    CASE op.type = "Put" ->
            [put |-> [table |-> op.table, cells |-> JsonCells(op.cells)]]
      [] op.type = "Upsert" ->
            [upsert |-> [table |-> op.table, cells |-> JsonCells(op.cells),
                         update_cells |-> {JsonCells(op.cells)}]]
      [] op.type = "Delete" ->
            [delete |-> [table |-> op.table, row_id |-> op.row_id]]
      [] op.type = "DeleteByPk" ->
            [delete_by_pk |-> [table |-> op.table, pk |-> JsonValue(op.pk_value)]]

(* "returning" is FALSE in every put and upsert, and left out here.          *)
OpBody(op) ==
    CASE op.type = "Put" ->
            [put |-> [table |-> op.table, cells |-> JsonCells(op.cells)]]
      [] op.type = "Upsert" ->
            [upsert |-> [table |-> op.table, cells |-> JsonCells(op.cells),
                         update_cells |-> Given(op.update_cells # <<>>, JsonCells(op.update_cells))]]
      [] op.type = "Delete" ->
            [delete |-> [table |-> op.table, row_id |-> op.row_id]]
      [] op.type = "DeleteByPk" ->
            [delete_by_pk |-> [table |-> op.table, pk |-> JsonValue(op.pk_value)]]

CommitBody(c) ==
    [ops |-> [i \in 1..Len(c.ops) |-> OpBody(c.ops[i])],
     idempotency_key |-> Given(c.idempotency_key # "", c.idempotency_key)]

-----------------------------------------------------------------------------
(* query                                                                     *)

(* A primary key that is sent as an integer whenever there is one.           *)
MPkValue(c) ==
    IF c.int_value # 0 THEN Number(c.int_value) ELSE <<"string", c.str_value>>

PkValue(c) ==
    IF c.str_value # "" THEN <<"string", c.str_value>> ELSE Number(c.int_value)

ConditionBody(c) ==
    IF c.condition_json # {} THEN [json |-> c.condition_json] ELSE
    CASE c.kind = "Pk" -> [pk |-> PkValue(c)]
      [] c.kind = "BitmapEq" ->
            [bitmap_eq |-> [column_id |-> c.column_id, value |-> c.str_value]]
      [] c.kind = "Range" ->
            [range |-> [column_id |-> c.column_id, lo |-> Given(c.lo_set, c.lo),
                        hi |-> Given(c.hi_set, c.hi)]]
      [] c.kind = "FmContains" ->
            [fm_contains |-> [column_id |-> c.column_id, pattern |-> c.str_value]]
      [] c.kind = "IsNull" -> [is_null |-> [column_id |-> c.column_id]]
      [] c.kind = "IsNotNull" -> [is_not_null |-> [column_id |-> c.column_id]]

(* %.17g prints "nan" and "inf", which are no JSON.                          *)
ConditionIsText(c) ==
    c.kind = "Range" /\ c.condition_json = {} =>
        /\ c.lo_set => c.lo \notin NonFinite
        /\ c.hi_set => c.hi \notin NonFinite

QueryBody(c) ==
    [table |-> c.table,
     conditions |-> Given(c.conditions # <<>>,
                          [i \in 1..Len(c.conditions) |-> ConditionBody(c.conditions[i])]),
     projection |-> Given(c.projection # <<>>, c.projection),
     limit |-> Given(c.limit > 0, c.limit),
     offset |-> Given(c.offset # 0, c.offset)]

(* build_retrieve_text_body.                                                 *)
RetrieveTextBody(c) ==
    [table |-> c.table, embedding_column |-> c.embedding_column, text |-> c.text,
     k |-> Given(c.k > 0, c.k)]

-----------------------------------------------------------------------------
(* What the caller's structs can hold *)

IsVector(s) == s \in Seq({s[i] : i \in DOMAIN s})

(* Value: raw JSON is an array or an object.                                 *)
IsValue(v) ==
    /\ v.tag \in {"Null", "Bool", "Int64", "Double", "String", "Json"}
    /\ v.tag = "Json" => v.val[1] \in {"array", "object"}

IsCells(cells) == IsVector(cells) /\ \A i \in DOMAIN cells : IsValue(cells[i].value)

(* Index: a size_t or a uint64_t has 20 digits at most, a uint32_t ten, a    *)
(* uint16_t five, a uint8_t three.                                           *)
IsIndex(ix) ==
    /\ ix.kind \in DOMAIN KindName /\ ix.ann_quantization \in DOMAIN QuantizationName
    /\ ix.ann_algorithm \in {"Hnsw", "Diskann", "Ivf"}
    /\ \A n \in {ix.diskann_r, ix.diskann_l, ix.diskann_beam_width, ix.ivf_nlist,
                  ix.ivf_nprobe, ix.pq_training_samples, ix.pq_seed, ix.pq_rerank_factor} :
          DigitsOf(n) \in 1..20
    /\ DigitsOf(ix.diskann_alpha) \in 1..10
    /\ DigitsOf(ix.pq_num_subvectors) \in 1..5 /\ DigitsOf(ix.pq_bits) \in 1..3

IsOp(op) ==
    /\ op.type \in {"Put", "Upsert", "Delete", "DeleteByPk"}
    /\ IsCells(op.cells) /\ IsCells(op.update_cells) /\ IsValue(op.pk_value)

IsCondition(c) ==
    /\ c.kind \in {"Pk", "BitmapEq", "Range", "FmContains", "IsNull", "IsNotNull"}
    /\ c.lo_set \in BOOLEAN /\ c.hi_set \in BOOLEAN
    /\ c.lo_inclusive \in BOOLEAN /\ c.hi_inclusive \in BOOLEAN

IsCall(c) ==
    \/ /\ c.op = "create_table" /\ IsVector(c.columns) /\ IsVector(c.indexes)
       /\ \A i \in DOMAIN c.indexes : IsIndex(c.indexes[i])
    \/ /\ c.op = "commit" /\ IsVector(c.ops)
       /\ \A i \in DOMAIN c.ops : IsOp(c.ops[i])
    \/ /\ c.op = "query" /\ IsVector(c.conditions) /\ c.limit \in Int
       /\ \A i \in DOMAIN c.conditions : IsCondition(c.conditions[i])
    \/ c.op = "retrieve_text" /\ c.k \in Int

ASSUME CallAssumption == \A c \in Calls : IsCall(c)

(* Decimal notation of the defaults that OrElse puts in.                     *)
ASSUME DigitsAssumption ==
    /\ \A n \in {5, 8, 64, 120, 128, 256, 256000} : DigitsOf(n) \in 1..6
    /\ DigitsOf(GoldenSeed) \in 1..20

-----------------------------------------------------------------------------
(* The calls *)

Wire(c) ==
    CASE c.op = "create_table" ->
            [path |-> "/kit/create_table", body |-> CreateTableBody(c),
             text |-> \A i \in 1..Len(c.indexes) : IndexIsText(c.indexes[i])]
      [] c.op = "commit" ->
            [path |-> "/kit/txn", body |-> CommitBody(c), text |-> TRUE]
      [] c.op = "query" ->
            [path |-> "/kit/query", body |-> QueryBody(c),
             text |-> \A i \in 1..Len(c.conditions) : ConditionIsText(c.conditions[i])]
      [] c.op = "retrieve_text" ->
            [path |-> "/kit/retrieve_text", body |-> RetrieveTextBody(c), text |-> TRUE]

(* A call that asks for nothing returns, or throws, before anything is sent. *)
Refused(c) ==
    \/ c.op = "commit" /\ c.ops = <<>>
    \/ c.op = "retrieve_text" /\ (c.table = "" \/ c.text = "")

Init == call = {} /\ sent = {}

Send(c) ==
    /\ call = {}
    /\ ~Refused(c)
    /\ call' = {c}
    /\ sent' = {Wire(c)}

Refuse(c) ==
    /\ call = {}
    /\ Refused(c)
    /\ UNCHANGED vars

Answered ==
    /\ call # {}
    /\ call' = {} /\ sent' = {}

Next == (\E c \in Calls : Send(c) \/ Refuse(c)) \/ Answered

Spec == Init /\ [][Next]_vars

-----------------------------------------------------------------------------
(* What the caller's structs mean, by the comments on their fields in        *)
(* mongreldb.hpp: which fields count for a kind, and what an unset one says. *)
(* Every field of Index and Condition counts for some kind.  The fields in   *)
(* "lost" are not compared: the properties name what they leave out.         *)

(* JSON has one kind of number, and no NaN: an integer and a double of the   *)
(* same value are one request, and what has no JSON form is a null.          *)
IsNone(v) == v.tag = "Null" \/ (v.tag = "Double" /\ v.val \in NonFinite)
IsNumber(v) == v.tag = "Int64" \/ (v.tag = "Double" /\ v.val \notin NonFinite)

SameValue(v, w) ==
    \/ IsNone(v) /\ IsNone(w)
    \/ IsNumber(v) /\ IsNumber(w) /\ v.val = w.val
    \/ v.tag = w.tag /\ v.tag \in {"Bool", "String", "Json"} /\ v.val = w.val

SameSeq(s, t, Same(_, _)) == Len(s) = Len(t) /\ \A i \in 1..Len(s) : Same(s[i], t[i])

SameCells(s, t) ==
    SameSeq(s, t, LAMBDA a, b : a.column_id = b.column_id /\ SameValue(a.value, b.value))

(* "Takes precedence over both default-value fields", "over the legacy       *)
(* string-only default_value field", "always sends a JSON string".           *)
Default(col) ==
    IF col.default_expr # {} THEN [dynamic |-> col.default_expr]
    ELSE [static |-> IF col.default_value_json # {} THEN col.default_value_json
                     ELSE Quoted(col.default_value)]

SameColumn(x, y) ==
    /\ \A f \in {"id", "name", "ty", "primary_key", "nullable", "enum_variants",
                  "embedding_source_json"} : x[f] = y[f]
    /\ Default(x) = Default(y)

EngineDefault ==
    [diskann_r |-> 64, diskann_l |-> 128, diskann_beam_width |-> 8, diskann_alpha |-> 120,
     ivf_nlist |-> 256, ivf_nprobe |-> 8, pq_training_samples |-> 256000,
     pq_bits |-> 8, pq_seed |-> GoldenSeed, pq_rerank_factor |-> 5]

(* "Read when ann_algorithm == ...", "read when ann_quantization == ...".    *)
FieldsRead(ix) ==
    CASE ix.kind = "Ann" ->
            {"ann_m", "ann_ef_construction", "ann_ef_search", "ann_quantization", "ann_algorithm"}
            \cup (CASE ix.ann_algorithm = "Hnsw" -> {}
                    [] ix.ann_algorithm = "Diskann" ->
                        {"diskann_r", "diskann_l", "diskann_beam_width", "diskann_alpha"}
                    [] ix.ann_algorithm = "Ivf" -> {"ivf_nlist", "ivf_nprobe"})
            \cup (IF ix.ann_quantization # "Product" THEN {}
                  ELSE {"pq_num_subvectors", "pq_bits", "pq_training_samples", "pq_seed",
                        "pq_rerank_factor"})
      [] ix.kind = "MinHash" -> {"minhash_permutations", "minhash_bands"}
      [] ix.kind = "LearnedRange" -> {"learned_range_epsilon"}
      [] OTHER -> {}

Effective(ix, f) ==
    IF f \in DOMAIN EngineDefault /\ ix[f] = 0 THEN EngineDefault[f] ELSE ix[f]

SameIndex(x, y, lost) ==
    /\ \A f \in {"name", "column_id", "kind", "predicate"} : x[f] = y[f]
    /\ FieldsRead(x) = FieldsRead(y)
    /\ \A f \in FieldsRead(x) \ lost : Effective(x, f) = Effective(y, f)

SameOp(x, y) ==
    /\ x.type = y.type /\ x.table = y.table
    /\ x.type \in {"Put", "Upsert"} => SameCells(x.cells, y.cells)
    /\ x.type = "Upsert" => SameCells(x.update_cells, y.update_cells)
    /\ x.type = "Delete" => x.row_id = y.row_id
    /\ x.type = "DeleteByPk" => SameValue(x.pk_value, y.pk_value)

(* "PK value as an integer (used when str_value is empty)"; "unused fields   *)
(* are ignored for a given kind"; "is_*_set controls open-ended ranges".     *)
ConditionFields(c) ==
    CASE c.kind = "Pk" -> IF c.str_value = "" THEN {"int_value"} ELSE {"str_value"}
      [] c.kind = "Range" -> {"column_id", "lo_set", "hi_set"}
                             \cup (IF c.lo_set THEN {"lo", "lo_inclusive"} ELSE {})
                             \cup (IF c.hi_set THEN {"hi", "hi_inclusive"} ELSE {})
      [] c.kind \in {"BitmapEq", "FmContains"} -> {"column_id", "str_value"}
      [] c.kind \in {"IsNull", "IsNotNull"} -> {"column_id"}

SameCondition(x, y, lost) ==
    /\ x.condition_json = y.condition_json
    /\ x.condition_json = {} =>
          /\ x.kind = y.kind
          /\ ConditionFields(x) = ConditionFields(y)
          /\ \A f \in ConditionFields(x) \ lost : x[f] = y[f]

(* A limit or a k that is not positive means none.                           *)
SameCap(m, n) == m = n \/ (m <= 0 /\ n <= 0)

SameCall(x, y, lost) ==
    CASE x.op = "create_table" ->
            /\ x.name = y.name /\ x.constraints_json = y.constraints_json
            /\ SameSeq(x.columns, y.columns, SameColumn)
            /\ SameSeq(x.indexes, y.indexes, LAMBDA a, b : SameIndex(a, b, lost))
      [] x.op = "commit" ->
            x.idempotency_key = y.idempotency_key /\ SameSeq(x.ops, y.ops, SameOp)
      [] x.op = "query" ->
            /\ \A f \in {"table", "projection", "offset"} : x[f] = y[f]
            /\ SameCap(x.limit, y.limit)
            /\ SameSeq(x.conditions, y.conditions, LAMBDA a, b : SameCondition(a, b, lost))
      [] x.op = "retrieve_text" ->
            /\ \A f \in {"table", "embedding_column", "text"} : x[f] = y[f]
            /\ SameCap(x.k, y.k)

-----------------------------------------------------------------------------
(* Properties *)

(* Calls that ask for the same send the same body; and calls whose texts are *)
(* whole and the same ask for the same, but for the fields in "lost".  So    *)
(* what the kind of a request does not read never gets on the wire, and what *)
(* it reads does, unless it is lost or a spoiled text swallowed it.          *)
SentAsMeant(op, lost) ==
    \A c \in call, w \in sent : c.op = op =>
        \A other \in {d \in Calls : d.op = op} :
            /\ SameCall(c, other, {}) => Wire(other).body = w.body
            /\ w.text /\ Wire(other).text /\ Wire(other).body = w.body
                => SameCall(c, other, lost)

(* serialize_column_json, serialize_index_json: precedence of the defaults,  *)
(* tuning of the chosen algorithm and quantization only, zero as default.    *)
(* Two fields of a product quantization are lost (EveryFieldIsSent).         *)
CreateTableAsMeant == SentAsMeant("create_table", {"pq_num_subvectors", "pq_bits"})

(* commit: an upsert without update cells is another request than one with,  *)
(* a key is part of the request, NaN is sent as null.                        *)
CommitAsMeant == SentAsMeant("commit", {})

(* query and retrieve_text: what a condition of each kind sends.  Whether a  *)
(* bound is inclusive is lost (EveryFieldIsSent).                            *)
QueryAsMeant ==
    SentAsMeant("query", {"lo_inclusive", "hi_inclusive"}) /\ SentAsMeant("retrieve_text", {})

(* The text on the wire is no JSON only when the caller gave a range an      *)
(* infinite bound, or a tuning parameter of ten digits or more; the seed may *)
(* have all its digits, as its default has (the buffers of snprintf).        *)
Tuning(ix) == {ix[f] : f \in DOMAIN EngineDefault \ {"pq_bits", "pq_seed", "diskann_alpha"}}

SpoiledOnlyByExtremes ==
    \A c \in call, w \in sent : ~w.text =>
        CASE c.op = "create_table" ->
                \E i \in 1..Len(c.indexes) : \E n \in Tuning(c.indexes[i]) : DigitsOf(n) > 9
          [] c.op = "query" ->
                \E i \in 1..Len(c.conditions) :
                    {c.conditions[i].lo, c.conditions[i].hi} \cap NonFinite # {}
          [] OTHER -> FALSE

(* Violated.  The comment in mongreldb.hpp has pq_num_subvectors and pq_bits *)
(* "caller-specified and not defaulted here", and lo_inclusive and           *)
(* hi_inclusive stand under "Range bounds": two calls that differ in them    *)
(* only should not be one text.  serialize_index_json and query send neither.*)
EveryFieldIsSent == SentAsMeant("create_table", {}) /\ SentAsMeant("query", {})
=============================================================================
