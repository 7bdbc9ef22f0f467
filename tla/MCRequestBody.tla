--------------------------- MODULE MCRequestBody ----------------------------
(* Small calls for RequestBody: each varies one or two fields of a default-  *)
(* constructed struct, so that every field meets every kind.                 *)
EXTENDS RequestBody

(* Stand-ins: 9999999 for the largest size_t, 9999998 for a number of nine   *)
(* digits, 77 for the default seed, 99 for an infinity.                      *)
MCDigitsOf(n) ==
    CASE n \in {77, 9999999} -> 20
      [] n = 9999998 -> 9
      [] n < 10 -> 1
      [] n < 100 -> 2
      [] n < 1000 -> 3
      [] OTHER -> 6

MCNonFinite == {99}

Column ==
    [id |-> 1, name |-> "c", ty |-> "int64", primary_key |-> FALSE, nullable |-> FALSE,
     enum_variants |-> <<>>, default_value |-> {}, default_value_json |-> {},
     default_expr |-> {}, embedding_source_json |-> {}]

Columns ==
    {[Column EXCEPT !.default_value = v, !.default_value_json = j, !.default_expr = e,
                    !.enum_variants = n] :
        v \in {{}, {"now"}, {"text"}}, j \in {{}, {<<"string", "text">>}, {<<"null", 0>>}},
        e \in {{}, {"now"}}, n \in {<<>>, <<"a">>}}
    \cup {[Column EXCEPT !.id = 2], [Column EXCEPT !.nullable = TRUE],
          [Column EXCEPT !.primary_key = TRUE], [Column EXCEPT !.name = "d"],
          [Column EXCEPT !.embedding_source_json = {<<"object", "model">>}]}

Index ==
    [name |-> "ix", column_id |-> 1, kind |-> "Bitmap", predicate |-> {}, ann_m |-> 16,
     ann_ef_construction |-> 64, ann_ef_search |-> 64, ann_quantization |-> "BinarySign",
     ann_algorithm |-> "Hnsw", diskann_r |-> 0, diskann_l |-> 0, diskann_beam_width |-> 0,
     diskann_alpha |-> 0, ivf_nlist |-> 0, ivf_nprobe |-> 0, pq_num_subvectors |-> 0,
     pq_bits |-> 0, pq_training_samples |-> 0, pq_seed |-> 0, pq_rerank_factor |-> 0, minhash_permutations |-> 128,
     minhash_bands |-> 32, learned_range_epsilon |-> 16]

Anns ==
    {[Index EXCEPT !.kind = "Ann", !.ann_quantization = q, !.ann_algorithm = a] :
        q \in {"BinarySign", "Dense", "Product"}, a \in {"Hnsw", "Diskann", "Ivf"}}

Kinds == {[Index EXCEPT !.kind = k] : k \in {"Bitmap", "Fm", "LearnedRange", "MinHash", "Sparse"}}

Indexes ==
    Kinds \cup Anns
    \cup {[ix EXCEPT ![f] = 4] : ix \in Kinds \cup Anns,
              f \in DOMAIN EngineDefault \cup {"ann_m", "ann_ef_search", "minhash_bands",
                                               "pq_num_subvectors", "learned_range_epsilon"}}
    \cup {[ix EXCEPT ![f] = EngineDefault[f]] : ix \in Anns, f \in DOMAIN EngineDefault}
    \cup {[ix EXCEPT !.diskann_r = n, !.diskann_l = n, !.diskann_beam_width = n,
                     !.ivf_nlist = n, !.ivf_nprobe = n,
                     !.pq_training_samples = n, !.pq_rerank_factor = n] :
              ix \in Anns, n \in {9999998, 9999999}}

CreateTable(columns, indexes) ==
    [op |-> "create_table", name |-> "t", columns |-> columns,
     constraints_json |-> {}, indexes |-> indexes]

Value(tag, val) == [tag |-> tag, val |-> val]

Cells ==
    {<<>>} \cup
    {<<[column_id |-> 1, value |-> v]>> :
        v \in {Value("Null", 0), Value("Bool", TRUE), Value("Int64", 1), Value("Double", 1),
               Value("Double", 2), Value("Double", 99), Value("String", "1"),
               Value("Json", <<"array", "[1]">>)}}

Op == [type |-> "Put", table |-> "t", cells |-> <<>>, update_cells |-> <<>>, row_id |-> 0,
       pk_value |-> Value("Null", 0)]

Ops ==
    {[Op EXCEPT !.type = t, !.cells = c] : t \in {"Put", "Delete"}, c \in Cells}
    \cup {[Op EXCEPT !.type = "Upsert", !.cells = c, !.update_cells = u] :
              c \in {<<>>, <<[column_id |-> 1, value |-> Value("Int64", 1)]>>}, u \in Cells}
    \cup {[Op EXCEPT !.type = t, !.row_id = r, !.pk_value = p] :
              t \in {"Put", "Delete", "DeleteByPk"}, r \in {0, 1},
              p \in {Value("Null", 0), Value("Int64", 1), Value("String", "1")}}

Condition ==
    [kind |-> "Pk", column_id |-> 0, lo |-> 0, hi |-> 0, lo_set |-> FALSE, hi_set |-> FALSE,
     lo_inclusive |-> TRUE, hi_inclusive |-> TRUE, str_value |-> "", int_value |-> 0,
     condition_json |-> {}]

Conditions ==
    {[Condition EXCEPT !.kind = k, !.str_value = s, !.int_value = i, !.condition_json = j] :
        k \in {"Pk", "BitmapEq", "FmContains", "IsNull", "IsNotNull"},
        s \in {"", "1"}, i \in {0, 1}, j \in {{}, {"ann"}}}
    \cup {[Condition EXCEPT !.kind = "Range", !.lo = l, !.hi = h, !.lo_set = a, !.hi_set = b,
                         !.lo_inclusive = i] :
              l \in {0, 99}, h \in {0, 5}, a \in BOOLEAN, b \in BOOLEAN, i \in BOOLEAN}
    \cup {[Condition EXCEPT !.kind = k, !.hi_set = TRUE, !.hi_inclusive = FALSE] :
              k \in {"Range", "IsNull"}}

Query(conditions, projection, limit, offset) ==
    [op |-> "query", table |-> "t", conditions |-> conditions, projection |-> projection,
     limit |-> limit, offset |-> offset]

MCCalls ==
    {CreateTable(<<c>>, <<>>) : c \in Columns}
    \cup {CreateTable(<<Column>>, <<ix>>) : ix \in Indexes}
    \cup {CreateTable(<<>>, <<>>), CreateTable(<<Column, Column>>, <<Index, Index>>)}
    \cup {[op |-> "commit", ops |-> <<o>>, idempotency_key |-> k] : o \in Ops, k \in {"", "k"}}
    \cup {[op |-> "commit", ops |-> <<>>, idempotency_key |-> "k"]}
    \cup {Query(<<c>>, <<>>, 0, 0) : c \in Conditions}
    \cup {Query(<<>>, p, l, o) : p \in {<<>>, <<1>>}, l \in {-1, 0, 1}, o \in {-1, 0, 1}}
    \cup {[op |-> "retrieve_text", table |-> "t", embedding_column |-> 1, text |-> x, k |-> k] :
              x \in {"", "cat"}, k \in {-1, 0, 5}}
=============================================================================
