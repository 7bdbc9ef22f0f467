------------------------- MODULE RequestBody_proofs -------------------------
(* Proofs about RequestBody, for any calls: calls that ask for the same send *)
(* the same body, calls that send the same body ask for the same but for the *)
(* lost fields, and only extreme values spoil the text.                      *)
EXTENDS RequestBody, SequenceTheorems, TLAPS

-----------------------------------------------------------------------------
(* Members under a condition, and lists                                      *)

LEMMA QuotedInjective == \A S, T : Quoted(S) = Quoted(T) <=> S = T
  <1> SUFFICES ASSUME NEW S, NEW T, Quoted(S) = Quoted(T) PROVE S = T  OBVIOUS
  <1>1. \A t : t \in S <=> <<"string", t>> \in Quoted(S)
    <2>1. \A t, u : <<"string", t>> = <<"string", u>> => t = u  OBVIOUS
    <2> QED  BY <2>1 DEF Quoted
  <1>2. \A t : t \in T <=> <<"string", t>> \in Quoted(T)
    <2>1. \A t, u : <<"string", t>> = <<"string", u>> => t = u  OBVIOUS
    <2> QED  BY <2>1 DEF Quoted
  <1> QED  BY <1>1, <1>2

LEMMA VectorLength ==
    ASSUME NEW s, IsVector(s)
    PROVE  Len(s) \in Nat /\ DOMAIN s = 1..Len(s) /\ (s = <<>> <=> Len(s) = 0)
  BY EmptySeq, LenProperties DEF IsVector

-----------------------------------------------------------------------------
(* Values *)

LEMMA ValueSentAsMeant ==
    ASSUME NEW v, NEW w, IsValue(v), IsValue(w)
    PROVE  JsonValue(v) = JsonValue(w) <=> SameValue(v, w)
  BY DEF JsonValue, SameValue, IsValue, IsNone, IsNumber, Null, Number

-----------------------------------------------------------------------------
(* create_table *)

LEMMA ColumnSentAsMeant ==
    ASSUME NEW x, NEW y
    PROVE  ColumnBody(x) = ColumnBody(y) <=> SameColumn(x, y)
  <1> DEFINE Expr(c) == Quoted(c.default_expr)
             Value(c) == IF c.default_expr # {} THEN {}
                         ELSE IF c.default_value_json # {} THEN c.default_value_json
                         ELSE Quoted(c.default_value)
             Enum(c) == Given(c.enum_variants # <<>>, c.enum_variants)
  <1>1. ColumnBody(x) = ColumnBody(y) <=>
           /\ x.id = y.id /\ x.name = y.name /\ x.ty = y.ty
           /\ x.primary_key = y.primary_key /\ x.nullable = y.nullable
           /\ Enum(x) = Enum(y) /\ Expr(x) = Expr(y) /\ Value(x) = Value(y)
           /\ x.embedding_source_json = y.embedding_source_json
    <2> HIDE DEF Enum, Expr, Value
    <2>1. \A c : ColumnBody(c) =
                   [id |-> c.id, name |-> c.name, ty |-> c.ty,
                    primary_key |-> c.primary_key, nullable |-> c.nullable,
                    enum_variants |-> Enum(c), default_expr |-> Expr(c),
                    default_value |-> Value(c), embedding_source |-> c.embedding_source_json]
      BY DEF ColumnBody, Enum, Expr, Value
    <2> QED  BY ONLY <2>1
  <1>2. Enum(x) = Enum(y) <=> x.enum_variants = y.enum_variants
    <2>1. ASSUME NEW s, NEW t, NEW e, (IF s # e THEN {s} ELSE {}) = (IF t # e THEN {t} ELSE {})
          PROVE  s = t
      <3>1. CASE s = e  BY ONLY <2>1, <3>1
      <3>2. CASE s # e  BY ONLY <2>1, <3>2
      <3> QED  BY <3>1, <3>2
    <2>2. Enum(x) = Enum(y) => x.enum_variants = y.enum_variants  BY ONLY <2>1 DEF Given
    <2>3. x.enum_variants = y.enum_variants => Enum(x) = Enum(y)  OBVIOUS
    <2> QED  BY <2>2, <2>3
  <1>3. Expr(x) = Expr(y) <=> x.default_expr = y.default_expr  BY QuotedInjective
  <1>4. x.default_expr = y.default_expr =>
           (Value(x) = Value(y) <=> Default(x) = Default(y))
    <2>1. CASE x.default_expr # {}  BY <2>1 DEF Default
    <2>2. CASE x.default_expr = {}  BY <2>2 DEF Default
    <2> QED  BY <2>1, <2>2
  <1>5. Default(x) = Default(y) => x.default_expr = y.default_expr
    <2>1. ASSUME NEW s, NEW t PROVE [dynamic |-> s] # [static |-> t]
      <3>1. DOMAIN [dynamic |-> s] = {"dynamic"} /\ DOMAIN [static |-> t] = {"static"}  OBVIOUS
      <3>2. "dynamic" # "static"  OBVIOUS
      <3> QED  BY <3>1, <3>2
    <2>2. ASSUME NEW s, NEW t, [dynamic |-> s] = [dynamic |-> t] PROVE s = t
      <3>1. [dynamic |-> s].dynamic = [dynamic |-> t].dynamic  BY <2>2
      <3> QED  BY <3>1
    <2>3. \A c : c.default_expr # {} => Default(c) = [dynamic |-> c.default_expr]  BY DEF Default
    <2>4. \A c : c.default_expr = {} => \E t : Default(c) = [static |-> t]  BY DEF Default
    <2> QED  BY ONLY <2>1, <2>2, <2>3, <2>4
  <1>6. SameColumn(x, y) <=>
           /\ x.id = y.id /\ x.name = y.name /\ x.ty = y.ty
           /\ x.primary_key = y.primary_key /\ x.nullable = y.nullable
           /\ x.enum_variants = y.enum_variants
           /\ x.embedding_source_json = y.embedding_source_json
           /\ Default(x) = Default(y)
    BY DEF SameColumn
  <1> HIDE DEF Enum, Expr, Value
  <1> QED  BY ONLY <1>1, <1>2, <1>3, <1>4, <1>5, <1>6

LEMMA BlocksSentAsMeant ==
    ASSUME NEW x, NEW y
    PROVE  /\ Diskann(x) = Diskann(y) <=>
                \A f \in {"diskann_r", "diskann_l", "diskann_beam_width", "diskann_alpha"} :
                   Effective(x, f) = Effective(y, f)
           /\ Ivf(x) = Ivf(y) <=>
                \A f \in {"ivf_nlist", "ivf_nprobe"} : Effective(x, f) = Effective(y, f)
           /\ Product(x) = Product(y) <=>
                \A f \in {"pq_training_samples", "pq_seed", "pq_rerank_factor"} :
                   Effective(x, f) = Effective(y, f)
  BY DEF Diskann, Ivf, Product, OrElse, Effective, EngineDefault

(* The fields serialize_index_json and serialize_condition leave behind.     *)
LostFields == {"pq_num_subvectors", "pq_bits"}
LostFlags == {"lo_inclusive", "hi_inclusive"}

LEMMA AnnSentAsMeant ==
    ASSUME NEW x, NEW y, IsIndex(x), IsIndex(y), x.kind = "Ann", y.kind = "Ann"
    PROVE  AnnOptions(x) = AnnOptions(y) <=>
             /\ FieldsRead(x) = FieldsRead(y)
             /\ \A f \in FieldsRead(x) \ LostFields : Effective(x, f) = Effective(y, f)
  <1> DEFINE A == {"ann_m", "ann_ef_construction", "ann_ef_search", "ann_quantization",
                   "ann_algorithm"}
             D == {"diskann_r", "diskann_l", "diskann_beam_width", "diskann_alpha"}
             I == {"ivf_nlist", "ivf_nprobe"}
             P == {"pq_training_samples", "pq_seed", "pq_rerank_factor"}
             Same(F) == \A f \in F : Effective(x, f) = Effective(y, f)
  <1>1. Same(A) <=> \A f \in A : x[f] = y[f]  BY DEF Effective, EngineDefault
  <1>2. /\ QuantizationName[x.ann_quantization] = QuantizationName[y.ann_quantization]
             <=> x.ann_quantization = y.ann_quantization
        /\ {AlgorithmName[a] : a \in {x.ann_algorithm} \ {"Hnsw"}}
             = {AlgorithmName[a] : a \in {y.ann_algorithm} \ {"Hnsw"}}
             <=> x.ann_algorithm = y.ann_algorithm
    <2>1. QuantizationName[x.ann_quantization] = QuantizationName[y.ann_quantization]
            <=> x.ann_quantization = y.ann_quantization
      BY DEF IsIndex, QuantizationName
    <2>2. \A z \in {"Hnsw", "Diskann", "Ivf"} :
             {AlgorithmName[a] : a \in {z} \ {"Hnsw"}} =
                IF z = "Hnsw" THEN {} ELSE {AlgorithmName[z]}
      OBVIOUS
    <2>3. AlgorithmName["Diskann"] # AlgorithmName["Ivf"]  BY DEF AlgorithmName
    <2> QED  BY <2>1, <2>2, <2>3 DEF IsIndex
  <1>3. AnnOptions(x) = AnnOptions(y) <=>
           /\ \A f \in A : x[f] = y[f]
           /\ x.ann_algorithm = "Diskann" => Diskann(x) = Diskann(y)
           /\ x.ann_algorithm = "Ivf" => Ivf(x) = Ivf(y)
           /\ x.ann_quantization = "Product" => Product(x) = Product(y)
    BY <1>2 DEF AnnOptions, Given
  <1>4. /\ Diskann(x) = Diskann(y) <=> Same(D)
        /\ Ivf(x) = Ivf(y) <=> Same(I)
        /\ Product(x) = Product(y) <=> Same(P)
    BY BlocksSentAsMeant
  <1>5. ASSUME NEW z \in {x, y}
        PROVE  /\ FieldsRead(z) \ LostFields =
                     A \cup (IF z.ann_algorithm = "Diskann" THEN D ELSE {})
                       \cup (IF z.ann_algorithm = "Ivf" THEN I ELSE {})
                       \cup (IF z.ann_quantization = "Product" THEN P ELSE {})
               /\ FieldsRead(z) =
                     A \cup (IF z.ann_algorithm = "Diskann" THEN D ELSE {})
                       \cup (IF z.ann_algorithm = "Ivf" THEN I ELSE {})
                       \cup (IF z.ann_quantization = "Product" THEN P \cup LostFields ELSE {})
    <2> DEFINE d == IF z.ann_algorithm = "Diskann" THEN D ELSE {}
               i == IF z.ann_algorithm = "Ivf" THEN I ELSE {}
               p == IF z.ann_quantization = "Product" THEN P \cup LostFields ELSE {}
    <2>1. z.kind = "Ann" /\ IsIndex(z)  OBVIOUS
    <2>2. FieldsRead(z) = ((A \cup d) \cup i) \cup p
      BY <2>1 DEF FieldsRead, IsIndex, LostFields
    <2>3. (A \cap LostFields) \cup (D \cap LostFields) \cup (I \cap LostFields)
             \cup (P \cap LostFields) = {}
      BY DEF LostFields
    <2> HIDE DEF A, D, I, P
    <2> QED  BY <2>2, <2>3
  <1> HIDE DEF A, D, I, P, Same
  <1>6. "ann_quantization" \in A /\ "ann_algorithm" \in A  BY DEF A
  <1>7. \A F, G : Same(F \cup G) <=> Same(F) /\ Same(G)  BY DEF Same
  <1>8. Same({})  BY DEF Same
  <1>9. Same(FieldsRead(x) \ LostFields) <=>
          /\ Same(A)
          /\ x.ann_algorithm = "Diskann" => Same(D)
          /\ x.ann_algorithm = "Ivf" => Same(I)
          /\ x.ann_quantization = "Product" => Same(P)
    <2> DEFINE d == IF x.ann_algorithm = "Diskann" THEN D ELSE {}
               i == IF x.ann_algorithm = "Ivf" THEN I ELSE {}
               p == IF x.ann_quantization = "Product" THEN P ELSE {}
    <2>1. FieldsRead(x) \ LostFields = ((A \cup d) \cup i) \cup p  BY <1>5
    <2>2. /\ Same(d) <=> (x.ann_algorithm = "Diskann" => Same(D))
          /\ Same(i) <=> (x.ann_algorithm = "Ivf" => Same(I))
          /\ Same(p) <=> (x.ann_quantization = "Product" => Same(P))
      BY <1>8
    <2> HIDE DEF d, i, p
    <2>3. Same(((A \cup d) \cup i) \cup p) <=> Same(A) /\ Same(d) /\ Same(i) /\ Same(p)
      BY <1>7
    <2> QED  BY <2>1, <2>2, <2>3
  <1>10. Same(A) => FieldsRead(x) = FieldsRead(y)
    <2>1. Same(A) => x.ann_quantization = y.ann_quantization /\ x.ann_algorithm = y.ann_algorithm
      BY <1>1, <1>6
    <2> QED  BY <1>5, <2>1
  <1>11. Same(FieldsRead(x) \ LostFields) <=>
            \A f \in FieldsRead(x) \ LostFields : Effective(x, f) = Effective(y, f)
    BY DEF Same
  <1> QED  BY <1>1, <1>3, <1>4, <1>9, <1>10, <1>11

LEMMA IndexSentAsMeant ==
    ASSUME NEW x, NEW y, IsIndex(x), IsIndex(y)
    PROVE  IndexBody(x) = IndexBody(y) <=> SameIndex(x, y, LostFields)
  <1>1. KindName[x.kind] = KindName[y.kind] <=> x.kind = y.kind
    BY DEF IsIndex, KindName
  <1>2. IndexBody(x) = IndexBody(y) <=>
          /\ x.name = y.name /\ x.column_id = y.column_id /\ x.kind = y.kind
          /\ x.predicate = y.predicate
          /\ x.kind = "Ann" => AnnOptions(x) = AnnOptions(y)
          /\ x.kind = "MinHash" => /\ x.minhash_permutations = y.minhash_permutations
                                   /\ x.minhash_bands = y.minhash_bands
          /\ x.kind = "LearnedRange" => x.learned_range_epsilon = y.learned_range_epsilon
    <2>1. IndexBody(x) = IndexBody(y) <=>
            \A f \in {"name", "column_id", "kind", "predicate", "ann", "minhash",
                     "learned_range"} : IndexBody(x)[f] = IndexBody(y)[f]
      BY DEF IndexBody
    <2>2. x.kind = y.kind =>
            /\ IndexBody(x).ann = IndexBody(y).ann <=>
                  (x.kind = "Ann" => AnnOptions(x) = AnnOptions(y))
            /\ IndexBody(x).minhash = IndexBody(y).minhash <=>
                  (x.kind = "MinHash" => /\ x.minhash_permutations = y.minhash_permutations
                                         /\ x.minhash_bands = y.minhash_bands)
            /\ IndexBody(x).learned_range = IndexBody(y).learned_range <=>
                  (x.kind = "LearnedRange" => x.learned_range_epsilon = y.learned_range_epsilon)
      <3> DEFINE minhash(ix) == [permutations |-> ix.minhash_permutations,
                                 bands |-> ix.minhash_bands]
      <3>1. \A ix : /\ IndexBody(ix).ann = Given(ix.kind = "Ann", AnnOptions(ix))
                    /\ IndexBody(ix).minhash = Given(ix.kind = "MinHash", minhash(ix))
                    /\ IndexBody(ix).learned_range =
                          Given(ix.kind = "LearnedRange", ix.learned_range_epsilon)
        BY DEF IndexBody
      <3>2. minhash(x) = minhash(y) <=> /\ x.minhash_permutations = y.minhash_permutations
                                        /\ x.minhash_bands = y.minhash_bands
        OBVIOUS
      <3> HIDE DEF minhash
      <3> QED  BY <3>1, <3>2 DEF Given
    <2>3. /\ IndexBody(x).name = IndexBody(y).name <=> x.name = y.name
          /\ IndexBody(x).column_id = IndexBody(y).column_id <=> x.column_id = y.column_id
          /\ IndexBody(x).kind = IndexBody(y).kind <=> x.kind = y.kind
          /\ IndexBody(x).predicate = IndexBody(y).predicate <=> x.predicate = y.predicate
      BY <1>1, QuotedInjective DEF IndexBody
    <2> QED  BY <2>1, <2>2, <2>3
  <1>3. CASE x.kind = "Ann"  BY <1>2, <1>3, AnnSentAsMeant DEF SameIndex
  <1>4. CASE x.kind # "Ann"
    <2>1. CASE x.kind = "MinHash"
      BY <1>2, <2>1 DEF SameIndex, FieldsRead, Effective, EngineDefault, LostFields
    <2>2. CASE x.kind = "LearnedRange"
      BY <1>2, <2>2 DEF SameIndex, FieldsRead, Effective, EngineDefault, LostFields
    <2>3. CASE x.kind \notin {"MinHash", "LearnedRange"}
      <3>1. SameIndex(x, y, LostFields) => x.kind = y.kind  BY DEF SameIndex
      <3>2. ASSUME x.kind = y.kind PROVE FieldsRead(x) = {} /\ FieldsRead(y) = {}
        BY <1>4, <2>3, <3>2 DEF FieldsRead
      <3>3. SameIndex(x, y, LostFields) <=>
               \A f \in {"name", "column_id", "kind", "predicate"} : x[f] = y[f]
        <4>1. SameIndex(x, y, LostFields) =>
                 \A f \in {"name", "column_id", "kind", "predicate"} : x[f] = y[f]
          BY DEF SameIndex
        <4>2. ASSUME \A f \in {"name", "column_id", "kind", "predicate"} : x[f] = y[f]
              PROVE  SameIndex(x, y, LostFields)
          <5>1. x.kind = y.kind  BY ONLY <4>2
          <5>2. FieldsRead(x) = {} /\ FieldsRead(y) = {}  BY ONLY <3>2, <5>1
          <5> QED  BY ONLY <4>2, <5>2 DEF SameIndex
        <4> QED  BY <4>1, <4>2
      <3> QED  BY <1>2, <1>4, <2>3, <3>3
    <2> QED  BY <2>1, <2>2, <2>3
  <1> QED  BY <1>3, <1>4

-----------------------------------------------------------------------------
(* commit *)

LEMMA CellsSentAsMeant ==
    ASSUME NEW s, NEW t, IsCells(s), IsCells(t)
    PROVE  /\ JsonCells(s) = JsonCells(t) <=> SameCells(s, t)
           /\ Given(s # <<>>, JsonCells(s)) = Given(t # <<>>, JsonCells(t)) <=> SameCells(s, t)
  <1>1. /\ Len(s) \in Nat /\ DOMAIN s = 1..Len(s) /\ (s = <<>> <=> Len(s) = 0)
        /\ Len(t) \in Nat /\ DOMAIN t = 1..Len(t) /\ (t = <<>> <=> Len(t) = 0)
    <2>1. IsVector(s) /\ IsVector(t)  BY DEF IsCells
    <2> QED  BY ONLY <2>1, VectorLength
  <1>2. JsonCells(s) = JsonCells(t) <=>
           Len(s) = Len(t) /\ \A i \in 1..Len(s) : JsonCells(s)[i] = JsonCells(t)[i]
    <2>1. JsonCells(s) = JsonCells(t) => Len(s) = Len(t)
      <3>1. DOMAIN JsonCells(s) = 1..Len(s) /\ DOMAIN JsonCells(t) = 1..Len(t)
        BY DEF JsonCells
      <3>2. \A m, n \in Nat : 1..m = 1..n => m = n  OBVIOUS
      <3> QED  BY <1>1, <3>1, <3>2
    <2>2. ASSUME Len(s) = Len(t), \A i \in 1..Len(s) : JsonCells(s)[i] = JsonCells(t)[i]
          PROVE  JsonCells(s) = JsonCells(t)
      BY <2>2 DEF JsonCells
    <2> DEFINE a == JsonCells(s)
               b == JsonCells(t)
    <2>3. a = b => Len(s) = Len(t) /\ \A i \in 1..Len(s) : a[i] = b[i]  BY <2>1
    <2>4. (Len(s) = Len(t) /\ \A i \in 1..Len(s) : a[i] = b[i]) => a = b  BY <2>2
    <2> HIDE DEF a, b
    <2>5. a = b <=> Len(s) = Len(t) /\ \A i \in 1..Len(s) : a[i] = b[i]  BY ONLY <2>3, <2>4
    <2> QED  BY ONLY <2>5, Zenon DEF a, b
  <1>3. ASSUME NEW i \in 1..Len(s), Len(s) = Len(t)
        PROVE  JsonCells(s)[i] = JsonCells(t)[i] <=>
                  s[i].column_id = t[i].column_id /\ SameValue(s[i].value, t[i].value)
    <2>1. IsValue(s[i].value) /\ IsValue(t[i].value)  BY <1>1, <1>3 DEF IsCells
    <2>2. JsonCells(s)[i] = <<s[i].column_id, JsonValue(s[i].value)>>  BY DEF JsonCells
    <2>3. JsonCells(t)[i] = <<t[i].column_id, JsonValue(t[i].value)>>  BY <1>3 DEF JsonCells
    <2> QED  BY <2>1, <2>2, <2>3, ValueSentAsMeant
  <1>4. JsonCells(s) = JsonCells(t) <=> SameCells(s, t)
    BY <1>2, <1>3 DEF SameCells, SameSeq
  <1>5. SameCells(s, t) => Len(s) = Len(t)  BY DEF SameCells, SameSeq
  <1>6. Len(s) = 0 /\ Len(t) = 0 => SameCells(s, t)  BY <1>1 DEF SameCells, SameSeq
  <1> QED  BY <1>1, <1>4, <1>5, <1>6 DEF Given

LEMMA OpSentAsMeant ==
    ASSUME NEW x, NEW y, IsOp(x), IsOp(y)
    PROVE  OpBody(x) = OpBody(y) <=> SameOp(x, y)
  <1>1. /\ JsonCells(x.cells) = JsonCells(y.cells) <=> SameCells(x.cells, y.cells)
        /\ Given(x.update_cells # <<>>, JsonCells(x.update_cells))
             = Given(y.update_cells # <<>>, JsonCells(y.update_cells))
             <=> SameCells(x.update_cells, y.update_cells)
        /\ JsonValue(x.pk_value) = JsonValue(y.pk_value) <=> SameValue(x.pk_value, y.pk_value)
    BY CellsSentAsMeant, ValueSentAsMeant DEF IsOp
  <1> QED  BY <1>1 DEF OpBody, SameOp, IsOp

-----------------------------------------------------------------------------
(* query *)

LEMMA ConditionSentAsMeant ==
    ASSUME NEW x, NEW y, IsCondition(x), IsCondition(y)
    PROVE  ConditionBody(x) = ConditionBody(y) <=> SameCondition(x, y, LostFlags)
  BY DEF ConditionBody, SameCondition, ConditionFields, IsCondition, PkValue, Number, Given,
         LostFlags

-----------------------------------------------------------------------------
(* The calls *)

LEMMA CreateTableSent ==
    ASSUME NEW x, NEW y, IsCall(x), IsCall(y), x.op = "create_table", y.op = "create_table"
    PROVE  CreateTableBody(x) = CreateTableBody(y) <=> SameCall(x, y, LostFields)
  <1> DEFINE columns(c) == [i \in 1..Len(c.columns) |-> ColumnBody(c.columns[i])]
             indexes(c) == [i \in 1..Len(c.indexes) |-> IndexBody(c.indexes[i])]
             Alike == /\ Len(x.indexes) = Len(y.indexes)
                      /\ \A i \in 1..Len(x.indexes) :
                            SameIndex(x.indexes[i], y.indexes[i], LostFields)
  <1>1. ASSUME NEW c \in {x, y}
        PROVE  /\ IsVector(c.columns) /\ IsVector(c.indexes)
               /\ Len(c.columns) \in Nat /\ Len(c.indexes) \in Nat
               /\ c.indexes = <<>> <=> Len(c.indexes) = 0
               /\ \A i \in 1..Len(c.indexes) : IsIndex(c.indexes[i])
    <2>1. /\ IsVector(c.columns) /\ IsVector(c.indexes)
          /\ \A i \in DOMAIN c.indexes : IsIndex(c.indexes[i])
      BY DEF IsCall
    <2> QED  BY <2>1, VectorLength
  <1>2. columns(x) = columns(y) <=> SameSeq(x.columns, y.columns, SameColumn)
    <2>1. columns(x) = columns(y) => Len(x.columns) = Len(y.columns)
      <3>1. DOMAIN columns(x) = 1..Len(x.columns) /\ DOMAIN columns(y) = 1..Len(y.columns)
        OBVIOUS
      <3>2. \A m, n \in Nat : 1..m = 1..n => m = n  OBVIOUS
      <3> HIDE DEF columns
      <3> QED  BY <1>1, <3>1, <3>2
    <2>2. Len(x.columns) = Len(y.columns) =>
            (columns(x) = columns(y) <=> \A i \in 1..Len(x.columns) :
                                            columns(x)[i] = columns(y)[i])
      OBVIOUS
    <2>3. Len(x.columns) = Len(y.columns) => \A i \in 1..Len(x.columns) :
            columns(x)[i] = columns(y)[i] <=> SameColumn(x.columns[i], y.columns[i])
      BY ColumnSentAsMeant
    <2> HIDE DEF columns
    <2> QED  BY <2>1, <2>2, <2>3 DEF SameSeq
  <1>3. indexes(x) = indexes(y) <=> Alike
    <2>1. indexes(x) = indexes(y) => Len(x.indexes) = Len(y.indexes)
      <3>1. DOMAIN indexes(x) = 1..Len(x.indexes) /\ DOMAIN indexes(y) = 1..Len(y.indexes)
        OBVIOUS
      <3>2. \A m, n \in Nat : 1..m = 1..n => m = n  OBVIOUS
      <3> HIDE DEF indexes
      <3> QED  BY <1>1, <3>1, <3>2
    <2>2. Len(x.indexes) = Len(y.indexes) =>
            (indexes(x) = indexes(y) <=> \A i \in 1..Len(x.indexes) :
                                            indexes(x)[i] = indexes(y)[i])
      OBVIOUS
    <2>3. Len(x.indexes) = Len(y.indexes) => \A i \in 1..Len(x.indexes) :
            indexes(x)[i] = indexes(y)[i] <=> SameIndex(x.indexes[i], y.indexes[i], LostFields)
      BY <1>1, IndexSentAsMeant
    <2> HIDE DEF indexes
    <2> QED  BY <2>1, <2>2, <2>3
  <1>0. SameCall(x, y, LostFields) <=>
           /\ x.name = y.name /\ x.constraints_json = y.constraints_json
           /\ SameSeq(x.columns, y.columns, SameColumn) /\ Alike
    BY DEF SameCall, SameSeq
  <1> HIDE DEF columns, indexes, Alike
  <1>4. Given(x.indexes # <<>>, indexes(x)) = Given(y.indexes # <<>>, indexes(y))
          <=> Alike
    <2>1. Alike => Len(x.indexes) = Len(y.indexes)  BY DEF Alike
    <2>2. Len(x.indexes) = 0 /\ Len(y.indexes) = 0 => Alike  BY DEF Alike
    <2> QED  BY <1>1, <1>3, <2>1, <2>2 DEF Given
  <1>5. \A c : CreateTableBody(c) =
          [name |-> c.name, columns |-> columns(c), constraints |-> c.constraints_json,
           indexes |-> Given(c.indexes # <<>>, indexes(c))]
    BY DEF CreateTableBody, columns, indexes
  <1> QED  BY <1>0, <1>2, <1>4, <1>5

LEMMA CommitSent ==
    ASSUME NEW x, NEW y, NEW lost, IsCall(x), IsCall(y), x.op = "commit", y.op = "commit"
    PROVE  CommitBody(x) = CommitBody(y) <=> SameCall(x, y, lost)
  <1> DEFINE ops(c) == [i \in 1..Len(c.ops) |-> OpBody(c.ops[i])]
  <1>1. ASSUME NEW c \in {x, y}
        PROVE  Len(c.ops) \in Nat /\ \A i \in 1..Len(c.ops) : IsOp(c.ops[i])
    <2>1. IsVector(c.ops) /\ \A i \in DOMAIN c.ops : IsOp(c.ops[i])  BY DEF IsCall
    <2> QED  BY <2>1, VectorLength
  <1>2. ops(x) = ops(y) => Len(x.ops) = Len(y.ops)
    <2>1. DOMAIN ops(x) = 1..Len(x.ops) /\ DOMAIN ops(y) = 1..Len(y.ops)  OBVIOUS
    <2>2. \A m, n \in Nat : 1..m = 1..n => m = n  OBVIOUS
    <2> HIDE DEF ops
    <2> QED  BY <1>1, <2>1, <2>2
  <1>3. Len(x.ops) = Len(y.ops) =>
          (ops(x) = ops(y) <=> \A i \in 1..Len(x.ops) : ops(x)[i] = ops(y)[i])
    OBVIOUS
  <1>4. Len(x.ops) = Len(y.ops) => \A i \in 1..Len(x.ops) :
          ops(x)[i] = ops(y)[i] <=> SameOp(x.ops[i], y.ops[i])
    BY <1>1, OpSentAsMeant
  <1>5. \A c : CommitBody(c) =
          [ops |-> ops(c), idempotency_key |-> Given(c.idempotency_key # "", c.idempotency_key)]
    BY DEF CommitBody
  <1> HIDE DEF ops
  <1>6. ops(x) = ops(y) <=> SameSeq(x.ops, y.ops, SameOp)  BY <1>2, <1>3, <1>4 DEF SameSeq
  <1>7. Given(x.idempotency_key # "", x.idempotency_key)
          = Given(y.idempotency_key # "", y.idempotency_key)
          <=> x.idempotency_key = y.idempotency_key
    BY DEF Given
  <1> QED  BY <1>5, <1>6, <1>7 DEF SameCall

LEMMA CapSentAsMeant ==
    ASSUME NEW m \in Int, NEW n \in Int
    PROVE  Given(m > 0, m) = Given(n > 0, n) <=> SameCap(m, n)
  BY DEF Given, SameCap

LEMMA QuerySent ==
    ASSUME NEW x, NEW y, IsCall(x), IsCall(y), x.op = "query", y.op = "query"
    PROVE  QueryBody(x) = QueryBody(y) <=> SameCall(x, y, LostFlags)
  <1> DEFINE conditions(c) == [i \in 1..Len(c.conditions) |-> ConditionBody(c.conditions[i])]
             Alike == /\ Len(x.conditions) = Len(y.conditions)
                      /\ \A i \in 1..Len(x.conditions) :
                            SameCondition(x.conditions[i], y.conditions[i], LostFlags)
  <1>1. ASSUME NEW c \in {x, y}
        PROVE  /\ Len(c.conditions) \in Nat /\ (c.conditions = <<>> <=> Len(c.conditions) = 0)
               /\ \A i \in 1..Len(c.conditions) : IsCondition(c.conditions[i])
               /\ c.limit \in Int
    <2>1. /\ IsVector(c.conditions) /\ c.limit \in Int
          /\ \A i \in DOMAIN c.conditions : IsCondition(c.conditions[i])
      BY DEF IsCall
    <2> QED  BY <2>1, VectorLength
  <1>2. conditions(x) = conditions(y) => Len(x.conditions) = Len(y.conditions)
    <2>1. /\ DOMAIN conditions(x) = 1..Len(x.conditions)
          /\ DOMAIN conditions(y) = 1..Len(y.conditions)
      OBVIOUS
    <2>2. \A m, n \in Nat : 1..m = 1..n => m = n  OBVIOUS
    <2> HIDE DEF conditions
    <2> QED  BY <1>1, <2>1, <2>2
  <1>3. Len(x.conditions) = Len(y.conditions) =>
          (conditions(x) = conditions(y) <=>
             \A i \in 1..Len(x.conditions) : conditions(x)[i] = conditions(y)[i])
    OBVIOUS
  <1>4. Len(x.conditions) = Len(y.conditions) => \A i \in 1..Len(x.conditions) :
          conditions(x)[i] = conditions(y)[i] <=> SameCondition(x.conditions[i], y.conditions[i], LostFlags)
    BY <1>1, ConditionSentAsMeant
  <1>5. \A c : QueryBody(c) =
          [table |-> c.table, conditions |-> Given(c.conditions # <<>>, conditions(c)),
           projection |-> Given(c.projection # <<>>, c.projection),
           limit |-> Given(c.limit > 0, c.limit), offset |-> Given(c.offset # 0, c.offset)]
    BY DEF QueryBody
  <1>0. SameCall(x, y, LostFlags) <=>
           /\ x.table = y.table /\ x.projection = y.projection /\ x.offset = y.offset
           /\ SameCap(x.limit, y.limit) /\ Alike
    BY DEF SameCall, SameSeq
  <1> HIDE DEF conditions
  <1>6. conditions(x) = conditions(y) <=> Alike
    BY <1>2, <1>3, <1>4
  <1>7. Given(x.conditions # <<>>, conditions(x)) = Given(y.conditions # <<>>, conditions(y))
          <=> Alike
    <2>1. Alike => Len(x.conditions) = Len(y.conditions)
      OBVIOUS
    <2>2. Len(x.conditions) = 0 /\ Len(y.conditions) = 0 => Alike
      OBVIOUS
    <2> QED  BY <1>1, <1>6, <2>1, <2>2 DEF Given
  <1>8. /\ Given(x.projection # <<>>, x.projection) = Given(y.projection # <<>>, y.projection)
             <=> x.projection = y.projection
        /\ Given(x.offset # 0, x.offset) = Given(y.offset # 0, y.offset)
             <=> x.offset = y.offset
        /\ Given(x.limit > 0, x.limit) = Given(y.limit > 0, y.limit)
             <=> SameCap(x.limit, y.limit)
    BY <1>1, CapSentAsMeant DEF Given
  <1> HIDE DEF Alike
  <1> QED  BY <1>0, <1>5, <1>7, <1>8

LEMMA RetrieveTextSent ==
    ASSUME NEW x, NEW y, NEW lost, IsCall(x), IsCall(y),
           x.op = "retrieve_text", y.op = "retrieve_text"
    PROVE  RetrieveTextBody(x) = RetrieveTextBody(y) <=> SameCall(x, y, lost)
  <1>1. x.k \in Int /\ y.k \in Int  BY DEF IsCall
  <1>2. Given(x.k > 0, x.k) = Given(y.k > 0, y.k) <=> SameCap(x.k, y.k)
    BY <1>1, CapSentAsMeant
  <1> QED  BY <1>2 DEF RetrieveTextBody, SameCall

(* Calls that ask for the same ask for the same but for some fields.         *)
LEMMA SameButForLost ==
    ASSUME NEW x, NEW y, NEW lost, IsCall(x), SameCall(x, y, {})
    PROVE  SameCall(x, y, lost)
  <1>1. \A a, b : SameIndex(a, b, {}) => SameIndex(a, b, lost)  BY DEF SameIndex
  <1>2. \A a, b : SameCondition(a, b, {}) => SameCondition(a, b, lost)  BY DEF SameCondition
  <1>3. CASE x.op = "create_table"  BY <1>1, <1>3 DEF SameCall, SameSeq
  <1>4. CASE x.op = "query"  BY <1>2, <1>4 DEF SameCall, SameSeq
  <1>5. CASE x.op \in {"commit", "retrieve_text"}  BY <1>5 DEF SameCall
  <1> QED  BY <1>3, <1>4, <1>5 DEF IsCall

LostBy(op) ==
    CASE op = "create_table" -> LostFields
      [] op = "query" -> LostFlags
      [] OTHER -> {}

LEMMA BodySentAsMeant ==
    ASSUME NEW x \in Calls, NEW y \in Calls, x.op = y.op
    PROVE  Wire(y).body = Wire(x).body <=> SameCall(x, y, LostBy(x.op))
  <1>1. IsCall(x) /\ IsCall(y)  BY CallAssumption
  <1>2. CASE x.op = "create_table"  BY <1>1, <1>2, CreateTableSent DEF Wire, LostBy
  <1>3. CASE x.op = "commit"  BY <1>1, <1>3, CommitSent DEF Wire, LostBy
  <1>4. CASE x.op = "query"  BY <1>1, <1>4, QuerySent DEF Wire, LostBy
  <1>5. CASE x.op = "retrieve_text"  BY <1>1, <1>5, RetrieveTextSent DEF Wire, LostBy
  <1> QED  BY <1>1, <1>2, <1>3, <1>4, <1>5 DEF IsCall

-----------------------------------------------------------------------------
(* Texts that are no JSON *)

LEMMA IndexSpoiledByExtremes ==
    ASSUME NEW ix, IsIndex(ix), \A n \in Tuning(ix) : ~(DigitsOf(n) > 9)
    PROVE  IndexIsText(ix)
  <1> DEFINE T == {"diskann_r", "diskann_l", "diskann_beam_width", "ivf_nlist", "ivf_nprobe",
                   "pq_training_samples", "pq_rerank_factor"}
  <1>1. \A f \in T : ix[f] \in Tuning(ix)  BY DEF Tuning, EngineDefault
  <1>2. \A f \in T : DigitsOf(ix[f]) \in 1..9
    <2>1. \A f \in T : DigitsOf(ix[f]) \in 1..20  BY DEF IsIndex
    <2> QED  BY <1>1, <2>1
  <1>3. \A f \in T, n \in {5, 8, 64, 120, 128, 256, 256000} :
           DigitsOf(OrElse(ix[f], n)) \in 1..9
    BY <1>2, DigitsAssumption DEF OrElse
  <1>4. DigitsOf(OrElse(ix.diskann_alpha, 120)) \in 1..10
    BY DigitsAssumption DEF OrElse, IsIndex
  <1>5. DigitsOf(OrElse(ix.pq_seed, GoldenSeed)) \in 1..20
    BY DigitsAssumption DEF OrElse, IsIndex
  <1>6. DiskannFits(ix)
    <2>1. /\ DigitsOf(OrElse(ix.diskann_r, 64)) \in 1..9
          /\ DigitsOf(OrElse(ix.diskann_l, 128)) \in 1..9
          /\ DigitsOf(OrElse(ix.diskann_beam_width, 8)) \in 1..9
      BY <1>3
    <2> QED  BY <1>4, <2>1 DEF DiskannFits, Diskann
  <1>7. IvfFits(ix)
    <2>1. /\ DigitsOf(OrElse(ix.ivf_nlist, 256)) \in 1..9
          /\ DigitsOf(OrElse(ix.ivf_nprobe, 8)) \in 1..9
      BY <1>3
    <2> QED  BY <2>1 DEF IvfFits, Ivf
  <1>8. ProductFits(ix)
    <2>1. /\ DigitsOf(OrElse(ix.pq_training_samples, 256000)) \in 1..9
          /\ DigitsOf(OrElse(ix.pq_rerank_factor, 5)) \in 1..9
      BY <1>3
    <2> QED  BY <1>5, <2>1 DEF ProductFits, ProductDigits, Product
  <1> QED  BY <1>6, <1>7, <1>8 DEF IndexIsText

LEMMA SpoiledCall ==
    ASSUME NEW c \in Calls, ~Wire(c).text
    PROVE  CASE c.op = "create_table" ->
                   \E i \in 1..Len(c.indexes) : \E n \in Tuning(c.indexes[i]) : DigitsOf(n) > 9
             [] c.op = "query" ->
                   \E i \in 1..Len(c.conditions) :
                       {c.conditions[i].lo, c.conditions[i].hi} \cap NonFinite # {}
             [] OTHER -> FALSE
  <1>1. IsCall(c)  BY CallAssumption
  <1>2. CASE c.op = "create_table"
    <2>1. PICK i \in 1..Len(c.indexes) : ~IndexIsText(c.indexes[i])  BY <1>2 DEF Wire
    <2>2. IsIndex(c.indexes[i])
      <3>1. IsVector(c.indexes) /\ \A j \in DOMAIN c.indexes : IsIndex(c.indexes[j])
        BY <1>1, <1>2 DEF IsCall
      <3> QED  BY <3>1, VectorLength
    <2>3. \E n \in Tuning(c.indexes[i]) : DigitsOf(n) > 9
      BY <2>1, <2>2, IndexSpoiledByExtremes
    <2> QED  BY <1>2, <2>3
  <1>3. CASE c.op = "query"
    <2>1. PICK i \in 1..Len(c.conditions) : ~ConditionIsText(c.conditions[i])
      BY <1>3 DEF Wire
    <2>2. {c.conditions[i].lo, c.conditions[i].hi} \cap NonFinite # {}
      BY <2>1 DEF ConditionIsText
    <2> QED  BY <1>3, <2>2
  <1>4. CASE c.op \in {"commit", "retrieve_text"}  BY <1>4 DEF Wire
  <1> QED  BY <1>1, <1>2, <1>3, <1>4 DEF IsCall

-----------------------------------------------------------------------------
(* What is on the wire is the text of the call under way.                    *)
IInv ==
    \/ call = {} /\ sent = {}
    \/ \E c \in Calls : call = {c} /\ sent = {Wire(c)}

LEMMA Inductive == Spec => []IInv
  <1>1. Init => IInv  BY DEF Init, IInv
  <1>2. IInv /\ [Next]_vars => IInv'
    <2> SUFFICES ASSUME IInv, [Next]_vars PROVE IInv'  OBVIOUS
    <2>1. ASSUME NEW c \in Calls, Send(c) PROVE IInv'  BY <2>1 DEF Send, IInv
    <2>2. ASSUME NEW c \in Calls, Refuse(c) PROVE IInv'  BY <2>2 DEF Refuse, IInv, vars
    <2>3. CASE Answered  BY <2>3 DEF Answered, IInv
    <2>4. CASE UNCHANGED vars  BY <2>4 DEF IInv, vars
    <2> QED  BY <2>1, <2>2, <2>3, <2>4 DEF Next
  <1> QED  BY <1>1, <1>2, PTL DEF Spec

LEMMA SentAsMeantHolds ==
    ASSUME NEW op, IInv
    PROVE  SentAsMeant(op, LostBy(op))
  <1> SUFFICES ASSUME NEW c \in call, NEW w \in sent, c.op = op,
                      NEW other \in Calls, other.op = op
               PROVE  /\ SameCall(c, other, {}) => Wire(other).body = w.body
                      /\ Wire(other).body = w.body => SameCall(c, other, LostBy(op))
    BY DEF SentAsMeant
  <1>1. c \in Calls /\ w = Wire(c)  BY DEF IInv
  <1>2. Wire(other).body = w.body <=> SameCall(c, other, LostBy(op))
    BY <1>1, BodySentAsMeant
  <1>3. SameCall(c, other, {}) => SameCall(c, other, LostBy(op))
    BY <1>1, CallAssumption, SameButForLost
  <1> QED  BY <1>2, <1>3

-----------------------------------------------------------------------------
(* The theorems *)

(* CreateTableAsMeant: any columns and indexes, in any number; two fields of *)
(* a product quantization are all that is lost of a whole text.              *)
THEOREM CreateTableIsSent == Spec => []CreateTableAsMeant
  <1>1. IInv => CreateTableAsMeant  BY SentAsMeantHolds DEF CreateTableAsMeant, LostBy, LostFields
  <1> QED  BY <1>1, Inductive, PTL

(* CommitAsMeant: any operations with any cells, in any number.              *)
THEOREM CommitIsSent == Spec => []CommitAsMeant
  <1>1. IInv => CommitAsMeant  BY SentAsMeantHolds DEF CommitAsMeant, LostBy
  <1> QED  BY <1>1, Inductive, PTL

(* QueryAsMeant: any conditions, limits and offsets, and any k; whether a    *)
(* bound is inclusive is all that is lost of a whole text.                   *)
THEOREM QueryIsSent == Spec => []QueryAsMeant
  <1>1. IInv => QueryAsMeant
    <2>1. LostBy("query") = {"lo_inclusive", "hi_inclusive"} /\ LostBy("retrieve_text") = {}
      BY DEF LostBy, LostFlags
    <2>2. IInv => SentAsMeant("query", LostBy("query"))
                  /\ SentAsMeant("retrieve_text", LostBy("retrieve_text"))
      BY SentAsMeantHolds
    <2> QED  BY <2>1, <2>2 DEF QueryAsMeant
  <1> QED  BY <1>1, Inductive, PTL

(* SpoiledOnlyByExtremes: the buffers of serialize_index_json are long       *)
(* enough for any tuning of nine digits, whatever the seed.                  *)
THEOREM OnlyExtremesSpoil == Spec => []SpoiledOnlyByExtremes
  <1>1. IInv => SpoiledOnlyByExtremes
    <2> SUFFICES ASSUME IInv, NEW c \in call, NEW w \in sent, ~w.text
                 PROVE  CASE c.op = "create_table" ->
                               \E i \in 1..Len(c.indexes) :
                                  \E n \in Tuning(c.indexes[i]) : DigitsOf(n) > 9
                          [] c.op = "query" ->
                               \E i \in 1..Len(c.conditions) :
                                  {c.conditions[i].lo, c.conditions[i].hi} \cap NonFinite # {}
                          [] OTHER -> FALSE
      BY DEF SpoiledOnlyByExtremes
    <2>1. c \in Calls /\ w = Wire(c)  BY DEF IInv
    <2> QED  BY <2>1, SpoiledCall
  <1> QED  BY <1>1, Inductive, PTL
=============================================================================
