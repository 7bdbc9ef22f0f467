----------------------- MODULE HistoryRetention_proofs -----------------------
(* Proofs about HistoryRetention, for any callers, windows and bounds: what  *)
(* a whole reply says was true, discarded history does not come back, and a  *)
(* reply that broke off is no pair unless both of its numbers stand there.   *)
EXTENDS HistoryRetention, SequenceTheorems, TLAPS

-----------------------------------------------------------------------------
(* What a body reports *)

NumberKeys == {"history_retention_epochs", "earliest_retained_epoch", "count", "table_id"}

(* Every number of the body is at most that of state s.                      *)
Reports(body, s) ==
    /\ Len(body.members) \in 0..2
    /\ \A i \in 1..Len(body.members) :
          \/ body.members[i] = Foreign
          \/ \E key \in NumberKeys : body.members[i] = NullOf(key)
          \/ \E key \in NumberKeys : \E n \in 0..s[FieldOf[key]] :
                body.members[i] = Number(key, n)

LEMMA StateFields ==
    ASSUME NEW s \in States, NEW key \in NumberKeys
    PROVE  s[FieldOf[key]] \in 0..Top
  <1>1. /\ s["window"] \in 0..Top /\ s["earliest"] \in 0..Top
        /\ s["rows"] \in 0..Top /\ s["tables"] \in 0..Top
    BY WindowAssumption DEF States
  <1>2. FieldOf[key] \in {"window", "earliest", "rows", "tables"}
    BY DEF FieldOf, NumberKeys
  <1> QED  BY <1>1, <1>2

LEMMA MemberOf ==
    ASSUME NEW s \in States, NEW key \in NumberKeys, NEW n \in 0..s[FieldOf[key]]
    PROVE  /\ Member[Number(key, n)] = [key |-> key, kind |-> "num", val |-> n]
           /\ Member[NullOf(key)] = [key |-> key, kind |-> "null", val |-> 0]
  <1>1. n \in 0..Top  BY StateFields, BoundAssumption
  <1>2. key \in DOMAIN FieldOf  BY DEF NumberKeys, FieldOf
  <1> QED  BY <1>1, <1>2, MemberAssumption

LEMMA FirstProperties ==
    ASSUME NEW I \in SUBSET {1, 2}
    PROVE  /\ I = {} => First(I) = 0
           /\ I # {} => First(I) \in I
           /\ 1 \in I => First(I) = 1
  <1>1. ASSUME I # {} PROVE \E i \in I : \A j \in I : i <= j
    <2>1. \A j \in I : j = 1 \/ j = 2  OBVIOUS
    <2>2. CASE 1 \in I
      <3>1. \A j \in I : 1 <= j  BY <2>1
      <3> QED  BY <2>2, <3>1
    <2>3. CASE 1 \notin I
      <3>0. \A j \in I : j = 2  BY <2>1, <2>3
      <3>1. 2 \in I  BY <1>1, <3>0
      <3>2. \A j \in I : 2 <= j  BY <3>0
      <3> QED  BY <3>1, <3>2
    <2> QED  BY <2>2, <2>3
  <1>2. ASSUME I # {} PROVE First(I) \in I /\ \A j \in I : First(I) <= j
    BY <1>1, <1>2 DEF First
  <1>3. ASSUME 1 \in I PROVE First(I) = 1
    <2>1. First(I) \in {1, 2} /\ First(I) <= 1  BY <1>2, <1>3
    <2> QED  BY <2>1
  <1> QED  BY <1>2, <1>3 DEF First

(* What a lookup finds, in a body of numbers and nulls.                      *)
LEMMA Lookup ==
    ASSUME NEW s \in States, NEW body, Reports(body, s), NEW key \in NumberKeys,
           NEW kinds, "num" \in kinds, "str" \notin kinds, "null" \notin kinds
    PROVE  LET i == Hit(body, key, kinds) IN
           \/ i = 0 /\ \A j \in 1..Len(body.members) : \A n : body.members[j] # Number(key, n)
           \/ /\ i \in 1..Len(body.members)
              /\ At(body, i) = [key |-> key, kind |-> "num", val |-> At(body, i).val]
              /\ At(body, i).val \in 0..s[FieldOf[key]]
              /\ body.members[i] = Number(key, At(body, i).val)
  <1> DEFINE I == {i \in 1..Len(body.members) :
                      At(body, i).key = key /\ At(body, i).kind \in kinds}
             Num(i) == /\ At(body, i).kind = "num" /\ At(body, i).key \in NumberKeys
                       /\ At(body, i).val \in 0..s[FieldOf[At(body, i).key]]
                       /\ At(body, i) =
                            [key |-> At(body, i).key, kind |-> "num", val |-> At(body, i).val]
                       /\ body.members[i] = Number(At(body, i).key, At(body, i).val)
  <1>0. \A k, l, m, n : Number(k, m) = Number(l, n) => k = l /\ m = n  BY DEF Number
  <1>1. \A i \in 1..Len(body.members) :
           \/ At(body, i).kind \in {"str", "null"} /\ \A n : body.members[i] # Number(key, n)
           \/ Num(i)
    <2> TAKE i \in 1..Len(body.members)
    <2>1. CASE body.members[i] = Foreign
      <3>1. At(body, i).kind = "str"  BY <2>1, MemberAssumption DEF At
      <3>2. \A n : Foreign # Number(key, n)  BY DEF Foreign, Number
      <3> QED  BY <2>1, <3>1, <3>2
    <2>2. ASSUME NEW k \in NumberKeys, body.members[i] = NullOf(k)
          PROVE  At(body, i).kind = "null" /\ \A n : body.members[i] # Number(key, n)
      <3>1. 0 \in 0..s[FieldOf[k]]  BY StateFields, BoundAssumption
      <3>2. Member[NullOf(k)] = [key |-> k, kind |-> "null", val |-> 0]  BY <3>1, MemberOf
      <3>3. At(body, i).kind = "null"  BY <2>2, <3>2 DEF At
      <3>4. \A n : NullOf(k) # Number(key, n)  BY DEF NullOf, Number
      <3> QED  BY <2>2, <3>3, <3>4
    <2>3. ASSUME NEW k \in NumberKeys, NEW n \in 0..s[FieldOf[k]],
                 body.members[i] = Number(k, n)
          PROVE  Num(i)
      <3>1. At(body, i) = [key |-> k, kind |-> "num", val |-> n]  BY <2>3, MemberOf DEF At
      <3> QED  BY <2>3, <3>1
    <2> QED  BY <2>1, <2>2, <2>3 DEF Reports
  <1>2. I \in SUBSET {1, 2}  BY DEF Reports
  <1>3. Hit(body, key, kinds) = First(I)  BY DEF Hit
  <1>4. CASE I = {}
    <2>1. Hit(body, key, kinds) = 0  BY <1>2, <1>3, <1>4, FirstProperties
    <2>2. ASSUME NEW j \in 1..Len(body.members), NEW n, body.members[j] = Number(key, n)
          PROVE  FALSE
      <3>1. Num(j)  BY <1>1, <2>2
      <3>2. /\ body.members[j] = Number(At(body, j).key, At(body, j).val)
            /\ At(body, j).kind = "num"
        BY ONLY <3>1
      <3>3. At(body, j).key = key  BY ONLY <1>0, <2>2, <3>2
      <3> QED  BY <1>4, <3>2, <3>3
    <2> QED  BY <2>1, <2>2
  <1>5. CASE I # {}
    <2> DEFINE i == First(I)
    <2>1. i \in I  BY <1>2, <1>5, FirstProperties
    <2>2. i \in 1..Len(body.members) /\ At(body, i).key = key /\ At(body, i).kind \in kinds
      BY <2>1
    <2> HIDE DEF i, I
    <2>3. Num(i)  BY <1>1, <2>2
    <2> QED  BY <1>3, <2>2, <2>3 DEF i
  <1> QED  BY <1>4, <1>5

(* An integer comes through a double as itself, or is beyond the exact ones. *)
LEMMA Doubles ==
    ASSUME NEW n \in 0..Top
    PROVE  AsDouble(n) \in Nat /\ (AsDouble(n) = n \/ n > Exact)
  <1>1. n \in Nat /\ Rounded(n) \in Nat  BY BoundAssumption, RoundedAssumption
  <1>2. n \in -Exact..Exact \/ n > Exact  BY <1>1, ExactAssumption
  <1> QED  BY <1>1, <1>2 DEF AsDouble

(* The lookups that decode a reply, with a fresh variable: 0, or a number of *)
(* the body; and TRUE without a hit only of a whole body.                    *)
LEMMA LookupsBounded ==
    ASSUME NEW s \in States, NEW body, Reports(body, s), NEW key \in NumberKeys
    PROVE  /\ GetInt(body, key, 0).out \in Nat
           /\ LET u == GetUint64(body, key, 0) IN
              u.ret => /\ u.out \in Nat
                       /\ Stands(key, body) = 0 => body.closed
  <1>1. s[FieldOf[key]] \in 0..Top  BY StateFields
  <1>2. \A v \in 0..s[FieldOf[key]] : v \in 0..Top /\ v \in Nat
    <2>1. \A x \in 0..Top : \A v \in 0..x : v \in 0..Top /\ v \in Nat
      BY ONLY BoundAssumption
    <2> QED  BY ONLY <1>1, <2>1
  <1>3. GetInt(body, key, 0).out \in Nat
    <2> DEFINE i == Hit(body, key, {"num", "frac", "neg"})
    <2>1. i = 0 \/ At(body, i).val \in 0..s[FieldOf[key]]  BY Lookup
    <2>2. i = 0 \/ AsDouble(At(body, i).val) \in Nat  BY <1>2, <2>1, Doubles
    <2> QED  BY <2>2 DEF GetInt, GetNumber
  <1>4. ASSUME GetUint64(body, key, 0).ret
        PROVE  /\ GetUint64(body, key, 0).out \in Nat
               /\ Stands(key, body) = 0 => body.closed
    <2> DEFINE i == Hit(body, key, {"num", "frac"})
    <2>1. CASE i = 0  BY <1>4, <2>1 DEF GetUint64, ScanEnd
    <2>2. CASE i # 0
      <3>1. /\ i \in 1..Len(body.members)
            /\ At(body, i) = [key |-> key, kind |-> "num", val |-> At(body, i).val]
            /\ At(body, i).val \in 0..s[FieldOf[key]]
            /\ body.members[i] = Number(key, At(body, i).val)
        BY <2>2, Lookup
      <3>2. GetUint64(body, key, 0).out = At(body, i).val
        BY <2>2, <3>1 DEF GetUint64
      <3>3. Stands(key, body) # 0
        <4> DEFINE h == Hit(body, key, {"num"})
        <4>1. \/ h = 0 /\ \A j \in 1..Len(body.members) : \A n : body.members[j] # Number(key, n)
              \/ h \in 1..Len(body.members)
          BY Lookup
        <4>2. Len(body.members) \in Nat  BY DEF Reports
        <4> HIDE DEF h, i
        <4>3. h # 0  BY <3>1, <4>1, <4>2
        <4> QED  BY <4>3 DEF h, Stands
      <3> QED  BY <1>2, <3>1, <3>2, <3>3
    <2> QED  BY <2>1, <2>2
  <1> QED  BY <1>3, <1>4

-----------------------------------------------------------------------------
(* What arrives of a reply *)

LEMMA BodiesReport ==
    ASSUME NEW s \in States, NEW op \in Ops, NEW sent \in Bodies(op, s)
    PROVE  Reports(sent, s) /\ sent.closed /\ sent.members # <<>> /\ sent.open
  <1>1. /\ FieldOf["history_retention_epochs"] = "window"
        /\ FieldOf["earliest_retained_epoch"] = "earliest"
        /\ FieldOf["count"] = "rows" /\ FieldOf["table_id"] = "tables"
    BY DEF FieldOf
  <1>2. s.window \in Nat /\ s.earliest \in Nat /\ s.rows \in Nat /\ s.tables \in Nat
    <2>1. \A k \in 0..Top : k \in Nat  BY BoundAssumption
    <2> QED  BY <2>1, WindowAssumption DEF States
  <1>3. /\ s.window \in 0..s[FieldOf["history_retention_epochs"]]
        /\ s.earliest \in 0..s[FieldOf["earliest_retained_epoch"]]
        /\ s.rows \in 0..s[FieldOf["count"]] /\ s.tables \in 0..s[FieldOf["table_id"]]
    BY <1>1, <1>2
  <1> DEFINE w == Number("history_retention_epochs", s.window)
             e == Number("earliest_retained_epoch", s.earliest)
             n == Number("count", s.rows)
             t == Number("table_id", s.tables)
             Fit(m) == \E key \in NumberKeys : \E v \in 0..s[FieldOf[key]] : m = Number(key, v)
  <1>4. Fit(w) /\ Fit(e) /\ Fit(n) /\ Fit(t)  BY <1>3 DEF NumberKeys
  <1>5. \/ sent = Object(<<w, e>>) \/ sent = Object(<<e, w>>)
        \/ sent = Object(<<n>>) \/ sent = Object(<<t>>)
    BY DEF Bodies
  <1>6. /\ sent.closed /\ sent.members # <<>> /\ sent.open
        /\ Len(sent.members) \in 0..2
        /\ \A i \in 1..Len(sent.members) : sent.members[i] \in {w, e, n, t}
    <2> HIDE DEF w, e, n, t
    <2>1. ASSUME NEW a, NEW b, sent = Object(<<a, b>>)
          PROVE  /\ sent.closed /\ sent.members # <<>> /\ sent.open /\ Len(sent.members) = 2
                 /\ \A i \in 1..2 : sent.members[i] \in {a, b}
      BY <2>1 DEF Object
    <2>2. ASSUME NEW a, sent = Object(<<a>>)
          PROVE  /\ sent.closed /\ sent.members # <<>> /\ sent.open /\ Len(sent.members) = 1
                 /\ \A i \in 1..1 : sent.members[i] \in {a}
      BY <2>2 DEF Object
    <2>3. CASE sent = Object(<<w, e>>) \/ sent = Object(<<e, w>>)  BY <2>1, <2>3
    <2>4. CASE sent = Object(<<n>>) \/ sent = Object(<<t>>)  BY <2>2, <2>4
    <2> QED  BY <1>5, <2>3, <2>4
  <1>7. \A i \in 1..Len(sent.members) : Fit(sent.members[i])
    <2> HIDE DEF w, e, n, t, Fit
    <2> QED  BY <1>4, <1>6
  <1> QED  BY <1>6, <1>7 DEF Reports

LEMMA NumbersSent ==
    ASSUME NEW s \in States, NEW op \in Ops, NEW sent \in Bodies(op, s),
           NEW n \in 1..Len(sent.members)
    PROVE  \E key \in NumberKeys : sent.members[n] = Number(key, s[FieldOf[key]])
  <1> DEFINE w == Number("history_retention_epochs", s.window)
             e == Number("earliest_retained_epoch", s.earliest)
             c == Number("count", s.rows)
             t == Number("table_id", s.tables)
             Fit(m) == \E key \in NumberKeys : m = Number(key, s[FieldOf[key]])
  <1>1. sent \in {Object(<<w, e>>), Object(<<e, w>>), Object(<<c>>), Object(<<t>>)}
    BY DEF Bodies
  <1>2. Fit(w) /\ Fit(e) /\ Fit(c) /\ Fit(t)  BY DEF NumberKeys, FieldOf
  <1> HIDE DEF w, e, c, t, Fit
  <1>3. sent.members[n] \in {w, e, c, t}
    <2>1. ASSUME NEW a, NEW b, sent = Object(<<a, b>>) PROVE sent.members[n] \in {a, b}
      BY <2>1 DEF Object
    <2>2. ASSUME NEW a, sent = Object(<<a>>) PROVE sent.members[n] \in {a}
      BY <2>2 DEF Object
    <2> QED  BY <1>1, <2>1, <2>2
  <1>4. Fit(sent.members[n])  BY <1>2, <1>3
  <1> QED  BY <1>4 DEF Fit

LEMMA DamagedReport ==
    ASSUME NEW s \in States, NEW op \in Ops, NEW sent \in Bodies(op, s),
           NEW body \in Damaged(sent)
    PROVE  /\ Reports(body, s)
           /\ body.closed \/ body.members = <<>> \/ body \in Cuts(sent)
           /\ body \in Cuts(sent) => \A i \in 1..(Len(body.members) - 1) :
                                        body.members[i] = sent.members[i]
  <1>1. Reports(sent, s) /\ sent.closed  BY BodiesReport
  <1>2. CASE body = NoBody  BY <1>2 DEF NoBody, Reports
  <1>3. CASE body = Object(<<Foreign>>)  BY <1>3 DEF Object, Reports
  <1> DEFINE ms == sent.members
  <1>4. \E M : ms \in Seq(M) /\ \A k \in NumberKeys : NullOf(k) \in M
    <2> DEFINE N == {NullOf(k) : k \in NumberKeys}
    <2>1. ASSUME NEW a, NEW b, NEW P
          PROVE  <<a, b>> \in Seq({a, b} \cup P) /\ <<a>> \in Seq({a, a} \cup P)
      OBVIOUS
    <2>2. \/ \E a, b : sent = Object(<<a, b>>)
          \/ \E a : sent = Object(<<a>>)
      BY DEF Bodies
    <2> HIDE DEF N
    <2>3. \E a, b : ms \in Seq({a, b} \cup N)
      <3>1. ASSUME NEW a, NEW b, sent = Object(<<a, b>>)
            PROVE  \E x, y : ms \in Seq({x, y} \cup N)
        <4>1. ms = <<a, b>>  BY ONLY <3>1 DEF Object
        <4> QED  BY ONLY <2>1, <4>1
      <3>2. ASSUME NEW a, sent = Object(<<a>>)
            PROVE  \E x, y : ms \in Seq({x, y} \cup N)
        <4>1. ms = <<a>>  BY ONLY <3>2 DEF Object
        <4> QED  BY ONLY <2>1, <4>1
      <3> QED  BY ONLY <2>2, <3>1, <3>2
    <2> QED  BY <2>3 DEF N
  <1>5. PICK M : ms \in Seq(M) /\ \A k \in NumberKeys : NullOf(k) \in M  BY <1>4
  <1>6. Len(ms) \in 0..2  BY <1>1 DEF Reports
  <1>7. \A k \in 0..Len(ms) : k \in 0..2
    <2>1. \A l \in 0..2 : \A k \in 0..l : k \in 0..2  OBVIOUS
    <2> QED  BY <1>6, <2>1
  <1>8. /\ DOMAIN sent = {"open", "members", "closed"}
        /\ sent = [open |-> sent.open, members |-> ms, closed |-> sent.closed]
    BY DEF Bodies, Object
  <1>9. ASSUME NEW n \in 0..Len(ms),
               body = [sent EXCEPT !.members = SubSeq(@, 1, n), !.closed = FALSE]
        PROVE  /\ Reports(body, s)
               /\ \A i \in 1..(Len(body.members) - 1) : body.members[i] = ms[i]
    <2>1. body.members = SubSeq(ms, 1, n) /\ body.closed = FALSE  BY <1>8, <1>9
    <2>2. Len(body.members) = n /\ \A i \in 1..n : body.members[i] = ms[i]
      BY <1>5, <1>6, <2>1, SubSeqProperties
    <2>3. \A i \in 1..n : i \in 1..Len(ms)  BY <1>6
    <2>4. n \in 0..2  BY <1>7
    <2>5. \A i \in 1..(Len(body.members) - 1) : i \in 1..n  BY <2>2, <2>4
    <2> QED  BY <1>1, <2>1, <2>2, <2>3, <2>4, <2>5 DEF Reports
  <1>10. ASSUME NEW n \in 1..Len(ms), NEW v \in Shortened(ms[n][3]),
               body = [sent EXCEPT !.members = Append(SubSeq(@, 1, n - 1), Number(@[n][1], v)),
                                   !.closed = FALSE]
        PROVE  /\ Reports(body, s)
               /\ \A i \in 1..(Len(body.members) - 1) : body.members[i] = ms[i]
    <2> DEFINE cut == SubSeq(ms, 1, n - 1)
               last == Number(ms[n][1], v)
    <2>1. body.members = Append(cut, last) /\ body.closed = FALSE  BY <1>8, <1>10
    <2>2. Len(cut) = n - 1 /\ \A i \in 1..(n - 1) : cut[i] = ms[i]
      BY <1>5, <1>6, SubSeqProperties
    <2>3. /\ Len(body.members) = n /\ body.members[n] = last
          /\ \A i \in 1..(n - 1) : body.members[i] = ms[i]
      BY <1>5, <1>6, <2>1, <2>2, AppendProperties, SubSeqProperties
    <2>4. \E key \in NumberKeys : \E k \in 0..s[FieldOf[key]] : last = Number(key, k)
      <3>1. PICK key \in NumberKeys : ms[n] = Number(key, s[FieldOf[key]])
        BY <1>10, NumbersSent
      <3>2. ms[n][1] = key /\ ms[n][3] = s[FieldOf[key]]  BY <3>1 DEF Number
      <3>3. s[FieldOf[key]] \in Nat  BY StateFields, BoundAssumption
      <3>4. v \in 0..s[FieldOf[key]]  BY <3>2, <3>3 DEF Shortened
      <3> QED  BY <3>2, <3>4
    <2> QED  BY <1>1, <1>6, <2>1, <2>3, <2>4 DEF Reports
  <1>11. body \in Cuts(sent) =>
            /\ Reports(body, s)
            /\ \A i \in 1..(Len(body.members) - 1) : body.members[i] = ms[i]
    BY <1>9, <1>10 DEF Cuts
  <1>12. ASSUME NEW n \in 1..Len(ms),
                body = [sent EXCEPT !.members = SubSeq(@, 1, n - 1) \o SubSeq(@, n + 1, Len(@))]
         PROVE  Reports(body, s) /\ body.closed
    <2> DEFINE a == SubSeq(ms, 1, n - 1)
               b == SubSeq(ms, n + 1, Len(ms))
    <2>1. body.members = a \o b /\ body.closed = sent.closed  BY <1>8, <1>12
    <2>2. /\ a \in Seq(M) /\ Len(a) = n - 1 /\ \A i \in 1..(n - 1) : a[i] = ms[i]
          /\ b \in Seq(M) /\ Len(b) = Len(ms) - n
          /\ \A i \in 1..(Len(ms) - n) : b[i] = ms[n + i]
      <3>1. Len(ms) = 1 \/ Len(ms) = 2  BY <1>6
      <3>2. /\ a = SubSeq(ms, 1, n - 1) /\ b = SubSeq(ms, n + 1, Len(ms))
            /\ n = 1 \/ (n = 2 /\ Len(ms) = 2)
        BY <3>1
      <3> HIDE DEF a, b
      <3> QED  BY <1>5, <3>1, <3>2, SubSeqProperties
    <2> HIDE DEF a, b
    <2>3. /\ Len(body.members) = Len(a) + Len(b)
          /\ \A i \in 1..(Len(a) + Len(b)) :
                body.members[i] = IF i <= Len(a) THEN a[i] ELSE b[i - Len(a)]
      <3>1. a \in Seq(M) /\ b \in Seq(M)  BY ONLY <2>2
      <3>2. /\ Len(a \o b) = Len(a) + Len(b)
            /\ \A i \in 1..(Len(a) + Len(b)) :
                  (a \o b)[i] = IF i <= Len(a) THEN a[i] ELSE b[i - Len(a)]
        BY ONLY <3>1, ConcatProperties
      <3> QED  BY ONLY <2>1, <3>2
    <2>4. Len(body.members) = Len(ms) - 1 /\ Len(body.members) \in 0..2
      <3>1. \A l \in 0..2 : \A m \in 1..l : (m - 1) + (l - m) = l - 1 /\ l - 1 \in 0..2
        OBVIOUS
      <3> QED  BY ONLY <1>6, <1>12, <2>2, <2>3, <3>1
    <2>5. \A i \in 1..Len(body.members) :
             \E j \in 1..Len(ms) : body.members[i] = ms[j]
      <3> TAKE i \in 1..Len(body.members)
      <3>0. Len(ms) \in Nat  BY <1>6
      <3>a. n \in 1..Len(ms) /\ i \in 1..(Len(ms) - 1)  BY <1>12, <2>4
      <3>b. Len(a) = n - 1 /\ Len(a) + Len(b) = Len(ms) - 1  BY ONLY <2>2, <3>0, <3>a
      <3>c. body.members[i] = IF i <= n - 1 THEN a[i] ELSE b[i - (n - 1)]
        BY ONLY <2>3, <3>a, <3>b
      <3>1. CASE i < n
        <4>1. i \in 1..Len(ms) /\ i \in 1..(n - 1) /\ i <= n - 1  BY ONLY <3>0, <3>a, <3>1
        <4>2. body.members[i] = ms[i]  BY ONLY <2>2, <3>c, <4>1
        <4> QED  BY <4>1, <4>2
      <3>2. CASE ~(i < n)
        <4>1. /\ i - (n - 1) \in 1..(Len(ms) - n) /\ ~(i <= n - 1)
              /\ n + (i - (n - 1)) \in 1..Len(ms)
          BY ONLY <3>0, <3>a, <3>2
        <4>2. body.members[i] = ms[n + (i - (n - 1))]  BY ONLY <2>2, <3>c, <4>1
        <4> QED  BY <4>1, <4>2
      <3> QED  BY <3>1, <3>2
    <2> QED  BY <1>1, <2>1, <2>4, <2>5 DEF Reports
  <1>13. ASSUME NEW n \in 1..Len(ms), body = [sent EXCEPT !.members[n] = NullOf(@[1])]
         PROVE  Reports(body, s) /\ body.closed
    <2>1. body.members = [ms EXCEPT ![n] = NullOf(@[1])] /\ body.closed = sent.closed
      BY <1>8, <1>13
    <2>2. ms[n][1] \in NumberKeys
      <3>1. PICK key \in NumberKeys : ms[n] = Number(key, s[FieldOf[key]])
        BY <1>13, NumbersSent
      <3> QED  BY <3>1 DEF Number
    <2>3. /\ Len(body.members) = Len(ms) /\ body.members[n] = NullOf(ms[n][1])
          /\ \A i \in 1..Len(ms) : i # n => body.members[i] = ms[i]
      BY <1>5, <2>1, <2>2, ExceptSeq
    <2> QED  BY <1>1, <2>1, <2>2, <2>3 DEF Reports
  <1>14. body \in Lacking(sent) => Reports(body, s) /\ body.closed
    BY <1>12, <1>13 DEF Lacking
  <1>15. NoBody.members = <<>> /\ Object(<<Foreign>>).closed  BY DEF NoBody, Object
  <1> QED  BY <1>2, <1>3, <1>11, <1>14, <1>15 DEF Damaged

-----------------------------------------------------------------------------
(* What the calls return *)

LEMMA WholeLookup ==
    ASSUME NEW s \in States, NEW body, Reports(body, s), NEW key \in NumberKeys,
           \E j \in 1..Len(body.members) : body.members[j] = Number(key, s[FieldOf[key]]),
           \A j \in 1..Len(body.members) : \A n :
               body.members[j] = Number(key, n) => n = s[FieldOf[key]]
    PROVE  /\ GetUint64(body, key, 0) = [ret |-> TRUE, out |-> s[FieldOf[key]]]
           /\ GetInt(body, key, 0).out = s[FieldOf[key]] \/ s[FieldOf[key]] > Exact
  <1>1. s[FieldOf[key]] \in 0..s[FieldOf[key]]  BY StateFields, BoundAssumption
  <1>2. PICK j \in 1..Len(body.members) : body.members[j] = Number(key, s[FieldOf[key]])
    OBVIOUS
  <1>4. ASSUME NEW kinds, "num" \in kinds, "str" \notin kinds, "null" \notin kinds
        PROVE  LET i == Hit(body, key, kinds) IN
               i # 0 /\ At(body, i).kind = "num" /\ At(body, i).val = s[FieldOf[key]]
    <2> DEFINE i == Hit(body, key, kinds)
    <2>1. \/ i = 0 /\ \A k \in 1..Len(body.members) : \A n : body.members[k] # Number(key, n)
          \/ /\ i \in 1..Len(body.members)
             /\ At(body, i) = [key |-> key, kind |-> "num", val |-> At(body, i).val]
             /\ body.members[i] = Number(key, At(body, i).val)
      BY <1>4, Lookup
    <2>2. Len(body.members) \in Nat  BY DEF Reports
    <2> HIDE DEF i
    <2>3. /\ i \in 1..Len(body.members)
          /\ At(body, i) = [key |-> key, kind |-> "num", val |-> At(body, i).val]
          /\ body.members[i] = Number(key, At(body, i).val)
      BY <1>2, <2>1
    <2>4. i # 0  BY <2>2, <2>3
    <2>5. At(body, i).kind = "num"  BY <2>3
    <2>6. At(body, i).val = s[FieldOf[key]]  BY <2>3
    <2> QED  BY <2>4, <2>5, <2>6 DEF i
  <1>5. GetUint64(body, key, 0) = [ret |-> TRUE, out |-> s[FieldOf[key]]]
    <2>1. LET i == Hit(body, key, {"num", "frac"}) IN
          i # 0 /\ At(body, i).kind = "num" /\ At(body, i).val = s[FieldOf[key]]
      BY <1>4
    <2> QED  BY <2>1 DEF GetUint64
  <1>6. GetInt(body, key, 0).out = s[FieldOf[key]] \/ s[FieldOf[key]] > Exact
    <2>1. LET i == Hit(body, key, {"num", "frac", "neg"}) IN
          i # 0 /\ At(body, i).val = s[FieldOf[key]]
      BY <1>4
    <2>2. s[FieldOf[key]] \in 0..Top  BY StateFields
    <2>3. GetInt(body, key, 0).out = AsDouble(s[FieldOf[key]])
      BY <2>1 DEF GetInt, GetNumber
    <2> QED  BY <2>2, <2>3, Doubles
  <1> QED  BY <1>5, <1>6

(* A whole reply is decoded to fields of the state it reports.               *)
LEMMA WholeDecode ==
    ASSUME NEW s \in States, NEW op \in Ops, NEW sent \in Bodies(op, s)
    PROVE  /\ Decode(op, sent, 0) # Threw
           /\ \A f \in DOMAIN Decode(op, sent, 0) :
                 Decode(op, sent, 0)[f] = s[f] \/ (f \in {"rows", "tables"} /\ s[f] > Exact)
           /\ DOMAIN Decode(op, sent, 0) \subseteq {"window", "earliest", "rows", "tables"}
  <1>0. Reports(sent, s)  BY BodiesReport
  <1>1. /\ FieldOf["history_retention_epochs"] = "window"
        /\ FieldOf["earliest_retained_epoch"] = "earliest"
        /\ FieldOf["count"] = "rows" /\ FieldOf["table_id"] = "tables"
    BY DEF FieldOf
  <1>3. CASE op \in PairOps
    <2> DEFINE w == Number("history_retention_epochs", s.window)
               e == Number("earliest_retained_epoch", s.earliest)
    <2>1. \/ sent = Object(<<w, e>>) \/ sent = Object(<<e, w>>)  BY <1>3 DEF Bodies
    <2>2. /\ \E j \in 1..Len(sent.members) : sent.members[j] = w
          /\ \E j \in 1..Len(sent.members) : sent.members[j] = e
          /\ \A j \in 1..Len(sent.members) : sent.members[j] \in {w, e}
      <3> HIDE DEF w, e
      <3>1. ASSUME NEW a, NEW b, sent = Object(<<a, b>>)
            PROVE  /\ Len(sent.members) = 2 /\ sent.members[1] = a /\ sent.members[2] = b
        BY <3>1 DEF Object
      <3> QED  BY <2>1, <3>1
    <2>3. GetUint64(sent, "history_retention_epochs", 0) = [ret |-> TRUE, out |-> s.window]
      <3>1. \A n : Number("history_retention_epochs", n) # e
        BY DEF Number
      <3>2. \A n : Number("history_retention_epochs", n) = w => n = s.window  BY DEF Number
      <3> HIDE DEF e
      <3> QED  BY <1>0, <1>1, <2>2, <3>1, <3>2, WholeLookup DEF NumberKeys
    <2>4. GetUint64(sent, "earliest_retained_epoch", 0) = [ret |-> TRUE, out |-> s.earliest]
      <3>1. \A n : Number("earliest_retained_epoch", n) # w
        BY DEF Number
      <3>2. \A n : Number("earliest_retained_epoch", n) = e => n = s.earliest  BY DEF Number
      <3> HIDE DEF w
      <3> QED  BY <1>0, <1>1, <2>2, <3>1, <3>2, WholeLookup DEF NumberKeys
    <2>5. DecodeHistoryRetention(sent, 0) = [window |-> s.window, earliest |-> s.earliest]
      BY <2>3, <2>4 DEF DecodeHistoryRetention
    <2>6. DecodeHistoryRetention(sent, 0) # Threw
      <3>1. \A a, b : [window |-> a, earliest |-> b] # Threw  BY ONLY TRUE DEF Threw
      <3> QED  BY <2>5, <3>1
    <2> QED  BY <1>3, <2>5, <2>6 DEF Decode, Getter, PairOps, Threw
  <1>4. CASE op = "count"
    <2>1. /\ Len(sent.members) = 1 /\ sent.members[1] = Number("count", s.rows)
      BY <1>4 DEF Bodies, Object, PairOps
    <2>2. \A n : Number("count", n) = Number("count", s.rows) => n = s.rows  BY DEF Number
    <2>3. GetInt(sent, "count", 0).out = s.rows \/ s.rows > Exact
      BY <1>0, <1>1, <2>1, <2>2, WholeLookup DEF NumberKeys
    <2> QED  BY <1>4, <2>3 DEF Decode, PairOps, Threw
  <1>5. CASE op = "create"
    <2>1. /\ Len(sent.members) = 1 /\ sent.members[1] = Number("table_id", s.tables)
      BY <1>5 DEF Bodies, Object, PairOps
    <2>2. \A n : Number("table_id", n) = Number("table_id", s.tables) => n = s.tables
      BY DEF Number
    <2>3. GetInt(sent, "table_id", 0).out = s.tables \/ s.tables > Exact
      BY <1>0, <1>1, <2>1, <2>2, WholeLookup DEF NumberKeys
    <2> QED  BY <1>5, <2>3 DEF Decode, PairOps, Threw
  <1> QED  BY <1>3, <1>4, <1>5 DEF Ops

(* A damaged one to natural numbers.                                         *)
LEMMA AnyDecode ==
    ASSUME NEW s \in States, NEW op \in Ops, NEW body, Reports(body, s)
    PROVE  \A f \in DOMAIN Decode(op, body, 0) : Decode(op, body, 0)[f] \in Nat
  <1>3. DOMAIN Threw = {}  BY DEF Threw
  <1> DEFINE p == DecodeHistoryRetention(body, 0)
  <1>4. \/ p = Threw
        \/ /\ p = [window |-> p.window, earliest |-> p.earliest]
           /\ p.window \in Nat /\ p.earliest \in Nat
    BY LookupsBounded DEF DecodeHistoryRetention, NumberKeys
  <1>5. GetInt(body, "count", 0).out \in Nat  BY LookupsBounded DEF NumberKeys
  <1>6. GetInt(body, "table_id", 0).out \in Nat
    BY LookupsBounded DEF NumberKeys
  <1> HIDE DEF p
  <1>7. CASE op \in {"retention", "set"}
    <2>1. Decode(op, body, 0) = p  BY <1>7 DEF Decode, p
    <2> QED  BY <1>3, <1>4, <2>1
  <1>8. CASE op \in {"epochs", "earliest"}
    <2>1. Decode(op, body, 0) = Getter(op, p)  BY <1>8 DEF Decode, PairOps, p
    <2>2. \/ Decode(op, body, 0) = Threw
          \/ Decode(op, body, 0) = [window |-> p.window] /\ p # Threw
          \/ Decode(op, body, 0) = [earliest |-> p.earliest] /\ p # Threw
      BY <2>1 DEF Getter
    <2> QED  BY <1>3, <1>4, <2>2
  <1>9. CASE op = "count"
    <2>1. Decode(op, body, 0) = [rows |-> GetInt(body, "count", 0).out]
      BY <1>9 DEF Decode, PairOps
    <2> QED  BY <1>5, <2>1
  <1>10. CASE op = "create"
    <2>1. Decode(op, body, 0) = [tables |-> GetInt(body, "table_id", 0).out]
      BY <1>10 DEF Decode, PairOps
    <2> QED  BY <1>6, <2>1
  <1> QED  BY <1>7, <1>8, <1>9, <1>10 DEF Ops, PairOps

LEMMA FirstFound ==
    ASSUME NEW s \in States, NEW body, Reports(body, s), NEW key \in NumberKeys,
           1 \in 1..Len(body.members), body.members[1] = Number(key, s[FieldOf[key]])
    PROVE  GetUint64(body, key, 0) = [ret |-> TRUE, out |-> s[FieldOf[key]]]
  <1> DEFINE I == {i \in 1..Len(body.members) :
                      At(body, i).key = key /\ At(body, i).kind \in {"num", "frac"}}
  <1>1. s[FieldOf[key]] \in 0..s[FieldOf[key]]  BY StateFields, BoundAssumption
  <1>2. At(body, 1) = [key |-> key, kind |-> "num", val |-> s[FieldOf[key]]]
    BY <1>1, MemberOf DEF At
  <1>3. 1 \in I  BY <1>2
  <1>4. I \in SUBSET {1, 2}  BY DEF Reports
  <1>5. Hit(body, key, {"num", "frac"}) = First(I)  BY DEF Hit
  <1> HIDE DEF I
  <1>6. Hit(body, key, {"num", "frac"}) = 1  BY <1>3, <1>4, <1>5, FirstProperties
  <1>7. At(body, 1).kind = "num" /\ At(body, 1).val = s[FieldOf[key]]  BY ONLY <1>2
  <1>8. LET i == Hit(body, key, {"num", "frac"}) IN
        i # 0 /\ At(body, i).kind = "num" /\ At(body, i).val = s[FieldOf[key]]
    BY ONLY <1>6, <1>7
  <1> QED  BY <1>8 DEF GetUint64

(* A body that breaks off behind both numbers starts as the whole one does.  *)
LEMMA FirstIsWhole ==
    ASSUME NEW s \in States, NEW op \in PairOps, NEW sent \in Bodies(op, s),
           NEW body \in Damaged(sent), ~body.closed, Reports(body, s),
           NEW key \in PairKeys, NEW other \in PairKeys, key # other,
           Stands(key, body) = 1, Stands(other, body) # 0
    PROVE  1 \in 1..Len(body.members) /\ body.members[1] = Number(key, s[FieldOf[key]])
  <1>0. op \in Ops /\ key \in NumberKeys /\ other \in NumberKeys
    BY DEF Ops, PairKeys, NumberKeys
  <1>1. Len(body.members) \in 0..2  BY DEF Reports
  <1> DEFINE h == Stands(other, body)
  <1>2. 1 \in 1..Len(body.members) /\ \E n : body.members[1] = Number(key, n)
    <2> DEFINE g == Stands(key, body)
    <2>1. \/ g = 0
          \/ g \in 1..Len(body.members) /\ \E n : body.members[g] = Number(key, n)
      BY <1>0, Lookup DEF Stands
    <2>2. g = 1  OBVIOUS
    <2> HIDE DEF g
    <2> QED  BY <2>1, <2>2
  <1>3. h \in 1..Len(body.members) /\ \E n : body.members[h] = Number(other, n)
    <2>1. \/ h = 0
          \/ h \in 1..Len(body.members) /\ \E n : body.members[h] = Number(other, n)
      BY <1>0, Lookup DEF Stands
    <2> HIDE DEF h
    <2>2. h # 0  BY DEF h
    <2> QED  BY <2>1, <2>2
  <1> HIDE DEF h
  <1>4. \A k, l, m, n : Number(k, m) = Number(l, n) => k = l /\ m = n  BY DEF Number
  <1>5. Len(body.members) = 2
    <2>1. h # 1  BY <1>2, <1>3, <1>4
    <2> QED  BY <1>1, <1>3, <2>1
  <1>6. body \in Cuts(sent)
    <2>1. body.members # <<>>
      <3>1. Len(<<>>) = 0  OBVIOUS
      <3>2. \A ms : ms = <<>> => Len(ms) = 0  BY ONLY <3>1
      <3>3. 2 # 0  OBVIOUS
      <3> QED  BY ONLY <1>5, <3>2, <3>3
    <2> QED  BY <1>0, <2>1, DamagedReport
  <1>7. body.members[1] = sent.members[1]
    <2>1. \A i \in 1..(Len(body.members) - 1) : body.members[i] = sent.members[i]
      BY <1>0, <1>6, DamagedReport
    <2> QED  BY <1>5, <2>1
  <1>8. 1 \in 1..Len(sent.members)
    <2>1. ASSUME NEW a, NEW b, sent = Object(<<a, b>>) PROVE Len(sent.members) = 2
      BY ONLY <2>1 DEF Object
    <2>2. \E a, b : sent = Object(<<a, b>>)  BY DEF Bodies
    <2>3. Len(sent.members) = 2  BY ONLY <2>1, <2>2
    <2> QED  BY ONLY <2>3
  <1>9. PICK k \in NumberKeys : sent.members[1] = Number(k, s[FieldOf[k]])
    BY <1>0, <1>8, NumbersSent
  <1>10. k = key
    <2>1. PICK n : body.members[1] = Number(key, n)  BY <1>2
    <2> QED  BY ONLY <1>4, <1>7, <1>9, <2>1
  <1> QED  BY <1>2, <1>7, <1>9, <1>10

(* A pair is decoded from a body that breaks off only if both numbers stand  *)
(* in it, and the one that stands first is that of the state.                *)
LEMMA BrokenOffDecode ==
    ASSUME NEW s \in States, NEW op \in PairOps, NEW sent \in Bodies(op, s),
           NEW body \in {sent} \cup Damaged(sent), ~body.closed,
           Decode(op, body, 0) # Threw, NEW key \in PairKeys
    PROVE  /\ Stands(key, body) # 0
           /\ Stands(key, body) = 1 /\ FieldOf[key] \in DOMAIN Decode(op, body, 0)
                 => Decode(op, body, 0)[FieldOf[key]] = s[FieldOf[key]]
  <1>0. op \in Ops /\ key \in NumberKeys  BY DEF Ops, PairKeys, NumberKeys
  <1>1. Reports(body, s) /\ body # sent  BY <1>0, BodiesReport, DamagedReport
  <1>2. DecodeHistoryRetention(body, 0) # Threw  BY DEF Decode, PairOps, Getter
  <1>3. \A k \in PairKeys : GetUint64(body, k, 0).ret
    BY <1>2 DEF DecodeHistoryRetention, PairKeys
  <1>4. \A k \in PairKeys : Stands(k, body) # 0
    BY <1>1, <1>3, LookupsBounded DEF PairKeys, NumberKeys
  <1>5. ASSUME Stands(key, body) = 1, FieldOf[key] \in DOMAIN Decode(op, body, 0)
        PROVE  Decode(op, body, 0)[FieldOf[key]] = s[FieldOf[key]]
    <2> DEFINE u == GetUint64(body, key, 0).out
    <2>1. PICK other \in PairKeys : key # other  BY DEF PairKeys
    <2>2. 1 \in 1..Len(body.members) /\ body.members[1] = Number(key, s[FieldOf[key]])
      BY <1>1, <1>4, <1>5, <2>1, FirstIsWhole
    <2>3. u = s[FieldOf[key]]  BY <1>0, <1>1, <2>2, FirstFound
    <2>4. Decode(op, body, 0)[FieldOf[key]] = u
      <3> DEFINE p == DecodeHistoryRetention(body, 0)
                 a == GetUint64(body, "history_retention_epochs", 0)
                 b == GetUint64(body, "earliest_retained_epoch", 0)
      <3>1. p = [window |-> a.out, earliest |-> b.out] /\ p # Threw
        BY <1>2 DEF DecodeHistoryRetention
      <3>2. p[FieldOf[key]] = u  BY <3>1 DEF PairKeys, FieldOf
      <3>3. Decode(op, body, 0) \in {p, [window |-> p.window], [earliest |-> p.earliest]}
        BY <3>1 DEF Decode, Getter, PairOps
      <3>4. FieldOf[key] \in {"window", "earliest"}  BY DEF PairKeys, FieldOf
      <3> HIDE DEF p, u
      <3> QED  BY <1>5, <3>2, <3>3, <3>4
    <2> QED  BY <2>3, <2>4
  <1> QED  BY <1>4, <1>5

-----------------------------------------------------------------------------
(* The inductive invariant *)

Types ==
    /\ daemon \in States /\ daemon.rows <= daemon.epoch
    /\ late \subseteq Windows
    /\ at \in [Callers -> {"idle", "sent", "served"}]
    /\ call \in [Callers -> [op : Ops, arg : Windows]]
    /\ reply \in [Callers -> States] /\ seen \in [Callers -> SUBSET States]
    /\ floor \in [Callers -> Nat] /\ told \in Nat /\ calls \in 0..MaxCalls

(* A reply reports a state of the call it answers.                           *)
Replied ==
    \A c \in Callers : at[c] = "served" =>
        reply[c] \in seen[c] /\ (call[c].op = "set" => reply[c].window = call[c].arg)

(* The earliest epoch only moves on, so all that a call sees lies between    *)
(* what had been told before it and what holds now.                          *)
MovesOn ==
    /\ told <= daemon.earliest
    /\ \A c \in Callers :
          /\ at[c] # "idle" => daemon \in seen[c]
          /\ \A s \in seen[c] : floor[c] <= s.earliest /\ s.earliest <= daemon.earliest

IInv == Types /\ Replied /\ MovesOn

LEMMA NumbersAreNat == ASSUME NEW s \in States
                       PROVE  /\ s.window \in Nat /\ s.earliest \in Nat /\ s.epoch \in Nat
                              /\ s.window \in Windows
  <1>1. \A k \in 0..Top : k \in Nat  BY BoundAssumption
  <1> QED  BY <1>1, WindowAssumption DEF States

LEMMA Prunes ==
    ASSUME NEW s \in States, s.rows <= s.epoch
    PROVE  /\ Pruned(s) \in States /\ Pruned(s).earliest >= s.earliest
           /\ Pruned(s).window = s.window /\ Pruned(s).rows <= Pruned(s).epoch
  <1> DEFINE low == s.epoch - s.window
             e == IF s.epoch > s.window + s.earliest THEN low ELSE s.earliest
  <1>1. s = [window |-> s.window, earliest |-> s.earliest, epoch |-> s.epoch, rows |-> s.rows,
             tables |-> s.tables]
    BY DEF States
  <1>2. Pruned(s) = [window |-> s.window, earliest |-> e, epoch |-> s.epoch, rows |-> s.rows,
                     tables |-> s.tables]
    BY <1>1 DEF Pruned
  <1>3. e \in 0..Top /\ e >= s.earliest
    <2>1. s.epoch \in 0..Top /\ s.earliest \in 0..Top  BY DEF States
    <2>2. s.window \in Nat  BY NumbersAreNat
    <2> QED  BY <2>1, <2>2, BoundAssumption
  <1> HIDE DEF e
  <1> QED  BY <1>2, <1>3 DEF States

LEMMA Resizes ==
    ASSUME NEW s \in States, s.rows <= s.epoch, NEW n \in Windows
    PROVE  /\ Resized(s, n) \in States /\ Resized(s, n).earliest >= s.earliest
           /\ Resized(s, n).window = n /\ Resized(s, n).rows <= Resized(s, n).epoch
  <1> DEFINE r == [s EXCEPT !.window = n]
  <1>1. r \in States /\ r.rows <= r.epoch /\ r.window = n /\ r.earliest = s.earliest
    BY DEF States
  <1> HIDE DEF r
  <1>2. Resized(s, n) = Pruned(r)  BY DEF Resized, r
  <1> QED  BY <1>1, <1>2, Prunes

LEMMA InitInv == Init => IInv
  <1> SUFFICES ASSUME Init PROVE IInv  OBVIOUS
  <1>1. FirstState \in States /\ FirstState.rows <= FirstState.epoch /\ FirstState.earliest = 0
    BY WindowAssumption, EpochAssumption, BoundAssumption DEF FirstState, States
  <1>2. NoCall \in [op : Ops, arg : Windows]  BY WindowAssumption DEF NoCall, Ops
  <1> QED  BY <1>1, <1>2, BoundAssumption DEF Init, IInv, Types, Replied, MovesOn

(* The daemon enters a state with no earlier history.                        *)
LEMMA BecomesStep ==
    ASSUME IInv, NEW s \in States, s.rows <= s.epoch, s.earliest >= daemon.earliest,
           Becomes(s)
    PROVE  /\ daemon' \in States /\ daemon'.rows <= daemon'.epoch
           /\ seen' \in [Callers -> SUBSET States]
           /\ told <= daemon'.earliest
           /\ \A c \in Callers :
                 /\ seen[c] \subseteq seen'[c]
                 /\ at[c] # "idle" => daemon' \in seen'[c]
                 /\ \A t \in seen'[c] : floor[c] <= t.earliest /\ t.earliest <= daemon'.earliest
  <1> USE DEF IInv, Types
  <1>1. daemon' = s /\ daemon.earliest \in Nat /\ s.earliest \in Nat
    BY NumbersAreNat DEF Becomes
  <1>2. \A c \in Callers : seen'[c] = IF at[c] = "idle" THEN seen[c] ELSE seen[c] \cup {s}
    BY DEF Becomes
  <1>3. \A c \in Callers : \A t \in seen'[c] :
           floor[c] <= t.earliest /\ t.earliest <= s.earliest
    <2> SUFFICES ASSUME NEW c \in Callers, NEW t \in seen'[c]
                 PROVE  floor[c] <= t.earliest /\ t.earliest <= s.earliest
      OBVIOUS
    <2>1. CASE t \in seen[c]
      <3>1. t.earliest \in Nat /\ floor[c] \in Nat  BY <2>1, NumbersAreNat
      <3>2. floor[c] <= t.earliest /\ t.earliest <= daemon.earliest  BY <2>1 DEF MovesOn
      <3> QED  BY <1>1, <3>1, <3>2
    <2>2. CASE t \notin seen[c]
      <3>1. t = s /\ at[c] # "idle"  BY <1>2, <2>2
      <3>2. floor[c] <= daemon.earliest /\ floor[c] \in Nat  BY <3>1 DEF MovesOn
      <3> QED  BY <1>1, <3>1, <3>2
    <2> QED  BY <2>1, <2>2
  <1>4. told <= s.earliest  BY <1>1 DEF MovesOn
  <1>5. seen' \in [Callers -> SUBSET States]  BY DEF Becomes
  <1> QED  BY <1>1, <1>2, <1>3, <1>4, <1>5

(* What a call that was served may return.                                   *)
LEMMA AnswerOf ==
    ASSUME IInv, NEW c \in Callers, at[c] = "served", NEW r \in Answers(c)
    PROVE  /\ r.whole => /\ r.answer # Threw
                         /\ \A f \in DOMAIN r.answer :
                               \/ r.answer[f] = reply[c][f]
                               \/ f \in {"rows", "tables"} /\ reply[c][f] > Exact
           /\ \A f \in DOMAIN r.answer : r.answer[f] \in Nat
  <1> DEFINE s == reply[c]
             op == call[c].op
  <1>1. s \in States /\ op \in Ops  BY DEF IInv, Types
  <1> HIDE DEF s, op
  <1>2. PICK sent \in Bodies(op, s) : \E body \in {sent} \cup Damaged(sent) :
           r = [answer |-> Decode(op, body, 0), body |-> body, whole |-> body = sent]
    BY DEF Answers, Fresh, s, op
  <1>3. PICK body \in {sent} \cup Damaged(sent) :
           r = [answer |-> Decode(op, body, 0), body |-> body, whole |-> body = sent]
    BY <1>2
  <1>4. r.answer = Decode(op, body, 0) /\ r.whole = (body = sent)  BY <1>3
  <1>5. Reports(body, s)  BY <1>1, BodiesReport, DamagedReport
  <1>6. \A f \in DOMAIN r.answer : r.answer[f] \in Nat
    BY <1>1, <1>4, <1>5, AnyDecode
  <1>7. ASSUME r.whole
        PROVE  /\ r.answer # Threw
               /\ \A f \in DOMAIN r.answer :
                     r.answer[f] = s[f] \/ (f \in {"rows", "tables"} /\ s[f] > Exact)
    <2>1. body = sent  BY <1>4, <1>7
    <2>2. r.answer = Decode(op, sent, 0)  BY <1>4, <2>1
    <2> QED  BY <1>1, <2>2, WholeDecode
  <1> QED  BY <1>6, <1>7 DEF s

LEMMA Inductive == IInv /\ [Next]_vars => IInv'
  <1> SUFFICES ASSUME IInv, [Next]_vars PROVE IInv'  OBVIOUS
  <1> USE DEF IInv, Types
  <1>0. NoCall \in [op : Ops, arg : Windows] /\ NoCall.op # "set"
    BY WindowAssumption DEF NoCall, Ops
  <1>1. ASSUME NEW s \in States, s.rows <= s.epoch, s.earliest = daemon.earliest, Works(s)
        PROVE  IInv'
    <2>1. /\ Pruned(s) \in States /\ Pruned(s).rows <= Pruned(s).epoch
          /\ Pruned(s).earliest >= daemon.earliest
      BY <1>1, Prunes
    <2>2. Becomes(Pruned(s)) /\ UNCHANGED <<late, caller>>  BY <1>1 DEF Works
    <2> HIDE DEF IInv
    <2>3. /\ daemon' \in States /\ daemon'.rows <= daemon'.epoch
          /\ seen' \in [Callers -> SUBSET States] /\ told <= daemon'.earliest
          /\ \A c \in Callers :
                /\ seen[c] \subseteq seen'[c] /\ (at[c] # "idle" => daemon' \in seen'[c])
                /\ \A t \in seen'[c] :
                      floor[c] <= t.earliest /\ t.earliest <= daemon'.earliest
      BY <2>1, <2>2, BecomesStep
    <2> QED  BY <2>2, <2>3 DEF IInv, Replied, MovesOn, caller
  <1>2. CASE CommitPut
    <2> DEFINE s == [daemon EXCEPT !.epoch = @ + 1, !.rows = @ + 1]
    <2>1. daemon.epoch < Top /\ daemon.epoch \in 0..Top /\ daemon.rows \in 0..Top
      BY <1>2 DEF CommitPut, Works, States
    <2>2. daemon.epoch + 1 \in 0..Top /\ daemon.rows + 1 \in 0..Top
          /\ daemon.rows + 1 <= daemon.epoch + 1
      BY <2>1, BoundAssumption
    <2>3. s \in States /\ s.rows <= s.epoch /\ s.earliest = daemon.earliest
      BY <2>2 DEF States
    <2> QED  BY <1>1, <1>2, <2>3 DEF CommitPut
  <1>3. CASE CommitDelete
    <2> DEFINE s == [daemon EXCEPT !.epoch = @ + 1, !.rows = @ - 1]
    <2>1. /\ daemon.epoch < Top /\ daemon.epoch \in 0..Top /\ daemon.rows \in 0..Top
          /\ daemon.rows > 0
      BY <1>3 DEF CommitDelete, Works, States
    <2>2. daemon.epoch + 1 \in 0..Top /\ daemon.rows - 1 \in 0..Top
          /\ daemon.rows - 1 <= daemon.epoch + 1
      BY <2>1, BoundAssumption
    <2>3. s \in States /\ s.rows <= s.epoch /\ s.earliest = daemon.earliest
      BY <2>2 DEF States
    <2> QED  BY <1>1, <1>3, <2>3 DEF CommitDelete
  <1>4. CASE LatePut
    <2>1. PICK n \in late : Becomes(Resized(daemon, n)) /\ late' = late \ {n}
      BY <1>4 DEF LatePut
    <2>2. /\ Resized(daemon, n) \in States
          /\ Resized(daemon, n).rows <= Resized(daemon, n).epoch
          /\ Resized(daemon, n).earliest >= daemon.earliest
      BY <2>1, Resizes
    <2>3. UNCHANGED caller  BY <1>4 DEF LatePut
    <2> HIDE DEF IInv
    <2>4. /\ daemon' \in States /\ daemon'.rows <= daemon'.epoch
          /\ seen' \in [Callers -> SUBSET States] /\ told <= daemon'.earliest
          /\ \A c \in Callers :
                /\ seen[c] \subseteq seen'[c] /\ (at[c] # "idle" => daemon' \in seen'[c])
                /\ \A t \in seen'[c] :
                      floor[c] <= t.earliest /\ t.earliest <= daemon'.earliest
      BY <2>1, <2>2, BecomesStep
    <2> QED  BY <2>1, <2>3, <2>4 DEF IInv, Replied, MovesOn, caller
  <1>5. ASSUME NEW c \in Callers, Serve(c) PROVE IInv'
    <2> DEFINE s == Applied(call[c].op, call[c].arg, daemon)
    <2>1. call[c].arg \in Windows /\ call[c].op \in Ops  OBVIOUS
    <2>2. /\ s \in States /\ s.rows <= s.epoch /\ s.earliest >= daemon.earliest
          /\ call[c].op = "set" => s.window = call[c].arg
      <3>1. CASE call[c].op = "set"  BY <2>1, <3>1, Resizes DEF Applied
      <3>2. CASE call[c].op = "create"
        <4>1. daemon.tables + 1 \in 0..Top
          BY <1>5, <3>2, BoundAssumption DEF Serve, States
        <4>2. s = [daemon EXCEPT !.tables = @ + 1]  BY <3>2 DEF Applied
        <4>3. daemon.earliest \in Nat  BY NumbersAreNat
        <4> QED  BY <3>2, <4>1, <4>2, <4>3 DEF States
      <3>3. CASE call[c].op \notin {"set", "create"}
        <4>1. s = daemon  BY <3>3 DEF Applied
        <4>2. daemon.earliest \in Nat  BY NumbersAreNat
        <4> QED  BY <3>3, <4>1, <4>2
      <3> QED  BY <3>1, <3>2, <3>3
    <2> HIDE DEF s
    <2>3. /\ Becomes(s) /\ at[c] = "sent" /\ at' = [at EXCEPT ![c] = "served"]
          /\ reply' = [reply EXCEPT ![c] = daemon']
          /\ UNCHANGED <<late, call, floor, told, calls>>
      BY <1>5 DEF Serve, s
    <2>4. daemon' = s  BY <2>3 DEF Becomes
    <2>5. /\ daemon' \in States /\ daemon'.rows <= daemon'.epoch
          /\ seen' \in [Callers -> SUBSET States] /\ told <= daemon'.earliest
          /\ \A d \in Callers :
                /\ seen[d] \subseteq seen'[d] /\ (at[d] # "idle" => daemon' \in seen'[d])
                /\ \A t \in seen'[d] :
                      floor[d] <= t.earliest /\ t.earliest <= daemon'.earliest
      <3> HIDE DEF IInv
      <3> QED  BY <2>2, <2>3, BecomesStep
    <2>6. Types'  BY <2>3, <2>5
    <2>7. Replied'
      <3> SUFFICES ASSUME NEW d \in Callers, at'[d] = "served"
                   PROVE  reply'[d] \in seen'[d]
                          /\ (call'[d].op = "set" => reply'[d].window = call'[d].arg)
        BY DEF Replied
      <3>1. CASE d = c  BY <2>2, <2>3, <2>4, <2>5, <3>1
      <3>2. CASE d # c
        <4>1. at[d] = "served" /\ reply'[d] = reply[d] /\ call'[d] = call[d]  BY <2>3, <3>2
        <4> QED  BY <2>5, <4>1 DEF Replied
      <3> QED  BY <3>1, <3>2
    <2>8. MovesOn'  BY <2>3, <2>5 DEF MovesOn
    <2> QED  BY <2>6, <2>7, <2>8
  <1>6. ASSUME NEW c \in Callers, Ends(c), UNCHANGED <<daemon, calls>>,
               late' \subseteq Windows, told' \in Nat, told' <= daemon.earliest
        PROVE  IInv'
    <2>1. FirstState \in States
      BY WindowAssumption, EpochAssumption, BoundAssumption DEF FirstState, States
    <2>2. Types'  BY <1>0, <1>6, <2>1 DEF Ends
    <2>3. Replied'  BY <1>6 DEF Ends, Replied
    <2>4. MovesOn'
      <3> SUFFICES ASSUME NEW d \in Callers
                   PROVE  /\ at'[d] # "idle" => daemon \in seen'[d]
                          /\ \A s \in seen'[d] :
                                floor'[d] <= s.earliest /\ s.earliest <= daemon.earliest
        BY <1>6 DEF MovesOn
      <3>1. CASE d = c  BY <1>6, <3>1 DEF Ends
      <3>2. CASE d # c
        <4>1. at'[d] = at[d] /\ seen'[d] = seen[d] /\ floor'[d] = floor[d]
          BY <1>6, <3>2 DEF Ends
        <4> QED  BY <4>1 DEF MovesOn
      <3> QED  BY <3>1, <3>2
    <2> QED  BY <2>2, <2>3, <2>4
  <1>7. ASSUME NEW c \in Callers, Return(c) PROVE IInv'
    <2>1. PICK r \in Answers(c) :
             told' = IF Tells(r) /\ r.answer.earliest > told THEN r.answer.earliest ELSE told
      BY <1>7 DEF Return
    <2>2. at[c] = "served" /\ Ends(c) /\ UNCHANGED <<daemon, late, calls>>
      BY <1>7 DEF Return
    <2>3. CASE told' = told  BY <1>6, <2>2, <2>3 DEF MovesOn
    <2>4. CASE told' # told
      <3>1. Tells(r) /\ told' = r.answer.earliest  BY <2>1, <2>4
      <3>2. told' = reply[c].earliest
        BY <2>2, <3>1, AnswerOf DEF Tells
      <3>3. reply[c].earliest <= daemon.earliest /\ reply[c].earliest \in Nat
        BY <2>2, NumbersAreNat DEF Replied, MovesOn
      <3> QED  BY <1>6, <2>2, <3>2, <3>3
    <2> QED  BY <2>3, <2>4
  <1>8. ASSUME NEW c \in Callers, TimeOut(c) PROVE IInv'
    <2>1. late' \subseteq Windows  BY <1>8 DEF TimeOut
    <2> QED  BY <1>6, <1>8, <2>1 DEF TimeOut, MovesOn
  <1>9. ASSUME NEW c \in Callers, NEW op \in Ops, NEW arg \in Arguments(op), Call(c, op, arg)
        PROVE  IInv'
    <2>1. arg \in Windows  BY WindowAssumption DEF Arguments
    <2>2. /\ calls' = calls + 1 /\ calls < MaxCalls
          /\ at' = [at EXCEPT ![c] = "sent"]
          /\ call' = [call EXCEPT ![c] = [op |-> op, arg |-> arg]]
          /\ seen' = [seen EXCEPT ![c] = {daemon}] /\ floor' = [floor EXCEPT ![c] = told]
          /\ UNCHANGED <<daemon, late, reply, told>>
      BY <1>9 DEF Call
    <2>3. Types'  BY <2>1, <2>2, BoundAssumption
    <2>4. Replied'  BY <2>2 DEF Replied
    <2>5. MovesOn'
      <3>1. \A d \in Callers : d # c =>
               at'[d] = at[d] /\ seen'[d] = seen[d] /\ floor'[d] = floor[d]
        BY <2>2
      <3>2. seen'[c] = {daemon} /\ floor'[c] = told /\ daemon.earliest \in Nat
        BY <2>2, NumbersAreNat
      <3> QED  BY <2>2, <3>1, <3>2 DEF MovesOn
    <2> QED  BY <2>3, <2>4, <2>5
  <1>10. CASE UNCHANGED vars  BY <1>10 DEF vars, caller, Replied, MovesOn
  <1> QED  BY <1>2, <1>3, <1>4, <1>5, <1>7, <1>8, <1>9, <1>10 DEF Next

LEMMA Invariance == Spec => []IInv
  BY InitInv, Inductive, PTL DEF Spec

-----------------------------------------------------------------------------
(* The theorems *)

(* Every variable keeps its type, and no call returns a negative number,     *)
(* whatever arrives of its reply.                                            *)
THEOREM TypeCorrect == Spec => []TypeOK
  <1>1. ASSUME IInv, NEW c \in Returning, NEW r \in Answers(c), NEW f \in DOMAIN r.answer
        PROVE  r.answer[f] \in Nat
    BY <1>1, AnswerOf DEF Returning
  <1>2. IInv => TypeOK  BY <1>1 DEF IInv, Types, TypeOK
  <1> QED  BY <1>2, Invariance, PTL

(* The numbers of one call were true together at an instant of the call,     *)
(* for any number of callers, commits, resizes and late requests; a count or *)
(* a table id unless it is beyond the exact doubles.                         *)
THEOREM AnswersAreTrue == Spec => []WholeAnswersAreTrue
  <1>1. ASSUME IInv, NEW c \in Returning, NEW r \in Answers(c), r.whole
        PROVE  /\ r.answer # Threw
               /\ \E s \in seen[c] :
                     /\ \A f \in DOMAIN r.answer :
                           r.answer[f] = s[f] \/ (f \in {"rows", "tables"} /\ s[f] > Exact)
                     /\ call[c].op = "set" => s.window = call[c].arg
    <2>1. at[c] = "served" /\ c \in Callers  BY DEF Returning
    <2>2. reply[c] \in seen[c] /\ (call[c].op = "set" => reply[c].window = call[c].arg)
      BY <1>1, <2>1 DEF IInv, Replied
    <2>3. /\ r.answer # Threw
          /\ \A f \in DOMAIN r.answer :
                \/ r.answer[f] = reply[c][f]
                \/ f \in {"rows", "tables"} /\ reply[c][f] > Exact
      BY <1>1, <2>1, AnswerOf
    <2> QED  BY <2>2, <2>3
  <1>2. IInv => WholeAnswersAreTrue  BY <1>1 DEF WholeAnswersAreTrue
  <1> QED  BY <1>2, Invariance, PTL

(* No whole answer takes back what had been told before its call was made:   *)
(* the earliest epoch only moves on, in the daemon and in what is seen of it.*)
THEOREM HistoryStaysLost == Spec => []NothingComesBack
  <1>1. ASSUME IInv, NEW c \in Returning, NEW r \in Answers(c), Tells(r)
        PROVE  r.answer.earliest >= floor[c]
    <2>1. at[c] = "served" /\ c \in Callers  BY DEF Returning
    <2>2. r.answer.earliest = reply[c].earliest  BY <1>1, <2>1, AnswerOf DEF Tells
    <2>3. floor[c] <= reply[c].earliest /\ floor[c] \in Nat /\ reply[c].earliest \in Nat
      BY <1>1, <2>1, NumbersAreNat DEF IInv, Types, Replied, MovesOn
    <2> QED  BY <2>2, <2>3
  <1>2. IInv => NothingComesBack  BY <1>1 DEF NothingComesBack
  <1> QED  BY <1>2, Invariance, PTL

(* BrokenOffPairs, wherever in the text and in its digits a reply breaks     *)
(* off: a lookup that finds nothing succeeds on a closed object only, and a  *)
(* text that holds both numbers was cut behind the first of them.            *)
THEOREM PairsAreNotHalved == Spec => []BrokenOffPairs
  <1>1. ASSUME IInv, NEW c \in Returning, NEW r \in Answers(c), call[c].op \in PairOps,
               ~r.body.closed, r.answer # Threw, NEW key \in PairKeys
        PROVE  /\ Stands(key, r.body) # 0
               /\ Stands(key, r.body) = 1 /\ FieldOf[key] \in DOMAIN r.answer
                     => r.answer[FieldOf[key]] = reply[c][FieldOf[key]]
    <2> DEFINE s == reply[c]
               op == call[c].op
    <2>1. s \in States /\ op \in Ops /\ op \in PairOps  BY <1>1 DEF IInv, Types, Returning
    <2> HIDE DEF s, op
    <2>2. PICK sent \in Bodies(op, s) : \E body \in {sent} \cup Damaged(sent) :
             r = [answer |-> Decode(op, body, 0), body |-> body, whole |-> body = sent]
      BY DEF Answers, Fresh, s, op
    <2>3. PICK body \in {sent} \cup Damaged(sent) :
             r = [answer |-> Decode(op, body, 0), body |-> body, whole |-> body = sent]
      BY <2>2
    <2>4. r.answer = Decode(op, body, 0) /\ r.body = body  BY <2>3
    <2> QED  BY <1>1, <2>1, <2>3, <2>4, BrokenOffDecode DEF s
  <1>2. IInv => BrokenOffPairs  BY <1>1 DEF BrokenOffPairs
  <1> QED  BY <1>2, Invariance, PTL
=============================================================================
