------------------------- MODULE ReplyDecode_proofs -------------------------
(* Proofs about ReplyDecode, for any replies with any values in their cells  *)
(* and any damage to the text: the loops stay on the text, move on with      *)
(* every turn, and read what a whole or broken-off reply says; and what they *)
(* return of a reply that misses a token is nowhere read askew.              *)
EXTENDS ReplyDecode, SequenceTheorems, FiniteSetTheorems, WellFoundedInduction, TLAPS

-----------------------------------------------------------------------------
(* Induction by a least counterexample *)

LEMMA NatLess == IsWellFoundedOn({p \in Nat \X Nat : p[1] < p[2]}, Nat)
  BY NatLessThanWellFounded DEF OpToRel

LEMMA Least ==
    ASSUME NEW S, S \subseteq Nat, S # {}
    PROVE  \E n \in S : \A m \in S : n <= m
  <1> DEFINE R == {p \in Nat \X Nat : p[1] < p[2]}
  <1>1. IsWellFoundedOn(R, Nat)  BY NatLess
  <1> HIDE DEF R
  <1>2. \E x \in S : \A y \in S : <<y, x>> \notin R  BY <1>1, WFMin
  <1> USE DEF R
  <1>3. PICK x \in S : \A y \in S : <<y, x>> \notin R  BY <1>2
  <1>4. \A y \in S : ~(y < x)  BY <1>3
  <1> QED  BY <1>4

LEMMA Induct ==
    ASSUME NEW S, 0 \in S, \A n \in Nat : n \in S => n + 1 \in S
    PROVE  Nat \subseteq S
  <1> SUFFICES ASSUME Nat \ S # {} PROVE FALSE  OBVIOUS
  <1>1. PICK n \in Nat \ S : \A m \in Nat \ S : n <= m  BY Least
  <1>2. n # 0 /\ n - 1 \in Nat  BY <1>1
  <1>3. n - 1 \in S  BY <1>1, <1>2
  <1>4. (n - 1) + 1 \in S  BY <1>2, <1>3
  <1> QED  BY <1>1, <1>4

(* From the end of a text backwards.                                         *)
LEMMA InductBack ==
    ASSUME NEW n \in Nat, NEW S,
           \A p \in 0..n : (\A q \in 0..n : p < q => q \in S) => p \in S
    PROVE  0..n \subseteq S
  <1> DEFINE C == {b \in Nat : b <= n /\ n - b \notin S}
  <1> SUFFICES ASSUME NEW p \in 0..n, p \notin S PROVE FALSE  OBVIOUS
  <1>1. n - p \in C /\ C \subseteq Nat
    <2>1. n - p \in Nat /\ n - p <= n /\ n - (n - p) = p  OBVIOUS
    <2> QED  BY <2>1
  <1>2. PICK b \in C : \A c \in C : b <= c
    <2> HIDE DEF C
    <2> QED  BY <1>1, Least
  <1>3. n - b \in 0..n /\ n - b \notin S  OBVIOUS
  <1>4. ASSUME NEW q \in 0..n, n - b < q PROVE q \in S
    <2>1. SUFFICES ASSUME q \notin S PROVE FALSE  OBVIOUS
    <2>2. n - q \in Nat /\ n - q <= n /\ n - (n - q) = q /\ n - q < b  BY <1>4
    <2>3. n - q \in C  BY <2>1, <2>2
    <2> QED  BY <1>2, <2>2, <2>3
  <1> QED  BY <1>3, <1>4

-----------------------------------------------------------------------------
(* skip_value: the function Skip is there, and what it says at a position    *)

(* The cursor behind a separator at after and what follows it.               *)
Onward(t, skip, after, close) ==
    CASE Peek(t, after) = "comma" -> skip[after + 1][close]
      [] Peek(t, after) = close -> after + 1
      [] OTHER -> 0

(* The cursor behind the value of a container that opens at p.               *)
Within(t, skip, p, close) ==
    IF Peek(t, p + 1) = close THEN p + 2 ELSE skip[p + 1][close]

LEMMA PeekFacts ==
    ASSUME NEW t, Len(t) \in Nat, NEW p \in Int, Peek(t, p) # "nothing"
    PROVE  p \in 1..Len(t) /\ Peek(t, p) = t[p]
  BY DEF Peek

LEMMA AfterKeyBound ==
    ASSUME NEW t, Len(t) \in Nat, NEW p \in Int, AfterKey(t, p) # 0
    PROVE  /\ AfterKey(t, p) = p + 2 /\ p \in Nat /\ p + 2 \in 1..Len(t) + 1
           /\ Peek(t, p) \in Strings /\ Peek(t, p + 1) = "colon"
  <1>1. AfterKey(t, p) = p + 2 /\ Peek(t, p) \in Strings /\ Peek(t, p + 1) = "colon"
    BY DEF AfterKey
  <1>2. p + 1 \in 1..Len(t)
    <2>1. p + 1 \in Int /\ Peek(t, p + 1) # "nothing"  BY <1>1
    <2> QED  BY <2>1, PeekFacts
  <1>3. Peek(t, p) # "nothing"  BY <1>1, TokenAssumption DEF Tokens, Scalars
  <1>4. p \in 1..Len(t)  BY <1>3, PeekFacts
  <1> QED  BY <1>1, <1>2, <1>4

LEMMA SkipFromParts ==
    ASSUME NEW t, NEW skip, NEW p \in Nat
    PROVE  LET f == SkipFrom(t, skip, p) IN
           /\ f = [walk \in Walks |-> f[walk]]
           /\ Peek(t, p) \in Scalars => f["value"] = p + 1
           /\ Peek(t, p) = "lbrace" => f["value"] = Within(t, skip, p, "rbrace")
           /\ Peek(t, p) = "lbracket" => f["value"] = Within(t, skip, p, "rbracket")
           /\ Peek(t, p) \notin Scalars \cup {"lbrace", "lbracket"} => f["value"] = 0
           /\ AfterKey(t, p) = 0 => f["rbrace"] = Onward(t, skip, 0, "rbrace")
           /\ AfterKey(t, p) # 0 =>
                 f["rbrace"] = Onward(t, skip, skip[AfterKey(t, p)]["value"], "rbrace")
           /\ f["rbracket"] = Onward(t, skip, f["value"], "rbracket")
  BY TokenAssumption DEF SkipFrom, Walks, Tokens, Structure, Scalars, Within, Onward

(* A cursor behind p, or none.                                               *)
Behind(t, p, x) == x \in 0..Len(t) + 1 /\ (x = 0 \/ p < x)

Advancing(t, f, p) == \A walk \in Walks : Behind(t, p, f[walk])

LEMMA OnwardBound ==
    ASSUME NEW t, Len(t) \in Nat, NEW skip, NEW p \in Nat, NEW close \in {"rbrace", "rbracket"},
           NEW after, Behind(t, p, after),
           \A q \in 0..Len(t) + 1 : p < q => Advancing(t, skip[q], q)
    PROVE  Behind(t, p, Onward(t, skip, after, close))
  <1>1. CASE Peek(t, after) = "comma"
    <2>0. after \in Int /\ Peek(t, after) # "nothing"  BY <1>1 DEF Behind
    <2>1. after \in 1..Len(t) /\ p < after  BY <2>0, PeekFacts DEF Behind
    <2>2. after + 1 \in 0..Len(t) + 1 /\ p < after + 1  BY <2>1
    <2>3. Behind(t, after + 1, skip[after + 1][close])  BY <2>2 DEF Advancing, Walks
    <2> QED  BY <1>1, <2>1, <2>3 DEF Onward, Behind
  <1>2. CASE Peek(t, after) = close
    <2>0. after \in Int /\ Peek(t, after) # "nothing"  BY <1>2 DEF Behind
    <2>1. after \in 1..Len(t) /\ p < after  BY <2>0, PeekFacts DEF Behind
    <2> QED  BY <1>2, <2>1 DEF Onward, Behind
  <1>3. CASE Peek(t, after) # "comma" /\ Peek(t, after) # close
    BY <1>3 DEF Onward, Behind
  <1> QED  BY <1>1, <1>2, <1>3

LEMMA WithinBound ==
    ASSUME NEW t, Len(t) \in Nat, NEW skip, NEW p \in 1..Len(t), NEW close \in {"rbrace", "rbracket"},
           \A q \in 0..Len(t) + 1 : p < q => Advancing(t, skip[q], q)
    PROVE  Behind(t, p, Within(t, skip, p, close))
  <1>1. CASE Peek(t, p + 1) = close
    <2>0. p + 1 \in Int /\ Peek(t, p + 1) # "nothing"  BY <1>1
    <2>1. p + 1 \in 1..Len(t)  BY <2>0, PeekFacts
    <2> QED  BY <1>1, <2>1 DEF Within, Behind
  <1>2. CASE Peek(t, p + 1) # close
    <2>0. p + 1 \in 0..Len(t) + 1 /\ p < p + 1  OBVIOUS
    <2>1. Behind(t, p + 1, skip[p + 1][close])  BY <2>0 DEF Advancing, Walks
    <2> QED  BY <1>2, <2>1 DEF Within, Behind
  <1> QED  BY <1>1, <1>2

LEMMA SkipFromBound ==
    ASSUME NEW t, Len(t) \in Nat, NEW skip, NEW p \in 0..Len(t) + 1,
           \A q \in 0..Len(t) + 1 : p < q => Advancing(t, skip[q], q)
    PROVE  Advancing(t, SkipFrom(t, skip, p), p)
  <1> DEFINE f == SkipFrom(t, skip, p)
  <1>1. Behind(t, p, f["value"])
    <2>1. CASE Peek(t, p) \in Scalars
      <3>1. p \in 1..Len(t)  BY <2>1, PeekFacts, TokenAssumption DEF Tokens, Scalars
      <3> QED  BY <2>1, <3>1, SkipFromParts DEF Behind
    <2>2. CASE Peek(t, p) = "lbrace"
      <3>1. p \in 1..Len(t)  BY <2>2, PeekFacts
      <3> QED  BY <2>2, <3>1, SkipFromParts, WithinBound
    <2>3. CASE Peek(t, p) = "lbracket"
      <3>1. p \in 1..Len(t)  BY <2>3, PeekFacts
      <3> QED  BY <2>3, <3>1, SkipFromParts, WithinBound
    <2>4. CASE Peek(t, p) \notin Scalars \cup {"lbrace", "lbracket"}
      BY <2>4, SkipFromParts DEF Behind
    <2> QED  BY <2>1, <2>2, <2>3, <2>4
  <1>2. Behind(t, p, f["rbracket"])  BY <1>1, SkipFromParts, OnwardBound
  <1>3. Behind(t, p, f["rbrace"])
    <2>1. CASE AfterKey(t, p) = 0
      <3>1. Behind(t, p, 0)  BY DEF Behind
      <3> QED  BY <2>1, <3>1, SkipFromParts, OnwardBound
    <2>2. CASE AfterKey(t, p) # 0
      <3>1. AfterKey(t, p) = p + 2 /\ p + 2 \in 1..Len(t) + 1  BY <2>2, AfterKeyBound
      <3>2. Behind(t, p + 2, skip[p + 2]["value"])  BY <3>1 DEF Advancing, Walks
      <3>3. Behind(t, p, skip[AfterKey(t, p)]["value"])  BY <3>1, <3>2 DEF Behind
      <3> QED  BY <2>2, <3>3, SkipFromParts, OnwardBound
    <2> QED  BY <2>1, <2>2
  <1> QED  BY <1>1, <1>2, <1>3 DEF Advancing, Walks

Solves(t, skip, p) ==
    \A q \in 0..Len(t) + 1 :
        p <= q => skip[q] = SkipFrom(t, skip, q) /\ Advancing(t, skip[q], q)

(* What SkipFrom says at p rests on what is behind p alone.                  *)
LEMMA SkipFromLocal ==
    ASSUME NEW t, Len(t) \in Nat, NEW p \in 0..Len(t) + 1, NEW f, NEW g,
           \A q \in 0..Len(t) + 1 : p < q => f[q] = g[q] /\ Advancing(t, f[q], q)
    PROVE  SkipFrom(t, f, p) = SkipFrom(t, g, p)
  <1>0. \A q \in 0..Len(t) + 1 : p < q => f[q] = g[q]  OBVIOUS
  <1>1. \A q \in 0..Len(t) + 1 : p < q => Advancing(t, f[q], q)  OBVIOUS
  <1>2. ASSUME NEW after, Behind(t, p, after), NEW close
        PROVE  Onward(t, f, after, close) = Onward(t, g, after, close)
    <2>1. CASE Peek(t, after) = "comma"
      <3>1. after \in Int /\ Peek(t, after) # "nothing"  BY <1>2, <2>1 DEF Behind
      <3>2. after \in 1..Len(t)  BY <3>1, PeekFacts
      <3>3. after + 1 \in 0..Len(t) + 1 /\ p < after + 1  BY <1>2, <3>2 DEF Behind
      <3> QED  BY <1>0, <2>1, <3>3 DEF Onward
    <2>2. CASE Peek(t, after) # "comma"  BY <2>2 DEF Onward
    <2> QED  BY <2>1, <2>2
  <1>3. ASSUME NEW close, Peek(t, p) # "nothing"
        PROVE  Within(t, f, p, close) = Within(t, g, p, close)
    <2>1. p \in 1..Len(t)  BY <1>3, PeekFacts
    <2>2. p + 1 \in 0..Len(t) + 1 /\ p < p + 1  BY <2>1
    <2> QED  BY <1>0, <2>2 DEF Within
  <1>4. ASSUME AfterKey(t, p) # 0
        PROVE  /\ f[AfterKey(t, p)]["value"] = g[AfterKey(t, p)]["value"]
               /\ Behind(t, p, f[AfterKey(t, p)]["value"])
    <2>1. AfterKey(t, p) = p + 2 /\ p + 2 \in 1..Len(t) + 1  BY <1>4, AfterKeyBound
    <2>2. p + 2 \in 0..Len(t) + 1 /\ p < p + 2  BY <2>1
    <2>3. f[p + 2] = g[p + 2] /\ Behind(t, p + 2, f[p + 2]["value"])
      BY <1>0, <1>1, <2>2 DEF Advancing, Walks
    <2>4. Behind(t, p, f[p + 2]["value"])  BY <2>2, <2>3 DEF Behind
    <2> QED  BY <2>1, <2>3, <2>4
  <1> DEFINE a == SkipFrom(t, f, p)
             b == SkipFrom(t, g, p)
  <1>5. a["value"] = b["value"]
    <2>1. CASE Peek(t, p) = "lbrace"  BY <2>1, <1>3, SkipFromParts
    <2>2. CASE Peek(t, p) = "lbracket"  BY <2>2, <1>3, SkipFromParts
    <2>3. CASE Peek(t, p) \notin {"lbrace", "lbracket"}  BY <2>3, SkipFromParts
    <2> QED  BY <2>1, <2>2, <2>3
  <1>6. a["rbracket"] = b["rbracket"]
    <2>1. Behind(t, p, a["value"])
      BY <1>1, SkipFromBound DEF Advancing, Walks
    <2> QED  BY <1>2, <1>5, <2>1, SkipFromParts
  <1>7. a["rbrace"] = b["rbrace"]
    <2>1. CASE AfterKey(t, p) = 0
      <3>1. Behind(t, p, 0)  BY DEF Behind
      <3> QED  BY <1>2, <2>1, <3>1, SkipFromParts
    <2>2. CASE AfterKey(t, p) # 0  BY <1>2, <1>4, <2>2, SkipFromParts
    <2> QED  BY <2>1, <2>2
  <1>8. a = [walk \in Walks |-> a[walk]] /\ b = [walk \in Walks |-> b[walk]]
    BY SkipFromParts
  <1>9. \A walk \in Walks : a[walk] = b[walk]  BY <1>5, <1>6, <1>7 DEF Walks
  <1> HIDE DEF a, b
  <1>10. a = b  BY <1>8, <1>9
  <1> QED  BY <1>10 DEF a, b

LEMMA Solvable ==
    ASSUME NEW t, Len(t) \in Nat
    PROVE  \E skip : /\ skip = [p \in 0..Len(t) + 1 |-> SkipFrom(t, skip, p)]
                     /\ \A p \in 0..Len(t) + 1 : Advancing(t, skip[p], p)
  <1> DEFINE N == Len(t) + 1
             S == {p \in 0..N : \E f : Solves(t, f, p)}
  <1>1. ASSUME NEW p \in 0..N, \A q \in 0..N : p < q => q \in S
        PROVE  p \in S
    <2>1. \E f : \A q \in 0..N : p < q => f[q] = SkipFrom(t, f, q) /\ Advancing(t, f[q], q)
      <3>1. CASE p = N  BY <3>1
      <3>2. CASE p # N
        <4>1. p + 1 \in 0..N /\ p < p + 1  BY <3>2
        <4>2. p + 1 \in S  BY <1>1, <4>1
        <4>3. PICK f : Solves(t, f, p + 1)  BY <4>2
        <4>4. \A q \in 0..N : p < q => p + 1 <= q  OBVIOUS
        <4> QED  BY <4>3, <4>4 DEF Solves
      <3> QED  BY <3>1, <3>2
    <2>2. PICK f : \A q \in 0..N : p < q => f[q] = SkipFrom(t, f, q) /\ Advancing(t, f[q], q)
      BY <2>1
    <2> DEFINE g == [q \in 0..N |-> IF q = p THEN SkipFrom(t, f, p) ELSE f[q]]
    <2>3. \A q \in 0..N : p < q => g[q] = f[q] /\ Advancing(t, g[q], q)  BY <2>2
    <2>4. g[p] = SkipFrom(t, f, p)  OBVIOUS
    <2> HIDE DEF g
    <2>5. ASSUME NEW q \in 0..N, p <= q PROVE SkipFrom(t, f, q) = SkipFrom(t, g, q)
      <3>1. \A i \in 0..N : q < i => f[i] = g[i] /\ Advancing(t, f[i], i)
        BY <2>2, <2>3, <2>5
      <3> QED  BY <3>1, SkipFromLocal
    <2>6. Advancing(t, SkipFrom(t, f, p), p)  BY <2>2, SkipFromBound
    <2>7. ASSUME NEW q \in 0..N, p <= q
          PROVE  g[q] = SkipFrom(t, g, q) /\ Advancing(t, g[q], q)
      <3>1. CASE q = p  BY <2>4, <2>5, <2>6, <3>1
      <3>2. CASE q # p
        <4>1. p < q  BY <2>7, <3>2
        <4> QED  BY <2>2, <2>3, <2>5, <2>7, <4>1
      <3> QED  BY <3>1, <3>2
    <2>8. Solves(t, g, p)  BY <2>7 DEF Solves
    <2> QED  BY <2>8
  <1>2. 0..N \subseteq S
    <2> HIDE DEF S
    <2>1. N \in Nat  OBVIOUS
    <2> HIDE DEF N
    <2> QED  BY <1>1, <2>1, InductBack
  <1>3. 0 \in S
    <2> HIDE DEF S
    <2>1. 0 \in 0..N  OBVIOUS
    <2> QED  BY ONLY <1>2, <2>1
  <1>4. PICK f : Solves(t, f, 0)  BY <1>3
  <1>5. \A q \in 0..N : f[q] = SkipFrom(t, f, q) /\ Advancing(t, f[q], q)
    BY <1>4 DEF Solves
  <1> DEFINE g == [q \in 0..N |-> f[q]]
  <1>6. \A q \in 0..N : g[q] = f[q]  OBVIOUS
  <1>7. g = [q \in 0..N |-> g[q]]  OBVIOUS
  <1> HIDE DEF g
  <1>8. ASSUME NEW q \in 0..N PROVE g[q] = SkipFrom(t, g, q) /\ Advancing(t, g[q], q)
    <2>1. \A i \in 0..N : q < i => f[i] = g[i] /\ Advancing(t, f[i], i)
      BY <1>5, <1>6
    <2>2. SkipFrom(t, f, q) = SkipFrom(t, g, q)  BY <2>1, SkipFromLocal
    <2> QED  BY <1>5, <1>6, <2>2
  <1>9. g = [q \in 0..N |-> SkipFrom(t, g, q)]  BY <1>7, <1>8
  <1> QED  BY <1>8, <1>9

(* The cursor the parser has after a value, a key or the rest of a container *)
(* is behind where it began, and on the text.                                *)
LEMMA SkipFacts ==
    ASSUME NEW t, Len(t) \in Nat, NEW p \in 0..Len(t) + 1
    PROVE  Skip(t)[p] = SkipFrom(t, Skip(t), p) /\ Advancing(t, Skip(t)[p], p)
  <1> DEFINE Is(skip) == skip = [q \in 0..Len(t) + 1 |-> SkipFrom(t, skip, q)]
  <1>1. PICK f : /\ f = [q \in 0..Len(t) + 1 |-> SkipFrom(t, f, q)]
                 /\ \A q \in 0..Len(t) + 1 : Advancing(t, f[q], q)
    BY Solvable
  <1>2. Skip(t) = CHOOSE skip : Is(skip)  BY DEF Skip
  <1>3. Is(f)  BY <1>1
  <1>4. Is(Skip(t))  
    <2> HIDE DEF Is
    <2> QED  BY <1>2, <1>3
  <1>5. \A q \in 0..Len(t) + 1 : Skip(t)[q] = SkipFrom(t, Skip(t), q)  BY <1>4
  <1> DEFINE S == {q \in 0..Len(t) + 1 : Advancing(t, Skip(t)[q], q)}
  <1>6. ASSUME NEW q \in 0..Len(t) + 1, \A i \in 0..Len(t) + 1 : q < i => i \in S
        PROVE  q \in S
    <2>1. Advancing(t, SkipFrom(t, Skip(t), q), q)  BY <1>6, SkipFromBound
    <2> QED  BY <1>5, <2>1
  <1>7. 0..Len(t) + 1 \subseteq S
    <2> HIDE DEF S
    <2>1. Len(t) + 1 \in Nat  OBVIOUS
    <2> QED  BY <1>6, <2>1, InductBack
  <1> QED  BY <1>5, <1>7

LEMMA SkipValueBound ==
    ASSUME NEW t, Len(t) \in Nat, NEW p \in 0..Len(t) + 1
    PROVE  Behind(t, p, SkipValue(t, p))
  BY SkipFacts DEF SkipValue, Advancing, Walks

LEMMA SkipParts ==
    ASSUME NEW t, Len(t) \in Nat, NEW p \in 0..Len(t) + 1
    PROVE  LET skip == Skip(t) IN
           /\ Peek(t, p) \in Scalars => skip[p]["value"] = p + 1
           /\ Peek(t, p) = "lbrace" => skip[p]["value"] = Within(t, skip, p, "rbrace")
           /\ Peek(t, p) = "lbracket" => skip[p]["value"] = Within(t, skip, p, "rbracket")
           /\ Peek(t, p) \notin Scalars \cup {"lbrace", "lbracket"} => skip[p]["value"] = 0
           /\ AfterKey(t, p) = 0 => skip[p]["rbrace"] = Onward(t, skip, 0, "rbrace")
           /\ AfterKey(t, p) # 0 =>
                 skip[p]["rbrace"] = Onward(t, skip, skip[AfterKey(t, p)]["value"], "rbrace")
           /\ skip[p]["rbracket"] = Onward(t, skip, skip[p]["value"], "rbracket")
  <1> DEFINE skip == Skip(t)
  <1>1. skip[p] = SkipFrom(t, skip, p)  BY SkipFacts
  <1> HIDE DEF skip
  <1>2. p \in Nat  OBVIOUS
  <1>3. QED  BY <1>1, <1>2, SkipFromParts DEF skip

LEMMA NothingAtZero ==
    ASSUME NEW t, NEW skip, NEW close \in Tokens
    PROVE  Onward(t, skip, 0, close) = 0
  <1>1. Peek(t, 0) = "nothing"
    <2>1. 0 \notin 1..Len(t)  OBVIOUS
    <2> QED  BY <2>1 DEF Peek
  <1> QED  BY <1>1, TokenAssumption DEF Onward, Tokens, Structure

(* What the parser finds on one text it finds on another that holds the same *)
(* tokens, d further on, whatever surrounds them there.  A text that is cut  *)
(* off holds the same tokens up to the cut, and no walk gets past it.        *)
Dead == {"nothing", CutString}
Inside(t, d, u) ==
    \A p \in 0..Len(t) + 1 : Peek(t, p) \notin Dead => Peek(u, d + p) = Peek(t, p)

Carried(t, d, u, p, walk) ==
    Skip(t)[p][walk] # 0 =>
        d + p \in 0..Len(u) + 1 /\ Skip(u)[d + p][walk] = d + Skip(t)[p][walk]

LEMMA Alive ==
    ASSUME NEW token \in Tokens
    PROVE  token \notin Dead
  BY TokenAssumption DEF Dead

LEMMA OnwardCarried ==
    ASSUME NEW t, Len(t) \in Nat, NEW u, Len(u) \in Nat, NEW d \in Nat, Inside(t, d, u),
           NEW p \in 0..Len(t) + 1, NEW after, Behind(t, p, after), after # 0,
           NEW close \in {"rbrace", "rbracket"},
           \A q \in 0..Len(t) + 1 : p < q => \A walk \in Walks : Carried(t, d, u, q, walk),
           Onward(t, Skip(t), after, close) # 0
    PROVE  Onward(u, Skip(u), d + after, close) = d + Onward(t, Skip(t), after, close)
  <1>0. after \in 0..Len(t) + 1 /\ p < after  BY DEF Behind
  <1>1. CASE Peek(t, after) = "comma"
    <2>1. Peek(u, d + after) = "comma"
      BY <1>0, <1>1, Alive DEF Inside, Tokens, Structure
    <2>2. after \in Int /\ Peek(t, after) # "nothing"  BY <1>0, <1>1
    <2>3. after \in 1..Len(t)  BY <2>2, PeekFacts
    <2>4. after + 1 \in 0..Len(t) + 1 /\ p < after + 1 /\ d + (after + 1) = (d + after) + 1
      BY <1>0, <2>3
    <2>5. Carried(t, d, u, after + 1, close)  BY <2>4 DEF Walks
    <2>6. Onward(t, Skip(t), after, close) = Skip(t)[after + 1][close]  BY <1>1 DEF Onward
    <2>7. Skip(u)[d + (after + 1)][close] = d + Skip(t)[after + 1][close]
      BY <2>5, <2>6 DEF Carried
    <2>8. Onward(u, Skip(u), d + after, close) = Skip(u)[(d + after) + 1][close]
      BY <2>1 DEF Onward
    <2> QED  BY <2>4, <2>6, <2>7, <2>8
  <1>2. CASE Peek(t, after) = close
    <2>1. Peek(u, d + after) = close
      BY <1>0, <1>2, Alive DEF Inside, Tokens, Structure
    <2>2. Onward(t, Skip(t), after, close) = after + 1  BY <1>2 DEF Onward
    <2>3. Onward(u, Skip(u), d + after, close) = (d + after) + 1  BY <2>1 DEF Onward
    <2> QED  BY <1>0, <2>2, <2>3
  <1>3. CASE Peek(t, after) # "comma" /\ Peek(t, after) # close  BY <1>3 DEF Onward
  <1> QED  BY <1>1, <1>2, <1>3

LEMMA Transfer ==
    ASSUME NEW t, Len(t) \in Nat, NEW u, Len(u) \in Nat, NEW d \in Nat, Inside(t, d, u),
           NEW p \in 0..Len(t) + 1, NEW walk \in Walks
    PROVE  Carried(t, d, u, p, walk)
  <1> DEFINE N == Len(t) + 1
             S == {q \in 0..N : \A w \in Walks : Carried(t, d, u, q, w)}
  <1>1. ASSUME NEW q \in 0..N, \A i \in 0..N : q < i => i \in S
        PROVE  q \in S
    <2>0. \A i \in 0..N : q < i => \A w \in Walks : Carried(t, d, u, i, w)  BY <1>1
    <2>1. ASSUME Peek(t, q) \in Tokens
          PROVE  /\ q \in 1..Len(t) /\ Peek(u, d + q) = Peek(t, q)
                 /\ d + q \in 0..Len(u) + 1
      <3>1. q \in Int /\ Peek(t, q) # "nothing"  BY <2>1, TokenAssumption
      <3>2. q \in 1..Len(t)  BY <3>1, PeekFacts
      <3>3. Peek(u, d + q) = Peek(t, q)  BY <2>1, Alive DEF Inside
      <3>4. d + q \in Int /\ Peek(u, d + q) # "nothing"  BY <3>1, <3>3
      <3>5. d + q \in 1..Len(u)  BY <3>4, PeekFacts
      <3> QED  BY <3>2, <3>3, <3>5
    <2>2. Carried(t, d, u, q, "value")
      <3> SUFFICES ASSUME Skip(t)[q]["value"] # 0
                   PROVE  /\ d + q \in 0..Len(u) + 1
                          /\ Skip(u)[d + q]["value"] = d + Skip(t)[q]["value"]
        BY DEF Carried
      <3>1. CASE Peek(t, q) \in Scalars
        <4>1. Skip(t)[q]["value"] = q + 1  BY <3>1, SkipParts
        <4>2. d + q \in 0..Len(u) + 1 /\ Peek(u, d + q) \in Scalars
          BY <2>1, <3>1 DEF Tokens
        <4>3. Skip(u)[d + q]["value"] = (d + q) + 1  BY <4>2, SkipParts
        <4> QED  BY <4>1, <4>2, <4>3
      <3>2. ASSUME NEW close \in {"rbrace", "rbracket"}, Peek(t, q) \in Tokens,
                   Skip(t)[q]["value"] = Within(t, Skip(t), q, close),
                   Skip(u)[d + q]["value"] = Within(u, Skip(u), d + q, close)
            PROVE  Skip(u)[d + q]["value"] = d + Skip(t)[q]["value"]
        <4>1. q + 1 \in 0..N /\ q < q + 1 /\ d + (q + 1) = (d + q) + 1  BY <2>1, <3>2
        <4>2. CASE Peek(t, q + 1) = close
          <5>1. Peek(u, d + (q + 1)) = close
            BY <4>1, <4>2, Alive DEF Inside, Tokens, Structure
          <5>2. Within(t, Skip(t), q, close) = q + 2  BY <4>2 DEF Within
          <5>3. Within(u, Skip(u), d + q, close) = (d + q) + 2  BY <4>1, <5>1 DEF Within
          <5> QED  BY <3>2, <5>2, <5>3
        <4>3. CASE Peek(t, q + 1) # close
          <5>1. Skip(t)[q]["value"] = Skip(t)[q + 1][close]  BY <3>2, <4>3 DEF Within
          <5>2. Skip(u)[d + (q + 1)][close] = d + Skip(t)[q + 1][close]
            BY <2>0, <4>1, <5>1 DEF Carried, Walks
          <5>3. Peek(t, q + 1) \in Tokens
            <6>1. CASE close = "rbrace"
              <7>1. AfterKey(t, q + 1) # 0
                BY <4>1, <5>1, <6>1, SkipParts, NothingAtZero DEF Tokens, Structure
              <7>2. Peek(t, q + 1) \in Strings  BY <7>1 DEF AfterKey
              <7> QED  BY <7>2 DEF Tokens, Scalars
            <6>2. CASE close = "rbracket"
              <7>1. Skip(t)[q + 1]["value"] # 0
                BY <4>1, <5>1, <6>2, SkipParts, NothingAtZero DEF Tokens, Structure
              <7>2. Peek(t, q + 1) \in Scalars \cup {"lbrace", "lbracket"}
                BY <4>1, <7>1, SkipParts
              <7> QED  BY <7>2 DEF Tokens, Structure
            <6> QED  BY <6>1, <6>2
          <5>4. Peek(u, d + (q + 1)) # close  BY <4>1, <4>3, <5>3, Alive DEF Inside
          <5>5. Within(u, Skip(u), d + q, close) = Skip(u)[(d + q) + 1][close]
            BY <4>1, <5>4 DEF Within
          <5> QED  BY <3>2, <4>1, <5>1, <5>2, <5>5
        <4> QED  BY <4>2, <4>3
      <3>3. CASE Peek(t, q) = "lbrace"
        <4>1. Peek(t, q) \in Tokens  BY <3>3 DEF Tokens, Structure
        <4>2. d + q \in 0..Len(u) + 1 /\ Peek(u, d + q) = "lbrace"  BY <2>1, <3>3, <4>1
        <4>3. /\ Skip(t)[q]["value"] = Within(t, Skip(t), q, "rbrace")
              /\ Skip(u)[d + q]["value"] = Within(u, Skip(u), d + q, "rbrace")
          BY <3>3, <4>2, SkipParts
        <4> QED  BY <3>2, <4>1, <4>2, <4>3
      <3>4. CASE Peek(t, q) = "lbracket"
        <4>1. Peek(t, q) \in Tokens  BY <3>4 DEF Tokens, Structure
        <4>2. d + q \in 0..Len(u) + 1 /\ Peek(u, d + q) = "lbracket"  BY <2>1, <3>4, <4>1
        <4>3. /\ Skip(t)[q]["value"] = Within(t, Skip(t), q, "rbracket")
              /\ Skip(u)[d + q]["value"] = Within(u, Skip(u), d + q, "rbracket")
          BY <3>4, <4>2, SkipParts
        <4> QED  BY <3>2, <4>1, <4>2, <4>3
      <3>5. CASE Peek(t, q) \notin Scalars \cup {"lbrace", "lbracket"}  BY <3>5, SkipParts
      <3> QED  BY <3>1, <3>3, <3>4, <3>5
    <2>3. Carried(t, d, u, q, "rbracket")
      <3> SUFFICES ASSUME Skip(t)[q]["rbracket"] # 0
                   PROVE  /\ d + q \in 0..Len(u) + 1
                          /\ Skip(u)[d + q]["rbracket"] = d + Skip(t)[q]["rbracket"]
        BY DEF Carried
      <3> DEFINE after == Skip(t)[q]["value"]
      <3>1. Skip(t)[q]["rbracket"] = Onward(t, Skip(t), after, "rbracket")  BY SkipParts
      <3>2. after # 0  BY <3>1, NothingAtZero DEF Tokens, Structure
      <3>3. d + q \in 0..Len(u) + 1 /\ Skip(u)[d + q]["value"] = d + after
        BY <2>2, <3>2 DEF Carried
      <3>4. Behind(t, q, after)  BY SkipFacts DEF Advancing, Walks
      <3>5. Skip(u)[d + q]["rbracket"] = Onward(u, Skip(u), d + after, "rbracket")
        BY <3>3, SkipParts
      <3>6. Onward(u, Skip(u), d + after, "rbracket") = d + Onward(t, Skip(t), after, "rbracket")
        <4> HIDE DEF after
        <4> QED  BY <2>0, <3>1, <3>2, <3>4, OnwardCarried
      <3> QED  BY <3>1, <3>3, <3>5, <3>6
    <2>4. Carried(t, d, u, q, "rbrace")
      <3> SUFFICES ASSUME Skip(t)[q]["rbrace"] # 0
                   PROVE  /\ d + q \in 0..Len(u) + 1
                          /\ Skip(u)[d + q]["rbrace"] = d + Skip(t)[q]["rbrace"]
        BY DEF Carried
      <3>1. AfterKey(t, q) # 0  BY SkipParts, NothingAtZero DEF Tokens, Structure
      <3>2. /\ AfterKey(t, q) = q + 2 /\ q + 2 \in 1..Len(t) + 1
            /\ Peek(t, q) \in Strings /\ Peek(t, q + 1) = "colon"
        BY <3>1, AfterKeyBound
      <3>3. d + q \in 0..Len(u) + 1 /\ Peek(u, d + q) \in Strings
        BY <2>1, <3>2 DEF Tokens, Scalars
      <3>4. q + 1 \in 0..N /\ d + (q + 1) = (d + q) + 1 /\ d + (q + 2) = (d + q) + 2
        BY <3>2
      <3>5. Peek(u, d + (q + 1)) = "colon"
        BY <3>2, <3>4, Alive DEF Inside, Tokens, Structure
      <3>6. AfterKey(u, d + q) = d + (q + 2) /\ d + (q + 2) # 0
        BY <3>3, <3>4, <3>5 DEF AfterKey
      <3> DEFINE after == Skip(t)[q + 2]["value"]
      <3>7. Skip(t)[q]["rbrace"] = Onward(t, Skip(t), after, "rbrace")  BY <3>1, <3>2, SkipParts
      <3>8. after # 0  BY <3>7, NothingAtZero DEF Tokens, Structure
      <3>9. q + 2 \in 0..N /\ q < q + 2  BY <3>2
      <3>10. Skip(u)[d + (q + 2)]["value"] = d + after
        BY <2>0, <3>8, <3>9 DEF Carried, Walks
      <3>11. Behind(t, q, after)
        <4>1. Behind(t, q + 2, after)  BY <3>9, SkipFacts DEF Advancing, Walks
        <4> QED  BY <3>9, <4>1 DEF Behind
      <3>12. Skip(u)[d + q]["rbrace"] = Onward(u, Skip(u), d + after, "rbrace")
        BY <3>3, <3>6, <3>10, SkipParts
      <3>13. Onward(u, Skip(u), d + after, "rbrace") = d + Onward(t, Skip(t), after, "rbrace")
        <4> HIDE DEF after
        <4> QED  BY <2>0, <3>7, <3>8, <3>11, OnwardCarried
      <3> QED  BY <3>3, <3>7, <3>12, <3>13
    <2> QED  BY <2>2, <2>3, <2>4 DEF Walks
  <1>2. p \in S
    <2>1. N \in Nat  OBVIOUS
    <2> HIDE DEF S
    <2> QED  BY <1>1, <2>1, InductBack
  <1> QED  BY <1>2

-----------------------------------------------------------------------------
(* A reply as it is rendered: parts with commas between them                 *)

Pieces(parts) == [i \in 1..Len(parts) |->
                    IF i = 1 THEN parts[i] ELSE <<"comma">> \o parts[i]]

(* The parts up to the k-th, put together.                                   *)
Joined(parts) ==
    LET flatten[i \in 1..Len(Pieces(parts))] ==
            IF i = 1 THEN Pieces(parts)[i] ELSE flatten[i - 1] \o Pieces(parts)[i]
    IN  flatten

LEMMA Flattened ==
    ASSUME NEW seqs, NEW n \in Nat
    PROVE  \E f : f = [i \in 1..n |-> IF i = 1 THEN seqs[i] ELSE f[i - 1] \o seqs[i]]
  <1> DEFINE To(m, f) == \A i \in 1..n : i <= m =>
                            f[i] = IF i = 1 THEN seqs[i] ELSE f[i - 1] \o seqs[i]
             S == {m \in Nat : \E f : To(m, f)}
  <1>1. 0 \in S
    <2>1. To(0, << >>)  OBVIOUS
    <2> QED  BY <2>1
  <1>2. ASSUME NEW m \in Nat, m \in S PROVE m + 1 \in S
    <2>1. PICK f : To(m, f)  BY <1>2
    <2> DEFINE g == [i \in 1..n |-> IF i <= m THEN f[i]
                                    ELSE IF i = 1 THEN seqs[i] ELSE f[i - 1] \o seqs[i]]
    <2>2. ASSUME NEW i \in 1..n, i <= m + 1
          PROVE  g[i] = IF i = 1 THEN seqs[i] ELSE g[i - 1] \o seqs[i]
      <3>1. CASE i = 1  BY <2>1, <3>1
      <3>2. CASE i # 1
        <4>1. i - 1 \in 1..n /\ i - 1 <= m  BY <2>2, <3>2
        <4>2. g[i - 1] = f[i - 1]  BY <4>1
        <4>3. g[i] = f[i - 1] \o seqs[i]  BY <2>1, <3>2
        <4> QED  BY <3>2, <4>2, <4>3
      <3> QED  BY <3>1, <3>2
    <2> HIDE DEF g
    <2>3. To(m + 1, g)  BY <2>2
    <2> QED  BY <2>3
  <1>3. Nat \subseteq S
    <2> HIDE DEF S
    <2> QED  BY <1>1, <1>2, Induct
  <1>4. PICK f : To(n, f)  BY <1>3
  <1> DEFINE g == [i \in 1..n |-> f[i]]
  <1>5. ASSUME NEW i \in 1..n PROVE g[i] = IF i = 1 THEN seqs[i] ELSE g[i - 1] \o seqs[i]
    <2>1. i # 1 => i - 1 \in 1..n  OBVIOUS
    <2> QED  BY <1>4, <2>1
  <1>6. g = [i \in 1..n |-> g[i]]  OBVIOUS
  <1> HIDE DEF g
  <1>7. g = [i \in 1..n |-> IF i = 1 THEN seqs[i] ELSE g[i - 1] \o seqs[i]]
    BY <1>5, <1>6
  <1> QED  BY <1>7

Parts(parts) == Len(parts) \in Nat /\ \A i \in 1..Len(parts) : parts[i] \in Seq(Tokens)

LEMMA JoinedSteps ==
    ASSUME NEW parts, Len(parts) \in Nat
    PROVE  \A i \in 1..Len(parts) :
              Joined(parts)[i] = IF i = 1 THEN parts[i]
                                 ELSE Joined(parts)[i - 1] \o (<<"comma">> \o parts[i])
  <1> DEFINE seqs == Pieces(parts)
             Is(f) == f = [i \in 1..Len(seqs) |->
                             IF i = 1 THEN seqs[i] ELSE f[i - 1] \o seqs[i]]
  <1>1. Len(seqs) = Len(parts)  BY DEF Pieces
  <1>2. \E f : Is(f)
    <2> HIDE DEF seqs
    <2>1. Len(seqs) \in Nat  BY <1>1
    <2>2. \E f : f = [i \in 1..Len(seqs) |->
                        IF i = 1 THEN seqs[i] ELSE f[i - 1] \o seqs[i]]
      BY <2>1, Flattened
    <2> QED  BY <2>2
  <1>3. Joined(parts) = CHOOSE f : Is(f)  BY DEF Joined
  <1>4. Is(Joined(parts))
    <2> HIDE DEF Is
    <2> QED  BY <1>2, <1>3
  <1>5. ASSUME NEW i \in 1..Len(parts)
        PROVE  seqs[i] = IF i = 1 THEN parts[i] ELSE <<"comma">> \o parts[i]
    BY DEF Pieces
  <1>6. ASSUME NEW i \in 1..Len(parts)
        PROVE  Joined(parts)[i] = IF i = 1 THEN seqs[i] ELSE Joined(parts)[i - 1] \o seqs[i]
    <2> HIDE DEF seqs
    <2> QED  BY <1>1, <1>4
  <1> QED  BY <1>5, <1>6

LEMMA JoinedText ==
    ASSUME NEW parts, Parts(parts), NEW k \in 1..Len(parts)
    PROVE  Joined(parts)[k] \in Seq(Tokens)
  <1> DEFINE S == {m \in Nat : \A i \in 1..Len(parts) : i <= m => Joined(parts)[i] \in Seq(Tokens)}
  <1>1. 0 \in S  OBVIOUS
  <1>2. ASSUME NEW m \in Nat, m \in S PROVE m + 1 \in S
    <2>1. ASSUME NEW i \in 1..Len(parts), i <= m + 1
          PROVE  Joined(parts)[i] \in Seq(Tokens)
      <3>1. CASE i = 1  BY <3>1, JoinedSteps DEF Parts
      <3>2. CASE i # 1
        <4>1. i - 1 \in 1..Len(parts) /\ i - 1 <= m  BY <2>1, <3>2 DEF Parts
        <4>2. Joined(parts)[i - 1] \in Seq(Tokens)  BY <1>2, <4>1
        <4>3. <<"comma">> \in Seq(Tokens)  BY DEF Tokens, Structure
        <4>4. <<"comma">> \o parts[i] \in Seq(Tokens)  BY <4>3, ConcatProperties DEF Parts
        <4>5. Joined(parts)[i] = Joined(parts)[i - 1] \o (<<"comma">> \o parts[i])
          BY <3>2, JoinedSteps DEF Parts
        <4> QED  BY <4>2, <4>4, <4>5, ConcatProperties
      <3> QED  BY <3>1, <3>2
    <2> QED  BY <2>1
  <1>3. k \in S
    <2> HIDE DEF S
    <2> QED  BY <1>1, <1>2, Induct DEF Parts
  <1> QED  BY <1>3

LEMMA SeparatedIsJoined ==
    ASSUME NEW parts, Parts(parts)
    PROVE  /\ Len(parts) # 0 => Separated(parts) = Joined(parts)[Len(parts)]
           /\ Len(parts) = 0 => Separated(parts) = << >>
           /\ Separated(parts) \in Seq(Tokens)
  <1>1. Separated(parts) = FlattenSeq(Pieces(parts))  BY DEF Separated, Pieces
  <1>2. Len(Pieces(parts)) = Len(parts)  BY DEF Pieces, Parts
  <1>3. CASE Len(parts) = 0
    <2>1. FlattenSeq(Pieces(parts)) = Pieces(parts)  BY <1>2, <1>3 DEF FlattenSeq
    <2>2. Pieces(parts) = << >>  BY <1>3 DEF Pieces
    <2> QED  BY <1>1, <1>3, <2>1, <2>2
  <1>4. CASE Len(parts) # 0
    <2>1. FlattenSeq(Pieces(parts)) = Joined(parts)[Len(Pieces(parts))]
      BY <1>2, <1>4 DEF FlattenSeq, Joined
    <2>2. Len(parts) \in 1..Len(parts)  BY <1>4 DEF Parts
    <2>3. Joined(parts)[Len(parts)] \in Seq(Tokens)  BY <2>2, JoinedText
    <2> QED  BY <1>1, <1>2, <1>4, <2>1, <2>3
  <1> QED  BY <1>3, <1>4

(* The tokens of s stand in the text from p on.                              *)
Has(t, p, s) == \A i \in 1..Len(s) : Peek(t, p + i - 1) = s[i]

LEMMA HasConcat ==
    ASSUME NEW t, NEW p \in Nat, NEW a \in Seq(Tokens), NEW b \in Seq(Tokens)
    PROVE  Has(t, p, a \o b) <=> Has(t, p, a) /\ Has(t, p + Len(a), b)
  <1>1. /\ Len(a) \in Nat /\ Len(b) \in Nat /\ Len(a \o b) = Len(a) + Len(b)
        /\ \A i \in 1..Len(a) + Len(b) : (a \o b)[i] = IF i <= Len(a) THEN a[i] ELSE b[i - Len(a)]
    BY ConcatProperties, LenProperties
  <1>2. ASSUME Has(t, p, a \o b) PROVE Has(t, p, a) /\ Has(t, p + Len(a), b)
    <2>0. \A i \in 1..Len(a) + Len(b) : Peek(t, p + i - 1) = (a \o b)[i]  BY <1>1, <1>2 DEF Has
    <2>1. ASSUME NEW i \in 1..Len(a) PROVE Peek(t, p + i - 1) = a[i]
      <3>1. i \in 1..Len(a) + Len(b) /\ i <= Len(a)  BY <1>1
      <3> QED  BY <1>1, <2>0, <3>1
    <2>2. ASSUME NEW i \in 1..Len(b) PROVE Peek(t, p + Len(a) + i - 1) = b[i]
      <3>1. /\ Len(a) + i \in 1..Len(a) + Len(b) /\ ~(Len(a) + i <= Len(a))
            /\ (Len(a) + i) - Len(a) = i
        BY <1>1
      <3>2. Peek(t, p + (Len(a) + i) - 1) = b[i]  BY <1>1, <2>0, <3>1
      <3>3. p + (Len(a) + i) - 1 = p + Len(a) + i - 1  BY <1>1
      <3> QED  BY <3>2, <3>3
    <2> QED  BY <2>1, <2>2 DEF Has
  <1>3. ASSUME Has(t, p, a), Has(t, p + Len(a), b) PROVE Has(t, p, a \o b)
    <2>1. ASSUME NEW i \in 1..Len(a) + Len(b) PROVE Peek(t, p + i - 1) = (a \o b)[i]
      <3>1. CASE i <= Len(a)
        <4>1. i \in 1..Len(a)  BY <1>1, <3>1
        <4> QED  BY <1>1, <1>3, <3>1, <4>1 DEF Has
      <3>2. CASE ~(i <= Len(a))
        <4>1. i - Len(a) \in 1..Len(b)  BY <1>1, <3>2
        <4>2. Peek(t, p + Len(a) + (i - Len(a)) - 1) = b[i - Len(a)]  BY <1>3, <4>1 DEF Has
        <4>3. p + Len(a) + (i - Len(a)) - 1 = p + i - 1  BY <1>1
        <4> QED  BY <1>1, <3>2, <4>2, <4>3
      <3> QED  BY <3>1, <3>2
    <2> QED  BY <1>1, <2>1 DEF Has
  <1> QED  BY <1>2, <1>3

LEMMA HasItself ==
    ASSUME NEW t \in Seq(Tokens)
    PROVE  Has(t, 1, t)
  <1>1. ASSUME NEW i \in 1..Len(t) PROVE Peek(t, 1 + i - 1) = t[i]
    <2>1. 1 + i - 1 = i  OBVIOUS
    <2> QED  BY <2>1 DEF Peek
  <1> QED  BY <1>1 DEF Has

(* How far the k-th part stands behind the first.                            *)
Offset(parts, k) == Len(Joined(parts)[k]) - Len(parts[k])

LEMMA OffsetFacts ==
    ASSUME NEW parts, Parts(parts), NEW k \in 1..Len(parts)
    PROVE  /\ Offset(parts, k) \in Nat /\ Len(parts[k]) \in Nat
           /\ k = 1 => Offset(parts, k) = 0
           /\ k < Len(parts) => Offset(parts, k + 1) = Offset(parts, k) + Len(parts[k]) + 1
           /\ k = Len(parts) => Offset(parts, k) + Len(parts[k]) = Len(Separated(parts))
  <1>0. <<"comma">> \in Seq(Tokens) /\ Len(<<"comma">>) = 1  BY DEF Tokens, Structure
  <1>1. \A i \in 1..Len(parts) :
           /\ Len(parts[i]) \in Nat /\ Len(Joined(parts)[i]) \in Nat
           /\ Joined(parts)[i] \in Seq(Tokens) /\ parts[i] \in Seq(Tokens)
    BY JoinedText, LenProperties DEF Parts
  <1>2. ASSUME NEW i \in 1..Len(parts), i # 1
        PROVE  Len(Joined(parts)[i]) = Len(Joined(parts)[i - 1]) + 1 + Len(parts[i])
    <2>1. i - 1 \in 1..Len(parts)  BY <1>2 DEF Parts
    <2>2. <<"comma">> \o parts[i] \in Seq(Tokens) /\ Len(<<"comma">> \o parts[i]) = 1 + Len(parts[i])
      BY <1>0, <1>1, ConcatProperties
    <2>3. Joined(parts)[i] = Joined(parts)[i - 1] \o (<<"comma">> \o parts[i])
      BY <1>2, JoinedSteps DEF Parts
    <2> DEFINE a == Joined(parts)[i - 1]
    <2>7. a \in Seq(Tokens) /\ Len(a) \in Nat  BY <2>1, JoinedText, LenProperties
    <2> HIDE DEF a
    <2>8. Len(parts[i]) \in Nat  BY <1>1
    <2>4. a \in Seq(Tokens) /\ Len(a) \in Nat /\ Len(parts[i]) \in Nat  BY <2>7, <2>8
    <2>5. Len(Joined(parts)[i]) = Len(a) + Len(<<"comma">> \o parts[i])
      BY <2>2, <2>3, <2>4, ConcatProperties DEF a
    <2>6. Len(Joined(parts)[i]) = Len(a) + 1 + Len(parts[i])
      <3> DEFINE c == Len(<<"comma">> \o parts[i])
                 x == Len(a)
                 y == Len(parts[i])
      <3>1. c = 1 + y /\ Len(Joined(parts)[i]) = x + c /\ x \in Nat /\ y \in Nat
        BY <2>2, <2>4, <2>5
      <3>2. Len(Joined(parts)[i]) = x + 1 + y
        <4> HIDE DEF c, x, y
        <4> QED  BY <3>1
      <3> QED  BY <3>2
    <2> QED  BY <2>6 DEF a
  <1>3. k = 1 => Joined(parts)[k] = parts[k]  BY JoinedSteps DEF Parts
  <1>4. Offset(parts, k) \in Nat /\ (k = 1 => Offset(parts, k) = 0)
    <2>1. CASE k = 1  BY <1>1, <1>3, <2>1 DEF Offset
    <2>2. CASE k # 1
      <3>1. k - 1 \in 1..Len(parts)  BY <2>2 DEF Parts
      <3> DEFINE a == Len(Joined(parts)[k - 1])
      <3>2. a \in Nat /\ Len(Joined(parts)[k]) = a + 1 + Len(parts[k]) /\ Len(parts[k]) \in Nat
        BY <1>1, <1>2, <2>2, <3>1
      <3> HIDE DEF a
      <3> QED  BY <2>2, <3>2 DEF Offset
    <2> QED  BY <2>1, <2>2
  <1>5. ASSUME k < Len(parts)
        PROVE  Offset(parts, k + 1) = Offset(parts, k) + Len(parts[k]) + 1
    <2>1. k + 1 \in 1..Len(parts) /\ k + 1 # 1 /\ (k + 1) - 1 = k  BY <1>5 DEF Parts
    <2>2. Len(Joined(parts)[k + 1]) = Len(Joined(parts)[k]) + 1 + Len(parts[k + 1])
      BY <1>2, <2>1
    <2> QED  BY <1>1, <2>1, <2>2 DEF Offset
  <1>6. ASSUME k = Len(parts)
        PROVE  Offset(parts, k) + Len(parts[k]) = Len(Separated(parts))
    <2>1. Separated(parts) = Joined(parts)[k]  BY <1>6, SeparatedIsJoined
    <2> QED  BY <1>1, <2>1 DEF Offset
  <1> QED  BY <1>1, <1>4, <1>5, <1>6

(* Where the parts of a list stand, and the commas between them.             *)
LEMMA Slots ==
    ASSUME NEW t, NEW p \in Nat, NEW parts, Parts(parts), Has(t, p, Separated(parts)),
           NEW k \in 1..Len(parts)
    PROVE  /\ Has(t, p + Offset(parts, k), parts[k])
           /\ k < Len(parts) => Peek(t, p + Offset(parts, k) + Len(parts[k])) = "comma"
  <1> DEFINE n == Len(parts)
             S == {i \in 0..n : i # 0 => Has(t, p, Joined(parts)[i])}
  <1>0. <<"comma">> \in Seq(Tokens) /\ Len(<<"comma">>) = 1  BY DEF Tokens, Structure
  <1>1. ASSUME NEW i \in 1..n, i # 1, Has(t, p, Joined(parts)[i])
        PROVE  /\ Has(t, p, Joined(parts)[i - 1])
               /\ Has(t, p + Len(Joined(parts)[i - 1]), <<"comma">>)
               /\ Has(t, p + Len(Joined(parts)[i - 1]) + 1, parts[i])
    <2>1. i - 1 \in 1..n  BY <1>1 DEF Parts
    <2>2. /\ Joined(parts)[i - 1] \in Seq(Tokens) /\ parts[i] \in Seq(Tokens)
          /\ Len(Joined(parts)[i - 1]) \in Nat
      BY <2>1, JoinedText, LenProperties DEF Parts
    <2>3. <<"comma">> \o parts[i] \in Seq(Tokens)  BY <1>0, <2>2, ConcatProperties
    <2>4. Joined(parts)[i] = Joined(parts)[i - 1] \o (<<"comma">> \o parts[i])
      BY <1>1, JoinedSteps DEF Parts
    <2> DEFINE a == Joined(parts)[i - 1]
    <2> HIDE DEF a
    <2>5. Has(t, p, a \o (<<"comma">> \o parts[i])) /\ a \in Seq(Tokens) /\ Len(a) \in Nat
      BY <1>1, <2>2, <2>4 DEF a
    <2>6. Has(t, p, a) /\ Has(t, p + Len(a), <<"comma">> \o parts[i])
      BY <2>3, <2>5, HasConcat
    <2>7. p + Len(a) \in Nat  BY <2>5
    <2>8. /\ Has(t, p + Len(a), <<"comma">>)
          /\ Has(t, p + Len(a) + Len(<<"comma">>), parts[i])
      BY <1>0, <2>2, <2>6, <2>7, HasConcat
    <2> QED  BY <1>0, <2>6, <2>8 DEF a
  <1>2. ASSUME NEW i \in 0..n, \A j \in 0..n : i < j => j \in S PROVE i \in S
    <2>1. CASE i = 0  BY <2>1
    <2>2. CASE i = n /\ i # 0  BY <2>2, SeparatedIsJoined
    <2>3. CASE i # n /\ i # 0
      <3>1. i + 1 \in 1..n /\ i + 1 # 1 /\ (i + 1) - 1 = i /\ i < i + 1  BY <2>3 DEF Parts
      <3>2. i + 1 \in 0..n /\ i + 1 # 0  BY <3>1
      <3>3. i + 1 \in S  BY <1>2, <3>1, <3>2
      <3>4. Has(t, p, Joined(parts)[i + 1])  BY <3>2, <3>3
      <3> QED  BY <1>1, <3>1, <3>4
    <2> QED  BY <2>1, <2>2, <2>3
  <1>3. k \in S
    <2>1. n \in Nat /\ k \in 0..n  BY DEF Parts
    <2> HIDE DEF S
    <2> QED  BY <1>2, <2>1, InductBack
  <1>4. Has(t, p, Joined(parts)[k])  BY <1>3
  <1>5. Len(parts[k]) \in Nat /\ Len(Joined(parts)[k]) \in Nat
    BY JoinedText, LenProperties DEF Parts
  <1>6. Has(t, p + Offset(parts, k), parts[k])
    <2>1. CASE k = 1
      <3>1. Joined(parts)[k] = parts[k]  BY <2>1, JoinedSteps DEF Parts
      <3>2. Offset(parts, k) = 0 /\ p + 0 = p  BY <2>1, OffsetFacts
      <3> QED  BY <1>4, <3>1, <3>2
    <2>2. CASE k # 1
      <3>1. k - 1 \in 1..n /\ k - 1 < n /\ (k - 1) + 1 = k  BY <2>2 DEF Parts
      <3>2. Offset(parts, k) = Offset(parts, k - 1) + Len(parts[k - 1]) + 1
        BY <3>1, OffsetFacts
      <3>3. Len(Joined(parts)[k - 1]) \in Nat /\ Len(parts[k - 1]) \in Nat
        BY <3>1, JoinedText, LenProperties DEF Parts
      <3> DEFINE a == Len(Joined(parts)[k - 1])
                 b == Len(parts[k - 1])
      <3>5. Offset(parts, k - 1) = a - b  BY DEF Offset
      <3>6. Offset(parts, k) = (a - b) + b + 1  BY <3>2, <3>5
      <3>7. a \in Nat /\ b \in Nat  BY <3>3
      <3>8. p + Offset(parts, k) = p + a + 1
        <4> HIDE DEF a, b
        <4> QED  BY <3>6, <3>7
      <3>4. p + Offset(parts, k) = p + Len(Joined(parts)[k - 1]) + 1  BY <3>8
      <3> QED  BY <1>1, <1>4, <2>2, <3>4
    <2> QED  BY <2>1, <2>2
  <1>7. ASSUME k < n PROVE Peek(t, p + Offset(parts, k) + Len(parts[k])) = "comma"
    <2>1. /\ k + 1 \in 1..n /\ k + 1 \in 0..n /\ k + 1 # 1 /\ k + 1 # 0 /\ (k + 1) - 1 = k
      BY <1>7 DEF Parts
    <2>2. k + 1 \in S
      <3>1. n \in Nat  BY DEF Parts
      <3> HIDE DEF S
      <3> QED  BY <1>2, <2>1, <3>1, InductBack
    <2>3. Has(t, p, Joined(parts)[k + 1])  BY <2>1, <2>2
    <2>4. Has(t, p + Len(Joined(parts)[k]), <<"comma">>)  BY <1>1, <2>1, <2>3
    <2>5. Peek(t, p + Len(Joined(parts)[k]) + 1 - 1) = "comma"  BY <2>4 DEF Has
    <2>6. p + Len(Joined(parts)[k]) + 1 - 1 = p + Offset(parts, k) + Len(parts[k])
      BY <1>5 DEF Offset
    <2> QED  BY <2>5, <2>6
  <1> QED  BY <1>6, <1>7

LEMMA HasOne ==
    ASSUME NEW t, NEW p \in Nat, NEW a
    PROVE  Has(t, p, <<a>>) <=> Peek(t, p) = a
  <1>1. p + 1 - 1 = p  OBVIOUS
  <1> QED  BY <1>1 DEF Has

LEMMA HasThree ==
    ASSUME NEW t, NEW p \in Nat, NEW a, NEW b, NEW c
    PROVE  Has(t, p, <<a, b, c>>) <=>
              Peek(t, p) = a /\ Peek(t, p + 1) = b /\ Peek(t, p + 2) = c
  <1> DEFINE s == <<a, b, c>>
  <1>1. p + 1 - 1 = p /\ p + 2 - 1 = p + 1 /\ p + 3 - 1 = p + 2  OBVIOUS
  <1>2. s[1] = a /\ s[2] = b /\ s[3] = c /\ 1..Len(s) = {1, 2, 3}  OBVIOUS
  <1> HIDE DEF s
  <1>3. Has(t, p, s) <=> Peek(t, p) = a /\ Peek(t, p + 1) = b /\ Peek(t, p + 2) = c
    BY <1>1, <1>2 DEF Has
  <1> QED  BY <1>3 DEF s

Glued(whole, a, b, c) == whole = (a \o b) \o c \/ whole = a \o (b \o c)

LongAsAll(whole, a, b, c) == Len(whole) = Len(a) + Len(b) + Len(c)

LEMMA GluedText ==
    ASSUME NEW a \in Seq(Tokens), NEW b \in Seq(Tokens), NEW c \in Seq(Tokens), NEW whole,
           Glued(whole, a, b, c)
    PROVE  whole \in Seq(Tokens) /\ LongAsAll(whole, a, b, c)
  <1>1. Len(a) \in Nat /\ Len(b) \in Nat /\ Len(c) \in Nat  BY LenProperties
  <1>2. CASE whole = (a \o b) \o c
    <2> DEFINE ab == a \o b
    <2>1. ab \in Seq(Tokens) /\ Len(ab) = Len(a) + Len(b)  BY ConcatProperties
    <2>2. whole = ab \o c  BY <1>2
    <2> HIDE DEF ab
    <2>3. whole \in Seq(Tokens) /\ Len(whole) = Len(ab) + Len(c)  BY <2>1, <2>2, ConcatProperties
    <2> QED  BY <1>1, <2>1, <2>3 DEF LongAsAll
  <1>3. CASE whole = a \o (b \o c)
    <2> DEFINE bc == b \o c
    <2>1. bc \in Seq(Tokens) /\ Len(bc) = Len(b) + Len(c)  BY ConcatProperties
    <2>2. whole = a \o bc  BY <1>3
    <2> HIDE DEF bc
    <2>3. whole \in Seq(Tokens) /\ Len(whole) = Len(a) + Len(bc)  BY <2>1, <2>2, ConcatProperties
    <2> QED  BY <1>1, <2>1, <2>3 DEF LongAsAll
  <1> QED  BY <1>2, <1>3 DEF Glued

LEMMA HasGlued ==
    ASSUME NEW a \in Seq(Tokens), NEW b \in Seq(Tokens), NEW c \in Seq(Tokens), NEW whole,
           Glued(whole, a, b, c), NEW t, NEW p \in Nat, Has(t, p, whole)
    PROVE  Has(t, p, a) /\ Has(t, p + Len(a), b) /\ Has(t, p + Len(a) + Len(b), c)
  <1>1. Len(a) \in Nat /\ Len(b) \in Nat /\ Len(c) \in Nat  BY LenProperties
  <1>2. CASE whole = (a \o b) \o c
    <2> DEFINE ab == a \o b
    <2>1. ab \in Seq(Tokens) /\ Len(ab) = Len(a) + Len(b)  BY ConcatProperties
    <2>2. whole = ab \o c  BY <1>2
    <2>3. Has(t, p, ab) => Has(t, p, a) /\ Has(t, p + Len(a), b)  BY HasConcat
    <2> HIDE DEF ab
    <2>4. Has(t, p, ab) /\ Has(t, p + Len(ab), c)  BY <2>1, <2>2, HasConcat
    <2>5. p + Len(ab) = p + Len(a) + Len(b)  BY <1>1, <2>1
    <2> QED  BY <2>3, <2>4, <2>5
  <1>3. CASE whole = a \o (b \o c)
    <2> DEFINE bc == b \o c
    <2>1. bc \in Seq(Tokens) /\ whole = a \o bc  BY <1>3, ConcatProperties
    <2>2. p + Len(a) \in Nat  BY <1>1
    <2>3. Has(t, p + Len(a), bc) => Has(t, p + Len(a), b) /\ Has(t, p + Len(a) + Len(b), c)
      BY <2>2, HasConcat
    <2> HIDE DEF bc
    <2>4. Has(t, p, a) /\ Has(t, p + Len(a), bc)  BY <2>1, HasConcat
    <2> QED  BY <2>3, <2>4
  <1> QED  BY <1>2, <1>3 DEF Glued

LEMMA OnePart ==
    ASSUME NEW parts, Len(parts) = 1, parts[1] \in Seq(Tokens)
    PROVE  Separated(parts) = parts[1]
  <1>1. \A i \in 1..Len(parts) : i = 1  OBVIOUS
  <1>2. Len(parts) \in Nat /\ Len(parts) # 0 /\ 1 \in 1..Len(parts)  OBVIOUS
  <1>3. Parts(parts)
    <2>1. \A i \in 1..Len(parts) : parts[i] \in Seq(Tokens)  BY <1>1
    <2> QED  BY <1>2, <2>1 DEF Parts
  <1>4. Separated(parts) = Joined(parts)[1]  BY <1>2, <1>3, SeparatedIsJoined
  <1>5. Joined(parts)[1] = parts[1]  BY <1>2, JoinedSteps
  <1> QED  BY <1>4, <1>5

LEMMA TwoParts ==
    ASSUME NEW parts, Len(parts) = 2, parts[1] \in Seq(Tokens), parts[2] \in Seq(Tokens)
    PROVE  Separated(parts) = parts[1] \o (<<"comma">> \o parts[2])
  <1>1. \A i \in 1..Len(parts) : i = 1 \/ i = 2  OBVIOUS
  <1>2. Len(parts) \in Nat /\ Len(parts) # 0 /\ 1 \in 1..Len(parts) /\ 2 \in 1..Len(parts)
    OBVIOUS
  <1>3. Parts(parts)
    <2>1. \A i \in 1..Len(parts) : parts[i] \in Seq(Tokens)  BY <1>1
    <2> QED  BY <1>2, <2>1 DEF Parts
  <1>4. Separated(parts) = Joined(parts)[2]  BY <1>2, <1>3, SeparatedIsJoined
  <1>5. Joined(parts)[1] = parts[1]  BY <1>2, JoinedSteps
  <1>6. 2 - 1 = 1 /\ 2 # 1  OBVIOUS
  <1>7. Joined(parts)[2] = Joined(parts)[1] \o (<<"comma">> \o parts[2])
    BY <1>2, <1>6, JoinedSteps
  <1> QED  BY <1>4, <1>5, <1>7

LEMMA FewParts ==
    ASSUME NEW a \in Seq(Tokens), NEW b \in Seq(Tokens)
    PROVE  Separated(<<a>>) = a /\ Separated(<<a, b>>) = a \o (<<"comma">> \o b)
  <1>1. Separated(<<a>>) = a
    <2> DEFINE parts == <<a>>
    <2>1. Len(parts) = 1 /\ parts[1] = a  OBVIOUS
    <2> HIDE DEF parts
    <2>2. Separated(parts) = parts[1]  BY <2>1, OnePart
    <2> QED  BY <2>1, <2>2 DEF parts
  <1>2. Separated(<<a, b>>) = a \o (<<"comma">> \o b)
    <2> DEFINE parts == <<a, b>>
    <2>1. Len(parts) = 2 /\ parts[1] = a /\ parts[2] = b  OBVIOUS
    <2> HIDE DEF parts
    <2>2. Separated(parts) = parts[1] \o (<<"comma">> \o parts[2])  BY <2>1, TwoParts
    <2> QED  BY <2>1, <2>2 DEF parts
  <1> QED  BY <1>1, <1>2

-----------------------------------------------------------------------------
(* Where everything stands in a reply                                        *)

CellParts(cells) == [j \in 1..Len(cells) |-> <<cells[j].column, "comma">> \o cells[j].value]
RowParts(r) == [i \in 1..Len(r.rows) |-> RenderRow(r.rows[i], r.rowId)]
NameParts(r) == [i \in 1..Len(r.names) |-> <<r.names[i]>>]

IsRow(cells) == Len(cells) \in Nat /\ \A j \in 1..Len(cells) : IsCell(cells[j])

LEMMA Literals ==
    /\ {"lbrace", "rbrace", "lbracket", "rbracket", "colon", "comma"} \subseteq Tokens
    /\ {"rows", "cells", "row_id", "truncated", "x", "true", "false"} \subseteq Tokens
    /\ {"rows", "cells", "row_id", "truncated", "x"} \subseteq Strings
    /\ Strings \subseteq Tokens /\ DOMAIN Numbers \subseteq Tokens
  BY TokenAssumption DEF Tokens, Structure, Scalars

LEMMA CellPart ==
    ASSUME NEW cells, IsRow(cells)
    PROVE  /\ Parts(CellParts(cells)) /\ Len(CellParts(cells)) = Len(cells)
           /\ RenderCells(cells) = Separated(CellParts(cells))
           /\ RenderCells(cells) \in Seq(Tokens)
           /\ \A j \in 1..Len(cells) :
                 /\ CellParts(cells)[j] = <<cells[j].column, "comma">> \o cells[j].value
                 /\ Len(cells[j].value) \in Nat /\ cells[j].value \in Seq(Tokens)
                 /\ Len(CellParts(cells)[j]) = 2 + Len(cells[j].value)
                 /\ <<cells[j].column, "comma">> \in Seq(Tokens)
  <1>1. ASSUME NEW j \in 1..Len(cells)
        PROVE  /\ <<cells[j].column, "comma">> \in Seq(Tokens)
               /\ cells[j].value \in Seq(Tokens) /\ Len(cells[j].value) \in Nat
               /\ <<cells[j].column, "comma">> \o cells[j].value \in Seq(Tokens)
               /\ Len(<<cells[j].column, "comma">> \o cells[j].value) = 2 + Len(cells[j].value)
    <2>1. cells[j].column \in Tokens /\ "comma" \in Tokens  BY Literals DEF IsRow, IsCell
    <2>2. cells[j].value \in Seq(Tokens)  BY DEF IsRow, IsCell, IsJson
    <2>3. <<cells[j].column, "comma">> \in Seq(Tokens) /\ Len(<<cells[j].column, "comma">>) = 2
      BY <2>1
    <2>4. Len(cells[j].value) \in Nat  BY <2>2, LenProperties
    <2> QED  BY <2>2, <2>3, <2>4, ConcatProperties
  <1>2. Len(CellParts(cells)) = Len(cells)  BY DEF CellParts, IsRow
  <1>3. \A j \in 1..Len(cells) :
           CellParts(cells)[j] = <<cells[j].column, "comma">> \o cells[j].value
    BY DEF CellParts
  <1>4. Parts(CellParts(cells))  BY <1>1, <1>2, <1>3 DEF Parts, IsRow
  <1>5. RenderCells(cells) = Separated(CellParts(cells))  BY DEF RenderCells, CellParts
  <1> QED  BY <1>1, <1>2, <1>3, <1>4, <1>5, SeparatedIsJoined

(* A row is an object with an array of cells in it, a reply an object with   *)
(* an array of rows; another member may stand before the array or behind it. *)
ObjectOf(name, array, place, key, word) ==
    LET other == <<key, "colon", word>>
        body == <<name, "colon", "lbracket">> \o array \o <<"rbracket">>
    IN  <<"lbrace">> \o Separated(CASE place = "first" -> <<other, body>>
                                   [] place = "last" -> <<body, other>>
                                   [] OTHER -> <<body>>) \o <<"rbrace">>

(* Where the array begins and ends in an object that stands at p.            *)
ArrayFrom(p, place) == p + (IF place = "first" THEN 8 ELSE 4)
ArrayTo(p, array, place) == ArrayFrom(p, place) + Len(array)

ObjectLayout(t, p, name, array, place, key, word) ==
    LET from == ArrayFrom(p, place)
        to == ArrayTo(p, array, place)
    IN  /\ Peek(t, p) = "lbrace"
        /\ Peek(t, from - 3) = name /\ Peek(t, from - 2) = "colon"
        /\ Peek(t, from - 1) = "lbracket"
        /\ Has(t, from, array)
        /\ Peek(t, to) = "rbracket"
        /\ place = "first" => /\ Peek(t, p + 1) = key /\ Peek(t, p + 2) = "colon"
                              /\ Peek(t, p + 3) = word /\ Peek(t, p + 4) = "comma"
        /\ place # "last" => Peek(t, to + 1) = "rbrace"
        /\ place = "last" => /\ Peek(t, to + 1) = "comma"
                             /\ Peek(t, to + 2) = key /\ Peek(t, to + 3) = "colon"
                             /\ Peek(t, to + 4) = word /\ Peek(t, to + 5) = "rbrace"

LongBy(whole, m, n) == Len(whole) = Len(m) + n
Braced(t, p, m) ==
    /\ Peek(t, p) = "lbrace" /\ Has(t, p + 1, m) /\ Peek(t, p + 1 + Len(m)) = "rbrace"

ObjectFacts(whole, name, c, place, key, word) ==
    /\ whole \in Seq(Tokens)
    /\ Len(whole) = Len(c) + (IF place = "none" THEN 6 ELSE 10)
    /\ \A t : \A p \in Nat :
          Has(t, p, whole) => ObjectLayout(t, p, name, c, place, key, word)

LEMMA ObjectText ==
    ASSUME NEW name \in Tokens, NEW c \in Seq(Tokens), NEW place \in {"first", "last", "none"},
           NEW key \in Tokens, NEW word \in Tokens,
           NEW whole, whole = ObjectOf(name, c, place, key, word)
    PROVE  ObjectFacts(whole, name, c, place, key, word)
  <1> DEFINE id == <<key, "colon", word>>
             head == <<name, "colon", "lbracket">>
             body == (head \o c) \o <<"rbracket">>
             open == <<"lbrace">>
             shut == <<"rbrace">>
             comma == <<"comma">>
  <1>1. /\ id \in Seq(Tokens) /\ Len(id) = 3 /\ head \in Seq(Tokens) /\ Len(head) = 3
        /\ open \in Seq(Tokens) /\ Len(open) = 1 /\ shut \in Seq(Tokens) /\ Len(shut) = 1
        /\ comma \in Seq(Tokens) /\ Len(comma) = 1
        /\ <<"rbracket">> \in Seq(Tokens) /\ Len(<<"rbracket">>) = 1
    BY Literals
  <1>2. c \in Seq(Tokens) /\ Len(c) \in Nat  BY LenProperties
  <1>3. whole =
           open \o Separated(CASE place = "first" -> <<id, body>>
                                [] place = "last" -> <<body, id>>
                                [] OTHER -> <<body>>) \o shut
    BY DEF ObjectOf
  <1> HIDE DEF id, head, open, shut, comma
  <1>4. Glued(body, head, c, <<"rbracket">>)  BY DEF Glued
  <1>5. body \in Seq(Tokens) /\ Len(body) = 4 + Len(c)
    <2> DEFINE b == <<"rbracket">>
    <2>1. b \in Seq(Tokens) /\ Len(b) = 1 /\ Glued(body, head, c, b)  BY <1>1, <1>4
    <2> HIDE DEF b, body
    <2>2. body \in Seq(Tokens) /\ LongAsAll(body, head, c, b)
      BY <1>1, <1>2, <2>1, GluedText
    <2> QED  BY <1>1, <1>2, <2>1, <2>2 DEF LongAsAll
  <1>6. ASSUME NEW t, NEW q \in Nat, Has(t, q, body)
        PROVE  /\ Peek(t, q) = name /\ Peek(t, q + 1) = "colon" /\ Peek(t, q + 2) = "lbracket"
               /\ Has(t, q + 3, c) /\ Peek(t, q + 3 + Len(c)) = "rbracket"
    <2> HIDE DEF body
    <2>1. /\ Has(t, q, head) /\ Has(t, q + Len(head), c)
          /\ Has(t, q + Len(head) + Len(c), <<"rbracket">>)
      BY <1>1, <1>2, <1>4, <1>6, HasGlued
    <2>2. Has(t, q, head) /\ Has(t, q + Len(head), c)  BY <2>1
    <2>3. q + Len(head) + Len(c) = q + 3 + Len(c) /\ q + 3 + Len(c) \in Nat  BY <1>1, <1>2
    <2>4. Has(t, q + 3 + Len(c), <<"rbracket">>)  BY <2>1, <2>3
    <2>5. Peek(t, q + 3 + Len(c)) = "rbracket"  BY <2>3, <2>4, HasOne
    <2>6. Peek(t, q) = name /\ Peek(t, q + 1) = "colon" /\ Peek(t, q + 2) = "lbracket"
      BY <2>2, HasThree DEF head
    <2> QED  BY <1>1, <2>2, <2>5, <2>6
  <1> HIDE DEF body
  <1>7. ASSUME NEW t, NEW q \in Nat, Has(t, q, id)
        PROVE  Peek(t, q) = key /\ Peek(t, q + 1) = "colon" /\ Peek(t, q + 2) = word
    BY <1>7, HasThree DEF id
  <1> DEFINE pair == id \o (comma \o body)
             riap == body \o (comma \o id)
  <1>19. Glued(pair, id, comma, body) /\ Glued(riap, body, comma, id)  BY DEF Glued
  <1>9. /\ Separated(<<body>>) = body
        /\ Separated(<<id, body>>) = pair
        /\ Separated(<<body, id>>) = riap
    BY <1>1, <1>5, FewParts DEF comma
  <1>10. /\ place = "none" => whole = (open \o body) \o shut
         /\ place = "first" => whole = (open \o pair) \o shut
         /\ place = "last" => whole = (open \o riap) \o shut
    BY <1>3, <1>9
  <1> HIDE DEF pair, riap
  <1>8. pair \in Seq(Tokens) /\ riap \in Seq(Tokens)  BY <1>1, <1>5, <1>19, GluedText
  <1>11. Len(pair) = 3 + 1 + Len(body) /\ Len(riap) = Len(body) + 1 + 3
    <2>1. LongAsAll(pair, id, comma, body)  BY <1>1, <1>5, <1>19, GluedText
    <2>2. LongAsAll(riap, body, comma, id)  BY <1>1, <1>5, <1>19, GluedText
    <2> QED  BY <1>1, <1>2, <1>5, <2>1, <2>2 DEF LongAsAll
  <1>12. ASSUME NEW t, NEW q \in Nat, Has(t, q, pair)
         PROVE  Has(t, q, id) /\ Peek(t, q + 3) = "comma" /\ Has(t, q + 4, body)
    <2>1. Has(t, q, id) /\ Has(t, q + Len(id), comma) /\ Has(t, q + Len(id) + Len(comma), body)
      BY <1>1, <1>5, <1>12, <1>19, HasGlued
    <2>2. q + Len(id) = q + 3 /\ q + Len(id) + Len(comma) = q + 4 /\ q + 3 \in Nat  BY <1>1
    <2>3. Has(t, q + 3, comma) /\ Has(t, q + 4, body)  BY <2>1, <2>2
    <2>4. Peek(t, q + 3) = "comma"  BY <2>2, <2>3, HasOne DEF comma
    <2> QED  BY <2>1, <2>3, <2>4
  <1>13. ASSUME NEW t, NEW q \in Nat, Has(t, q, riap)
         PROVE  /\ Has(t, q, body) /\ Peek(t, q + 4 + Len(c)) = "comma"
                /\ Has(t, q + 5 + Len(c), id)
    <2>0. /\ Glued(riap, body, comma, id) /\ body \in Seq(Tokens)
          /\ comma \in Seq(Tokens) /\ id \in Seq(Tokens)
      BY <1>1, <1>5, <1>19
    <2>1. Has(t, q, body) /\ Has(t, q + Len(body), comma) /\ Has(t, q + Len(body) + Len(comma), id)
      BY <1>13, <2>0, HasGlued
    <2>2. /\ q + Len(body) = q + 4 + Len(c) /\ q + Len(body) + Len(comma) = q + 5 + Len(c)
          /\ q + 4 + Len(c) \in Nat
      BY <1>1, <1>2, <1>5
    <2>3. Has(t, q + 4 + Len(c), comma) /\ Has(t, q + 5 + Len(c), id)  BY <2>1, <2>2
    <2>4. Peek(t, q + 4 + Len(c)) = "comma"  BY <2>2, <2>3, HasOne DEF comma
    <2> QED  BY <2>1, <2>3, <2>4
  <1>14. ASSUME NEW m \in Seq(Tokens),
                NEW w, w = (open \o m) \o shut
         PROVE  /\ w \in Seq(Tokens) /\ LongBy(w, m, 2)
                /\ \A t : \A p \in Nat : Has(t, p, w) => Braced(t, p, m)
    <2>1. Glued(w, open, m, shut) /\ Len(m) \in Nat  BY <1>14, LenProperties DEF Glued
    <2>5. w \in Seq(Tokens) /\ LongAsAll(w, open, m, shut)
      BY <1>1, <2>1, GluedText
    <2>2. w \in Seq(Tokens) /\ Len(w) = 1 + Len(m) + 1  BY <1>1, <2>1, <2>5 DEF LongAsAll
    <2>3. ASSUME NEW t, NEW p \in Nat, Has(t, p, w)
          PROVE  /\ Peek(t, p) = "lbrace" /\ Has(t, p + 1, m)
                 /\ Peek(t, p + 1 + Len(m)) = "rbrace"
      <3>5. Has(t, p, open) /\ Has(t, p + Len(open), m) /\ Has(t, p + Len(open) + Len(m), shut)
        BY <1>1, <2>1, <2>3, HasGlued
      <3>1. Has(t, p, open) /\ Has(t, p + 1, m) /\ Has(t, p + 1 + Len(m), shut)
        BY <1>1, <3>5
      <3>2. Peek(t, p) = "lbrace"  BY <3>1, HasOne DEF open
      <3>3. p + 1 + Len(m) \in Nat  BY <2>1
      <3>4. Peek(t, p + 1 + Len(m)) = "rbrace"  BY <3>1, <3>3, HasOne DEF shut
      <3> QED  BY <3>1, <3>2, <3>4
    <2>4. Len(w) = Len(m) + 2  BY <2>1, <2>2
    <2> QED  BY <2>2, <2>3, <2>4 DEF LongBy, Braced
  <1>15. CASE place = "none"
    <2>1. whole = (open \o body) \o shut  BY <1>10, <1>15
    <2>4. /\ whole \in Seq(Tokens) /\ LongBy(whole, body, 2)
          /\ \A t : \A p \in Nat : Has(t, p, whole) => Braced(t, p, body)
      BY <1>5, <1>14, <2>1
    <2>2. ASSUME NEW t, NEW p \in Nat, Has(t, p, whole)
          PROVE  ObjectLayout(t, p, name, c, place, key, word)
      <3>1. /\ Peek(t, p) = "lbrace" /\ Has(t, p + 1, body)
            /\ Peek(t, p + 1 + Len(body)) = "rbrace"
        BY <2>2, <2>4 DEF Braced
      <3>2. p + 1 \in Nat  OBVIOUS
      <3>3. /\ Peek(t, p + 1) = name /\ Peek(t, p + 1 + 1) = "colon" /\ Peek(t, p + 1 + 2) = "lbracket"
            /\ Has(t, p + 1 + 3, c) /\ Peek(t, p + 1 + 3 + Len(c)) = "rbracket"
        BY <1>6, <3>1, <3>2
      <3>4. /\ ArrayFrom(p, place) = p + 4 /\ ArrayTo(p, c, place) = p + 4 + Len(c)
        BY <1>15 DEF ArrayFrom, ArrayTo
      <3>5. /\ p + 4 - 3 = p + 1 /\ p + 4 - 2 = p + 1 + 1 /\ p + 4 - 1 = p + 1 + 2 /\ p + 1 + 3 = p + 4
            /\ p + 1 + 3 + Len(c) = p + 4 + Len(c) /\ p + 1 + Len(body) = p + 4 + Len(c) + 1
        BY <1>2, <1>5
      <3>6. /\ Peek(t, p + 4 - 3) = name /\ Peek(t, p + 4 - 2) = "colon" /\ Peek(t, p + 4 - 1) = "lbracket"
            /\ Has(t, p + 4, c) /\ Peek(t, p + 4 + Len(c)) = "rbracket"
            /\ Peek(t, p + 4 + Len(c) + 1) = "rbrace"
        BY <3>1, <3>3, <3>5
      <3> QED  BY <1>15, <3>1, <3>4, <3>6 DEF ObjectLayout
    <2>3. Len(whole) = Len(c) + 6  BY <1>2, <1>5, <2>4 DEF LongBy
    <2>5. Len(whole) = Len(c) + (IF place = "none" THEN 6 ELSE 10)  BY <1>15, <2>3
    <2> QED  BY <2>2, <2>4, <2>5 DEF ObjectFacts
  <1>16. CASE place = "first"
    <2>1. whole = (open \o pair) \o shut  BY <1>10, <1>16
    <2>4. /\ whole \in Seq(Tokens) /\ LongBy(whole, pair, 2)
          /\ \A t : \A p \in Nat : Has(t, p, whole) => Braced(t, p, pair)
      BY <1>8, <1>14, <2>1
    <2>2. ASSUME NEW t, NEW p \in Nat, Has(t, p, whole)
          PROVE  ObjectLayout(t, p, name, c, place, key, word)
      <3>1. /\ Peek(t, p) = "lbrace" /\ Has(t, p + 1, pair)
            /\ Peek(t, p + 1 + Len(pair)) = "rbrace"
        BY <2>2, <2>4 DEF Braced
      <3>2. p + 1 \in Nat /\ p + 1 + 4 \in Nat  OBVIOUS
      <3>3. Has(t, p + 1, id) /\ Peek(t, p + 1 + 3) = "comma" /\ Has(t, p + 1 + 4, body)
        BY <1>12, <3>1, <3>2
      <3>4. Peek(t, p + 1) = key /\ Peek(t, p + 1 + 1) = "colon" /\ Peek(t, p + 1 + 2) = word
        BY <1>7, <3>2, <3>3
      <3>5. /\ Peek(t, p + 1 + 4) = name /\ Peek(t, p + 1 + 4 + 1) = "colon"
            /\ Peek(t, p + 1 + 4 + 2) = "lbracket"
            /\ Has(t, p + 1 + 4 + 3, c) /\ Peek(t, p + 1 + 4 + 3 + Len(c)) = "rbracket"
        BY <1>6, <3>2, <3>3
      <3>6. /\ ArrayFrom(p, place) = p + 8 /\ ArrayTo(p, c, place) = p + 8 + Len(c)
        BY <1>16 DEF ArrayFrom, ArrayTo
      <3>7. /\ p + 8 - 3 = p + 1 + 4 /\ p + 8 - 2 = p + 1 + 4 + 1 /\ p + 8 - 1 = p + 1 + 4 + 2
            /\ p + 1 + 4 + 3 = p + 8 /\ p + 1 + 4 + 3 + Len(c) = p + 8 + Len(c)
            /\ p + 1 + Len(pair) = p + 8 + Len(c) + 1
            /\ p + 1 + 1 = p + 2 /\ p + 1 + 2 = p + 3 /\ p + 1 + 3 = p + 4
        BY <1>2, <1>5, <1>11
      <3>8. /\ Peek(t, p + 8 - 3) = name /\ Peek(t, p + 8 - 2) = "colon" /\ Peek(t, p + 8 - 1) = "lbracket"
            /\ Has(t, p + 8, c) /\ Peek(t, p + 8 + Len(c)) = "rbracket"
            /\ Peek(t, p + 8 + Len(c) + 1) = "rbrace"
            /\ Peek(t, p + 2) = "colon" /\ Peek(t, p + 3) = word /\ Peek(t, p + 4) = "comma"
        BY <3>1, <3>3, <3>4, <3>5, <3>7
      <3> QED  BY <1>16, <3>1, <3>4, <3>6, <3>8 DEF ObjectLayout
    <2>3. Len(whole) = Len(c) + 10  BY <1>2, <1>5, <1>11, <2>4 DEF LongBy
    <2>5. Len(whole) = Len(c) + (IF place = "none" THEN 6 ELSE 10)  BY <1>16, <2>3
    <2> QED  BY <2>2, <2>4, <2>5 DEF ObjectFacts
  <1>17. CASE place = "last"
    <2>1. whole = (open \o riap) \o shut  BY <1>10, <1>17
    <2>4. /\ whole \in Seq(Tokens) /\ LongBy(whole, riap, 2)
          /\ \A t : \A p \in Nat : Has(t, p, whole) => Braced(t, p, riap)
      BY <1>8, <1>14, <2>1
    <2>2. ASSUME NEW t, NEW p \in Nat, Has(t, p, whole)
          PROVE  ObjectLayout(t, p, name, c, place, key, word)
      <3>1. /\ Peek(t, p) = "lbrace" /\ Has(t, p + 1, riap)
            /\ Peek(t, p + 1 + Len(riap)) = "rbrace"
        BY <2>2, <2>4 DEF Braced
      <3>2. p + 1 \in Nat /\ p + 1 + 5 + Len(c) \in Nat  BY <1>2
      <3>3. /\ Has(t, p + 1, body) /\ Peek(t, p + 1 + 4 + Len(c)) = "comma"
            /\ Has(t, p + 1 + 5 + Len(c), id)
        BY <1>13, <3>1, <3>2
      <3>4. /\ Peek(t, p + 1 + 5 + Len(c)) = key /\ Peek(t, p + 1 + 5 + Len(c) + 1) = "colon"
            /\ Peek(t, p + 1 + 5 + Len(c) + 2) = word
        BY <1>7, <3>2, <3>3
      <3>5. /\ Peek(t, p + 1) = name /\ Peek(t, p + 1 + 1) = "colon" /\ Peek(t, p + 1 + 2) = "lbracket"
            /\ Has(t, p + 1 + 3, c) /\ Peek(t, p + 1 + 3 + Len(c)) = "rbracket"
        BY <1>6, <3>2, <3>3
      <3>6. /\ ArrayFrom(p, place) = p + 4 /\ ArrayTo(p, c, place) = p + 4 + Len(c)
        BY <1>17 DEF ArrayFrom, ArrayTo
      <3>7. /\ p + 4 - 3 = p + 1 /\ p + 4 - 2 = p + 1 + 1 /\ p + 4 - 1 = p + 1 + 2 /\ p + 1 + 3 = p + 4
            /\ p + 1 + 3 + Len(c) = p + 4 + Len(c) /\ p + 1 + 4 + Len(c) = p + 4 + Len(c) + 1
            /\ p + 1 + 5 + Len(c) = p + 4 + Len(c) + 2 /\ p + 1 + 5 + Len(c) + 1 = p + 4 + Len(c) + 3
            /\ p + 1 + 5 + Len(c) + 2 = p + 4 + Len(c) + 4 /\ p + 1 + Len(riap) = p + 4 + Len(c) + 5
        BY <1>2, <1>5, <1>11
      <3>8. /\ Peek(t, p + 4 - 3) = name /\ Peek(t, p + 4 - 2) = "colon" /\ Peek(t, p + 4 - 1) = "lbracket"
            /\ Has(t, p + 4, c) /\ Peek(t, p + 4 + Len(c)) = "rbracket"
        BY <3>5, <3>7
      <3>9. /\ Peek(t, p + 4 + Len(c) + 1) = "comma" /\ Peek(t, p + 4 + Len(c) + 2) = key
            /\ Peek(t, p + 4 + Len(c) + 3) = "colon" /\ Peek(t, p + 4 + Len(c) + 4) = word
            /\ Peek(t, p + 4 + Len(c) + 5) = "rbrace"
        BY <3>1, <3>3, <3>4, <3>7
      <3> QED  BY <1>17, <3>1, <3>6, <3>8, <3>9 DEF ObjectLayout
    <2>3. Len(whole) = Len(c) + 10  BY <1>2, <1>5, <1>11, <2>4 DEF LongBy
    <2>5. Len(whole) = Len(c) + (IF place = "none" THEN 6 ELSE 10)  BY <1>17, <2>3
    <2> QED  BY <2>2, <2>4, <2>5 DEF ObjectFacts
  <1> QED  BY <1>15, <1>16, <1>17

(* A value is skipped wherever it stands.                                    *)
LEMMA ValueSkipped ==
    ASSUME NEW u, Len(u) \in Nat, NEW value, IsJson(value), NEW p \in Nat \ {0}, Has(u, p, value)
    PROVE  SkipValue(u, p) = p + Len(value)
  <1>1. Len(value) \in Nat  BY LenProperties DEF IsJson
  <1>2. ASSUME NEW q \in 0..Len(value) + 1, Peek(value, q) \notin Dead
        PROVE  Peek(u, (p - 1) + q) = Peek(value, q)
    <2>1. q \in Int /\ Peek(value, q) # "nothing"  BY <1>2 DEF Dead
    <2>2. q \in 1..Len(value) /\ Peek(value, q) = value[q]  BY <1>1, <2>1, PeekFacts
    <2>3. Peek(u, p + q - 1) = value[q]  BY <2>2 DEF Has
    <2>4. (p - 1) + q = p + q - 1  BY <2>1
    <2> QED  BY <2>2, <2>3, <2>4
  <1>3. Inside(value, p - 1, u)  BY <1>2 DEF Inside
  <1>4. Skip(value)[1]["value"] = Len(value) + 1  BY DEF IsJson, SkipValue
  <1>5. p - 1 \in Nat /\ 1 \in 0..Len(value) + 1 /\ (p - 1) + 1 = p  BY <1>1
  <1>6. Carried(value, p - 1, u, 1, "value")  BY <1>1, <1>3, <1>5, Transfer DEF Walks
  <1>7. Skip(u)[(p - 1) + 1]["value"] = (p - 1) + Skip(value)[1]["value"]
    BY <1>1, <1>4, <1>6 DEF Carried
  <1>8. (p - 1) + (Len(value) + 1) = p + Len(value)  BY <1>1
  <1> QED  BY <1>4, <1>5, <1>7, <1>8 DEF SkipValue

LEMMA OnText ==
    ASSUME NEW u, Len(u) \in Nat, NEW p \in Int, Peek(u, p) \in Tokens
    PROVE  p \in 1..Len(u) /\ p \in 0..Len(u) + 1
  <1>1. Peek(u, p) # "nothing"  BY TokenAssumption
  <1>2. p \in 1..Len(u)  BY <1>1, PeekFacts
  <1> QED  BY <1>2

(* Where the k-th cell of a row stands, and where it ends.                   *)
CellAt(from, cells, k) == from + Offset(CellParts(cells), k)
CellEnd(from, cells, k) == CellAt(from, cells, k) + 2 + Len(cells[k].value)

LEMMA CellLayout ==
    ASSUME NEW u, Len(u) \in Nat, NEW from \in Nat \ {0}, NEW cells, IsRow(cells),
           Has(u, from, RenderCells(cells)), NEW k \in 1..Len(cells)
    PROVE  /\ CellAt(from, cells, k) \in Nat \ {0}
           /\ k = 1 => CellAt(from, cells, k) = from
           /\ Peek(u, CellAt(from, cells, k)) = cells[k].column
           /\ Peek(u, CellAt(from, cells, k) + 1) = "comma"
           /\ Has(u, CellAt(from, cells, k) + 2, cells[k].value)
           /\ SkipValue(u, CellAt(from, cells, k) + 2) = CellEnd(from, cells, k)
           /\ CellEnd(from, cells, k) \in Nat
           /\ k < Len(cells) => /\ Peek(u, CellEnd(from, cells, k)) = "comma"
                                /\ CellAt(from, cells, k + 1) = CellEnd(from, cells, k) + 1
           /\ k = Len(cells) => CellEnd(from, cells, k) = from + Len(RenderCells(cells))
  <1> DEFINE parts == CellParts(cells)
             p == CellAt(from, cells, k)
             v == cells[k].value
             key == <<cells[k].column, "comma">>
  <1>1. /\ Parts(parts) /\ Len(parts) = Len(cells) /\ RenderCells(cells) = Separated(parts)
        /\ parts[k] = key \o v /\ Len(v) \in Nat /\ v \in Seq(Tokens)
        /\ Len(parts[k]) = 2 + Len(v) /\ key \in Seq(Tokens)
    BY CellPart
  <1>2. k \in 1..Len(parts)  BY <1>1
  <1>3. /\ Offset(parts, k) \in Nat
        /\ k = 1 => Offset(parts, k) = 0
        /\ k < Len(parts) => Offset(parts, k + 1) = Offset(parts, k) + Len(parts[k]) + 1
        /\ k = Len(parts) => Offset(parts, k) + Len(parts[k]) = Len(Separated(parts))
    <2> HIDE DEF parts
    <2> QED  BY <1>1, <1>2, OffsetFacts
  <1>4. /\ Has(u, from + Offset(parts, k), parts[k])
        /\ k < Len(parts) => Peek(u, from + Offset(parts, k) + Len(parts[k])) = "comma"
    <2>1. Has(u, from, Separated(parts))  BY <1>1
    <2> HIDE DEF parts
    <2> QED  BY <1>1, <1>2, <2>1, Slots
  <1>5. p = from + Offset(parts, k) /\ p \in Nat \ {0} /\ (k = 1 => p = from)
    BY <1>3 DEF CellAt
  <1>6. Len(key) = 2 /\ key[1] = cells[k].column /\ key[2] = "comma"  OBVIOUS
  <1>7. CellEnd(from, cells, k) = p + 2 + Len(v)  BY DEF CellEnd
  <1>8. CellAt(from, cells, k + 1) = from + Offset(parts, k + 1)  BY DEF CellAt
  <1>9. IsJson(v)  BY DEF IsRow, IsCell
  <1>10. Has(u, p, key \o v)  BY <1>1, <1>4, <1>5
  <1> HIDE DEF parts, p, v, key
  <1>11. Has(u, p, key) /\ Has(u, p + Len(key), v)  BY <1>1, <1>5, <1>10, HasConcat
  <1>12. Peek(u, p) = cells[k].column /\ Peek(u, p + 1) = "comma"
    <2>1. 1 \in 1..Len(key) /\ 2 \in 1..Len(key) /\ p + 1 - 1 = p /\ p + 2 - 1 = p + 1  BY <1>5, <1>6
    <2>2. Peek(u, p + 1 - 1) = key[1] /\ Peek(u, p + 2 - 1) = key[2]  BY <1>11, <2>1 DEF Has
    <2> QED  BY <1>6, <2>1, <2>2
  <1>13. Has(u, p + 2, v)  BY <1>6, <1>11
  <1>14. SkipValue(u, p + 2) = p + 2 + Len(v)
    <2>1. p + 2 \in Nat \ {0}  BY <1>5
    <2> QED  BY <1>9, <1>13, <2>1, ValueSkipped
  <1>15. p + 2 + Len(v) = from + Offset(parts, k) + Len(parts[k]) /\ p + 2 + Len(v) \in Nat
    BY <1>1, <1>3, <1>5
  <1>16. ASSUME k < Len(cells)
         PROVE  /\ Peek(u, p + 2 + Len(v)) = "comma"
                /\ from + Offset(parts, k + 1) = p + 2 + Len(v) + 1
    <2>1. k < Len(parts)  BY <1>1, <1>16
    <2>2. Offset(parts, k + 1) = Offset(parts, k) + Len(parts[k]) + 1  BY <1>3, <2>1
    <2>3. from + Offset(parts, k + 1) = from + Offset(parts, k) + Len(parts[k]) + 1
      <3> DEFINE x == Offset(parts, k)
                 y == Len(parts[k])
      <3>1. Offset(parts, k + 1) = x + y + 1 /\ x \in Nat /\ y \in Nat  BY <1>1, <1>3, <2>2
      <3> HIDE DEF x, y
      <3>2. from + Offset(parts, k + 1) = from + x + y + 1  BY <3>1
      <3> QED  BY <3>2 DEF x, y
    <2>4. Peek(u, from + Offset(parts, k) + Len(parts[k])) = "comma"  BY <1>4, <2>1
    <2> QED  BY <1>15, <2>3, <2>4
  <1>17. ASSUME k = Len(cells) PROVE p + 2 + Len(v) = from + Len(RenderCells(cells))
    <2>1. k = Len(parts)  BY <1>1, <1>17
    <2>2. Offset(parts, k) + Len(parts[k]) = Len(RenderCells(cells))  BY <1>1, <1>3, <2>1
    <2> DEFINE x == Offset(parts, k)
               y == Len(parts[k])
    <2>3. p + 2 + Len(v) = from + x + y /\ x + y = Len(RenderCells(cells)) /\ x \in Nat /\ y \in Nat
      BY <1>1, <1>3, <1>15, <2>2
    <2> HIDE DEF x, y
    <2>4. from + x + y = from + Len(RenderCells(cells))  BY <2>3
    <2> QED  BY <2>3, <2>4
  <1>18. /\ Has(u, p + 2, cells[k].value) /\ p = CellAt(from, cells, k)
    BY <1>13 DEF p, v
  <1> QED  BY <1>5, <1>7, <1>8, <1>12, <1>14, <1>15, <1>16, <1>17, <1>18

(* One member, one element, and the opening of a container.                  *)
LEMMA MemberSkipped ==
    ASSUME NEW u, Len(u) \in Nat, NEW p \in Nat,
           Peek(u, p) \in Strings, Peek(u, p + 1) = "colon"
    PROVE  /\ AfterKey(u, p) = p + 2
           /\ Peek(u, SkipValue(u, p + 2)) = "rbrace" =>
                 Skip(u)[p]["rbrace"] = SkipValue(u, p + 2) + 1
           /\ Peek(u, SkipValue(u, p + 2)) = "comma" =>
                 Skip(u)[p]["rbrace"] = Skip(u)[SkipValue(u, p + 2) + 1]["rbrace"]
  <1>1. AfterKey(u, p) = p + 2 /\ AfterKey(u, p) # 0  BY DEF AfterKey
  <1>2. p \in 0..Len(u) + 1  BY OnText, Literals
  <1> DEFINE e == SkipValue(u, p + 2)
  <1>3. Skip(u)[p]["rbrace"] = Onward(u, Skip(u), e, "rbrace")
    BY <1>1, <1>2, SkipParts DEF SkipValue
  <1>4. /\ Peek(u, e) = "rbrace" => Onward(u, Skip(u), e, "rbrace") = e + 1
        /\ Peek(u, e) = "comma" => Onward(u, Skip(u), e, "rbrace") = Skip(u)[e + 1]["rbrace"]
    <2> HIDE DEF e
    <2> QED  BY DEF Onward
  <1> QED  BY <1>1, <1>3, <1>4

LEMMA ElementSkipped ==
    ASSUME NEW u, Len(u) \in Nat, NEW p \in Nat, Peek(u, p) \in Tokens
    PROVE  /\ Peek(u, SkipValue(u, p)) = "rbracket" =>
                 Skip(u)[p]["rbracket"] = SkipValue(u, p) + 1
           /\ Peek(u, SkipValue(u, p)) = "comma" =>
                 Skip(u)[p]["rbracket"] = Skip(u)[SkipValue(u, p) + 1]["rbracket"]
  <1>2. p \in 0..Len(u) + 1  BY OnText
  <1> DEFINE e == SkipValue(u, p)
  <1>3. Skip(u)[p]["rbracket"] = Onward(u, Skip(u), e, "rbracket")
    BY <1>2, SkipParts DEF SkipValue
  <1>4. /\ Peek(u, e) = "rbracket" => Onward(u, Skip(u), e, "rbracket") = e + 1
        /\ Peek(u, e) = "comma" => Onward(u, Skip(u), e, "rbracket") = Skip(u)[e + 1]["rbracket"]
    <2> HIDE DEF e
    <2> QED  BY DEF Onward
  <1> QED  BY <1>3, <1>4

LEMMA OpeningSkipped ==
    ASSUME NEW u, Len(u) \in Nat, NEW p \in Nat
    PROVE  /\ Peek(u, p) \in Scalars => SkipValue(u, p) = p + 1
           /\ Peek(u, p) = "lbracket" =>
                 SkipValue(u, p) = IF Peek(u, p + 1) = "rbracket" THEN p + 2
                                   ELSE Skip(u)[p + 1]["rbracket"]
           /\ Peek(u, p) = "lbrace" =>
                 SkipValue(u, p) = IF Peek(u, p + 1) = "rbrace" THEN p + 2
                                   ELSE Skip(u)[p + 1]["rbrace"]
  <1>1. ASSUME Peek(u, p) \in Tokens PROVE p \in 0..Len(u) + 1  BY <1>1, OnText
  <1>2. Scalars \subseteq Tokens /\ "lbracket" \in Tokens /\ "lbrace" \in Tokens
    BY DEF Tokens, Structure
  <1> QED  BY <1>1, <1>2, SkipParts DEF SkipValue, Within

LEMMA NotStructure ==
    ASSUME NEW token \in Scalars
    PROVE  token \notin Structure
  BY TokenAssumption

(* The cells of a row are skipped as one array.                              *)
LEMMA CellsSkipped ==
    ASSUME NEW u, Len(u) \in Nat, NEW from \in Nat \ {0}, NEW cells, IsRow(cells),
           Has(u, from, RenderCells(cells)),
           Peek(u, from + Len(RenderCells(cells))) = "rbracket",
           Peek(u, from - 1) = "lbracket"
    PROVE  SkipValue(u, from - 1) = from + Len(RenderCells(cells)) + 1
  <1> DEFINE n == Len(cells)
             to == from + Len(RenderCells(cells))
             S == {k \in 0..n : k # 0 => Skip(u)[CellAt(from, cells, k)]["rbracket"] = to + 1}
  <1>0. n \in Nat /\ to \in Nat  BY CellPart, LenProperties DEF IsRow
  <1>1. ASSUME NEW k \in 0..n, \A i \in 0..n : k < i => i \in S
        PROVE  k \in S
    <2>1. CASE k = 0  BY <2>1
    <2>2. CASE k # 0
      <3> DEFINE p == CellAt(from, cells, k)
                 e == CellEnd(from, cells, k)
      <3>1. k \in 1..n  BY <1>0, <2>2
      <3>2. /\ p \in Nat \ {0}
            /\ Peek(u, p) = cells[k].column /\ Peek(u, p + 1) = "comma"
            /\ Has(u, p + 2, cells[k].value) /\ SkipValue(u, p + 2) = e /\ e \in Nat
            /\ k < n => Peek(u, e) = "comma" /\ CellAt(from, cells, k + 1) = e + 1
            /\ k = n => e = to
        BY <3>1, CellLayout
      <3> HIDE DEF p, e, S
      <3>3. cells[k].column \in Scalars  BY <3>1 DEF IsRow, IsCell, Scalars
      <3>4. SkipValue(u, p) = p + 1  BY <3>2, <3>3, OpeningSkipped
      <3>5. Skip(u)[p]["rbracket"] = Skip(u)[p + 2]["rbracket"]
        <4>1. Peek(u, p) \in Tokens  BY <3>2, <3>3 DEF Tokens
        <4>2. Skip(u)[p]["rbracket"] = Skip(u)[(p + 1) + 1]["rbracket"]
          BY <3>2, <3>4, <4>1, ElementSkipped
        <4>3. (p + 1) + 1 = p + 2  BY <3>2
        <4> QED  BY <4>2, <4>3
      <3>6. Peek(u, p + 2) \in Tokens /\ p + 2 \in Nat
        <4>1. cells[k].value \in Seq(Tokens) /\ Len(cells[k].value) \in Nat /\ IsJson(cells[k].value)
          BY <3>1, CellPart DEF IsRow, IsCell
        <4>2. Len(cells[k].value) # 0
          <5> DEFINE v == cells[k].value
          <5>1. IsJson(v)  BY <4>1
          <5> HIDE DEF v
          <5>2. SUFFICES ASSUME Len(v) = 0 PROVE FALSE  BY DEF v
          <5>3. Peek(v, 1) = "nothing"
            <6>1. 1 \notin 1..Len(v)  BY <5>2
            <6> QED  BY <6>1 DEF Peek
          <5>4. "nothing" \notin Scalars \cup {"lbrace", "lbracket"}
            BY TokenAssumption DEF Tokens
          <5>5. 1 \in 0..Len(v) + 1 /\ Len(v) \in Nat  BY <5>2
          <5>6. Skip(v)[1]["value"] = 0  BY <5>3, <5>4, <5>5, SkipParts
          <5> QED  BY <5>1, <5>2, <5>6 DEF IsJson, SkipValue
        <4>3. 1 \in 1..Len(cells[k].value) /\ p + 2 + 1 - 1 = p + 2
          <5>1. p \in Nat  BY <3>2
          <5>2. p + 2 + 1 - 1 = p + 2  BY <5>1
          <5>3. Len(cells[k].value) \in Nat /\ Len(cells[k].value) # 0  BY <4>1, <4>2
          <5> DEFINE len == Len(cells[k].value)
          <5>4. len \in Nat /\ len # 0  BY <5>3
          <5> HIDE DEF len
          <5>5. 1 \in 1..len  BY <5>4
          <5> QED  BY <5>2, <5>5 DEF len
        <4>4. Peek(u, p + 2 + 1 - 1) = cells[k].value[1]  BY <3>2, <4>3 DEF Has
        <4>5. cells[k].value[1] \in Tokens  BY <4>1, <4>3, ElementOfSeq
        <4> QED  BY <3>2, <4>3, <4>4, <4>5
      <3>7. CASE k = n
        <4>1. Peek(u, e) = "rbracket" /\ e = to  BY <3>2, <3>7
        <4>2. Skip(u)[p + 2]["rbracket"] = e + 1  BY <3>2, <3>6, <4>1, ElementSkipped
        <4> QED  BY <3>5, <4>1, <4>2 DEF S, p
      <3>8. CASE k # n
        <4>1. k < n /\ k + 1 \in 0..n /\ k < k + 1 /\ k + 1 # 0  BY <1>0, <3>1, <3>8
        <4>2. Peek(u, e) = "comma" /\ CellAt(from, cells, k + 1) = e + 1  BY <3>2, <4>1
        <4>3. Skip(u)[p + 2]["rbracket"] = Skip(u)[e + 1]["rbracket"]
          BY <3>2, <3>6, <4>2, ElementSkipped
        <4>4. k + 1 \in S  BY <1>1, <4>1
        <4>5. Skip(u)[CellAt(from, cells, k + 1)]["rbracket"] = to + 1  BY <4>1, <4>4 DEF S
        <4> QED  BY <3>5, <4>2, <4>3, <4>5 DEF S, p
      <3> QED  BY <3>7, <3>8
    <2> QED  BY <2>1, <2>2
  <1>2. 0..n \subseteq S
    <2> HIDE DEF S, n
    <2> QED  BY <1>0, <1>1, InductBack
  <1>3. from - 1 \in Nat /\ (from - 1) + 1 = from /\ (from - 1) + 2 = from + 1  OBVIOUS
  <1>4. CASE n = 0
    <2>1. Len(RenderCells(cells)) = 0
      <3>1. Parts(CellParts(cells)) /\ Len(CellParts(cells)) = 0
            /\ RenderCells(cells) = Separated(CellParts(cells))
        BY <1>4, CellPart
      <3>2. RenderCells(cells) = << >>  BY <3>1, SeparatedIsJoined
      <3> QED  BY <3>2
    <2>2. Peek(u, (from - 1) + 1) = "rbracket"  BY <1>3, <2>1
    <2>3. SkipValue(u, from - 1) = (from - 1) + 2  BY <1>3, <2>2, OpeningSkipped
    <2> QED  BY <1>3, <2>1, <2>3
  <1>5. CASE n # 0
    <2>1. 1 \in 1..n /\ 1 \in 0..n  BY <1>0, <1>5
    <2>2. CellAt(from, cells, 1) = from /\ Peek(u, CellAt(from, cells, 1)) = cells[1].column
      BY <2>1, CellLayout
    <2>3. cells[1].column \in Scalars  BY <2>1 DEF IsRow, IsCell, Scalars
    <2>4. Peek(u, (from - 1) + 1) # "rbracket"
      BY <1>3, <2>2, <2>3, NotStructure DEF Structure
    <2>5. SkipValue(u, from - 1) = Skip(u)[(from - 1) + 1]["rbracket"]
      BY <1>3, <2>4, OpeningSkipped
    <2>6. 1 \in S  BY <1>2, <2>1
    <2>7. Skip(u)[CellAt(from, cells, 1)]["rbracket"] = to + 1  BY <2>6
    <2> QED  BY <1>3, <2>2, <2>5, <2>7
  <1> QED  BY <1>4, <1>5


(* An object whose array is skipped is skipped.                              *)
LEMMA ObjectSkipped ==
    ASSUME NEW u, Len(u) \in Nat, NEW p \in Nat, NEW name \in Strings, NEW array,
           Len(array) \in Nat, NEW place \in {"first", "last", "none"},
           NEW key \in Strings, NEW word \in Scalars,
           ObjectLayout(u, p, name, array, place, key, word),
           SkipValue(u, ArrayFrom(p, place) - 1) = ArrayTo(p, array, place) + 1
    PROVE  SkipValue(u, p) =
              ArrayTo(p, array, place) + (IF place = "last" THEN 6 ELSE 2)
  <1> DEFINE from == ArrayFrom(p, place)
             to == ArrayTo(p, array, place)
  <1>1. from \in Nat /\ to \in Nat /\ from = p + (IF place = "first" THEN 8 ELSE 4)
    BY DEF ArrayFrom, ArrayTo
  <1>2. /\ Peek(u, p) = "lbrace"
        /\ Peek(u, from - 3) = name /\ Peek(u, from - 2) = "colon"
        /\ place = "first" => /\ Peek(u, p + 1) = key /\ Peek(u, p + 2) = "colon"
                              /\ Peek(u, p + 3) = word /\ Peek(u, p + 4) = "comma"
        /\ place # "last" => Peek(u, to + 1) = "rbrace"
        /\ place = "last" => /\ Peek(u, to + 1) = "comma"
                             /\ Peek(u, to + 2) = key /\ Peek(u, to + 3) = "colon"
                             /\ Peek(u, to + 4) = word /\ Peek(u, to + 5) = "rbrace"
    BY DEF ObjectLayout
  <1>3. SkipValue(u, from - 1) = to + 1  OBVIOUS
  <1> HIDE DEF from, to
  (* The member with the array, and what follows it.                         *)
  <1>4. Skip(u)[from - 3]["rbrace"] = IF place = "last" THEN to + 6 ELSE to + 2
    <2>1. /\ from - 3 \in Nat /\ (from - 3) + 1 = from - 2 /\ (from - 3) + 2 = from - 1
          /\ (to + 1) + 1 = to + 2
      BY <1>1
    <2>2. /\ Peek(u, to + 1) = "rbrace" => Skip(u)[from - 3]["rbrace"] = to + 2
          /\ Peek(u, to + 1) = "comma" => Skip(u)[from - 3]["rbrace"] = Skip(u)[to + 2]["rbrace"]
      BY <1>2, <1>3, <2>1, MemberSkipped
    <2>3. CASE place # "last"  BY <1>2, <2>2, <2>3
    <2>4. CASE place = "last"
      <3>1. /\ to + 2 \in Nat /\ (to + 2) + 1 = to + 3 /\ (to + 2) + 2 = to + 4
            /\ to + 4 \in Nat /\ (to + 4) + 1 = to + 5 /\ (to + 5) + 1 = to + 6
        BY <1>1
      <3>2. SkipValue(u, to + 4) = to + 5  BY <1>2, <2>4, <3>1, OpeningSkipped
      <3>3. Skip(u)[to + 2]["rbrace"] = to + 6
        BY <1>2, <2>4, <3>1, <3>2, MemberSkipped
      <3> QED  BY <1>2, <2>2, <2>4, <3>3
    <2> QED  BY <2>3, <2>4
  (* The opening, and a member before the array.                             *)
  <1>5. SkipValue(u, p) = Skip(u)[p + 1]["rbrace"]
    <2>1. Peek(u, p + 1) \in Strings
      <3>1. place # "first" => from - 3 = p + 1  BY <1>1
      <3> QED  BY <1>2, <3>1
    <2>2. Peek(u, p + 1) # "rbrace"  BY <2>1, NotStructure DEF Structure, Scalars
    <2> QED  BY <1>2, <2>2, OpeningSkipped
  <1>6. Skip(u)[p + 1]["rbrace"] = Skip(u)[from - 3]["rbrace"]
    <2>1. CASE place # "first"
      <3>1. from - 3 = p + 1  BY <1>1, <2>1
      <3> QED  BY <3>1
    <2>2. CASE place = "first"
      <3>1. /\ p + 1 \in Nat /\ (p + 1) + 1 = p + 2 /\ (p + 1) + 2 = p + 3
            /\ p + 3 \in Nat /\ (p + 3) + 1 = p + 4 /\ (p + 4) + 1 = from - 3
        BY <1>1, <2>2
      <3>2. SkipValue(u, p + 3) = p + 4  BY <1>2, <2>2, <3>1, OpeningSkipped
      <3> QED  BY <1>2, <2>2, <3>1, <3>2, MemberSkipped
    <2> QED  BY <2>1, <2>2
  <1>7. SkipValue(u, p) = to + (IF place = "last" THEN 6 ELSE 2)
    BY <1>4, <1>5, <1>6
  <1> QED  BY <1>7 DEF to

-----------------------------------------------------------------------------
(* A reply to query()                                                        *)

Rows(r) == Separated(RowParts(r))
QueryPlace(r) == IF r.first THEN "first" ELSE "last"
QueryFlag(r) == IF r.truncated THEN "true" ELSE "false"

(* Where the rows of a reply begin and end, and where the k-th stands.       *)
RowsFrom(r) == ArrayFrom(1, QueryPlace(r))
RowsTo(r) == ArrayTo(1, Rows(r), QueryPlace(r))
RowAt(r, k) == RowsFrom(r) + Offset(RowParts(r), k)
RowEndAt(r, k) == RowAt(r, k) + Len(RowParts(r)[k])

RowFacts(r, k) ==
    /\ ObjectFacts(RowParts(r)[k], "cells", RenderCells(r.rows[k]), r.rowId, "row_id", "x")
    /\ IsRow(r.rows[k])

LEMMA RowPart ==
    ASSUME NEW r, IsReply(r)
    PROVE  /\ Parts(RowParts(r)) /\ Len(RowParts(r)) = Len(r.rows)
           /\ \A k \in 1..Len(r.rows) : RowFacts(r, k)
  <1>1. Len(r.rows) \in Nat /\ r.rowId \in {"first", "last", "none"}  BY DEF IsReply
  <1>2. ASSUME NEW k \in 1..Len(r.rows) PROVE RowFacts(r, k)
    <2> DEFINE c == RenderCells(r.rows[k])
               whole == RowParts(r)[k]
               place == r.rowId
    <2>1. whole = ObjectOf("cells", c, place, "row_id", "x")
      BY DEF RowParts, RenderRow, ObjectOf
    <2>6. place \in {"first", "last", "none"}  BY <1>1
    <2>2. IsRow(r.rows[k])  BY DEF IsReply, IsRow
    <2>3. c \in Seq(Tokens)  BY <2>2, CellPart
    <2>4. "cells" \in Tokens /\ "row_id" \in Tokens /\ "x" \in Tokens  BY Literals
    <2> HIDE DEF c, whole, place
    <2>5. ObjectFacts(whole, "cells", c, place, "row_id", "x")
      BY <2>1, <2>3, <2>4, <2>6, ObjectText
    <2> QED  BY <2>1, <2>2, <2>5 DEF c, whole, place, RowFacts
  <1>3. Len(RowParts(r)) = Len(r.rows)  BY <1>1 DEF RowParts
  <1>4. \A k \in 1..Len(RowParts(r)) : RowParts(r)[k] \in Seq(Tokens)
    BY <1>2, <1>3 DEF RowFacts, ObjectFacts
  <1> QED  BY <1>1, <1>2, <1>3, <1>4 DEF Parts

QueryLayout(u, r) ==
    ObjectLayout(u, 1, "rows", Rows(r), QueryPlace(r), "truncated", QueryFlag(r))

LEMMA QueryText ==
    ASSUME NEW r, IsReply(r)
    PROVE  /\ RenderQuery(r) \in Seq(Tokens) /\ Len(RenderQuery(r)) \in Nat
           /\ QueryLayout(RenderQuery(r), r)
           /\ Rows(r) \in Seq(Tokens) /\ Len(Rows(r)) \in Nat
           /\ RowsFrom(r) \in Nat \ {0} /\ RowsTo(r) = RowsFrom(r) + Len(Rows(r))
  <1> DEFINE whole == RenderQuery(r)
  <1>1. Parts(RowParts(r))  BY RowPart
  <1>2. Rows(r) \in Seq(Tokens)  BY <1>1, SeparatedIsJoined DEF Rows
  <1>3. whole = ObjectOf("rows", Rows(r), QueryPlace(r), "truncated", QueryFlag(r))
    BY DEF RenderQuery, ObjectOf, Rows, RowParts, QueryPlace, QueryFlag, IsReply
  <1>4. "rows" \in Tokens /\ "truncated" \in Tokens /\ QueryFlag(r) \in Tokens
        /\ QueryPlace(r) \in {"first", "last", "none"}
    BY Literals DEF QueryFlag, QueryPlace
  <1> HIDE DEF whole
  <1>9. ObjectFacts(whole, "rows", Rows(r), QueryPlace(r), "truncated", QueryFlag(r))
    BY <1>2, <1>3, <1>4, ObjectText
  <1>5. /\ whole \in Seq(Tokens)
        /\ \A t : \A p \in Nat :
              Has(t, p, whole) =>
                 ObjectLayout(t, p, "rows", Rows(r), QueryPlace(r), "truncated", QueryFlag(r))
    BY <1>9 DEF ObjectFacts
  <1>6. QueryLayout(whole, r)  BY <1>5, HasItself DEF QueryLayout
  <1>7. Len(whole) \in Nat /\ Len(Rows(r)) \in Nat  BY <1>2, <1>5, LenProperties
  <1>8. RowsFrom(r) \in Nat \ {0} /\ RowsTo(r) = RowsFrom(r) + Len(Rows(r))
    BY DEF RowsFrom, RowsTo, ArrayFrom, ArrayTo
  <1> QED  BY <1>2, <1>5, <1>6, <1>7, <1>8 DEF whole

RowLayout(u, p, r, k) ==
    ObjectLayout(u, p, "cells", RenderCells(r.rows[k]), r.rowId, "row_id", "x")

CellsFrom(r, k) == ArrayFrom(RowAt(r, k), r.rowId)
CellsTo(r, k) == ArrayTo(RowAt(r, k), RenderCells(r.rows[k]), r.rowId)

LEMMA RowsStand ==
    ASSUME NEW u, Len(u) \in Nat, NEW r, IsReply(r), QueryLayout(u, r),
           NEW k \in 1..Len(r.rows)
    PROVE  /\ RowAt(r, k) \in Nat \ {0} /\ (k = 1 => RowAt(r, k) = RowsFrom(r))
           /\ RowLayout(u, RowAt(r, k), r, k)
           /\ RowEndAt(r, k) \in Nat
           /\ RowEndAt(r, k) = CellsTo(r, k) + (IF r.rowId = "last" THEN 6 ELSE 2)
           /\ k < Len(r.rows) => /\ Peek(u, RowEndAt(r, k)) = "comma"
                                 /\ RowAt(r, k + 1) = RowEndAt(r, k) + 1
           /\ k = Len(r.rows) => RowEndAt(r, k) = RowsTo(r)
  <1> DEFINE parts == RowParts(r)
             from == RowsFrom(r)
             c == RenderCells(r.rows[k])
  <1>1. /\ Parts(parts) /\ Len(parts) = Len(r.rows) /\ k \in 1..Len(parts)
        /\ ObjectFacts(parts[k], "cells", c, r.rowId, "row_id", "x")
    BY RowPart DEF RowFacts
  <1>2. Has(u, from, Separated(parts)) /\ from \in Nat \ {0}
        /\ RowsTo(r) = from + Len(Separated(parts))
    BY QueryText DEF QueryLayout, ObjectLayout, RowsFrom, Rows
  <1>11. RowAt(r, k) = from + Offset(parts, k) /\ RowAt(r, k + 1) = from + Offset(parts, k + 1)
         /\ RowEndAt(r, k) = from + Offset(parts, k) + Len(parts[k])
    BY DEF RowAt, RowEndAt
  <1>10. Len(c) \in Nat  BY RowPart, CellPart, LenProperties DEF RowFacts
  <1>12. CellsTo(r, k) = RowAt(r, k) + (IF r.rowId = "first" THEN 8 ELSE 4) + Len(c)
    BY DEF CellsTo, ArrayTo, ArrayFrom
  <1> HIDE DEF parts, from
  <1>3. /\ Offset(parts, k) \in Nat /\ Len(parts[k]) \in Nat
        /\ k = 1 => Offset(parts, k) = 0
        /\ k < Len(parts) => Offset(parts, k + 1) = Offset(parts, k) + Len(parts[k]) + 1
        /\ k = Len(parts) => Offset(parts, k) + Len(parts[k]) = Len(Separated(parts))
    BY <1>1, OffsetFacts
  <1>4. /\ Has(u, from + Offset(parts, k), parts[k])
        /\ k < Len(parts) => Peek(u, from + Offset(parts, k) + Len(parts[k])) = "comma"
    BY <1>1, <1>2, Slots
  <1> DEFINE x == Offset(parts, k)
             y == Len(parts[k])
             z == Offset(parts, k + 1)
  <1>5. RowAt(r, k) \in Nat \ {0} /\ (k = 1 => RowAt(r, k) = from) /\ RowEndAt(r, k) \in Nat
    BY <1>2, <1>3, <1>11
  <1>6. RowLayout(u, RowAt(r, k), r, k)
    <2>1. Has(u, RowAt(r, k), parts[k])  BY <1>4, <1>11
    <2> QED  BY <1>1, <1>5, <2>1 DEF ObjectFacts, RowLayout
  <1>7. RowEndAt(r, k) = CellsTo(r, k) + (IF r.rowId = "last" THEN 6 ELSE 2)
    <2>1. y = Len(c) + (IF r.rowId = "none" THEN 6 ELSE 10)  BY <1>1 DEF ObjectFacts
    <2>2. r.rowId \in {"first", "last", "none"}  BY DEF IsReply
    <2>3. RowEndAt(r, k) = RowAt(r, k) + y /\ y \in Nat /\ RowAt(r, k) \in Nat
      BY <1>3, <1>5, <1>11
    <2>4. CellsTo(r, k) = RowAt(r, k) + (IF r.rowId = "first" THEN 8 ELSE 4) + Len(c)
      BY <1>12
    <2> DEFINE l == Len(c)
               a == RowAt(r, k)
               place == r.rowId
    <2>5. /\ y = l + (IF place = "none" THEN 6 ELSE 10) /\ l \in Nat /\ a \in Nat
          /\ place \in {"first", "last", "none"}
          /\ RowEndAt(r, k) = a + y
          /\ CellsTo(r, k) = a + (IF place = "first" THEN 8 ELSE 4) + l
      BY <1>10, <2>1, <2>2, <2>3, <2>4
    <2> HIDE DEF l, a, place, c, y
    <2>6. RowEndAt(r, k) = CellsTo(r, k) + (IF place = "last" THEN 6 ELSE 2)
      BY <2>5
    <2> QED  BY <2>6 DEF place
  <1>8. ASSUME k < Len(r.rows)
        PROVE  Peek(u, RowEndAt(r, k)) = "comma" /\ RowAt(r, k + 1) = RowEndAt(r, k) + 1
    <2>1. z = x + y + 1 /\ x \in Nat /\ y \in Nat /\ RowEndAt(r, k) = from + x + y
          /\ RowAt(r, k + 1) = from + z /\ from \in Nat
      BY <1>1, <1>2, <1>3, <1>8, <1>11
    <2>2. RowAt(r, k + 1) = RowEndAt(r, k) + 1
      <3> HIDE DEF x, y, z
      <3> QED  BY <2>1
    <2> QED  BY <1>1, <1>4, <1>8, <1>11, <2>2
  <1>9. ASSUME k = Len(r.rows) PROVE RowEndAt(r, k) = RowsTo(r)
    <2> DEFINE l == Len(Separated(parts))
    <2>1. /\ x + y = l /\ x \in Nat /\ y \in Nat /\ RowEndAt(r, k) = from + x + y
          /\ RowsTo(r) = from + l /\ from \in Nat
      BY <1>1, <1>2, <1>3, <1>9, <1>11
    <2> HIDE DEF x, y, l
    <2> QED  BY <2>1
  <1> QED  BY <1>5, <1>6, <1>7, <1>8, <1>9 DEF from

LEMMA RowSkipped ==
    ASSUME NEW u, Len(u) \in Nat, NEW r, IsReply(r), QueryLayout(u, r),
           NEW k \in 1..Len(r.rows)
    PROVE  SkipValue(u, RowAt(r, k)) = RowEndAt(r, k)
  <1> DEFINE p == RowAt(r, k)
             cells == r.rows[k]
             c == RenderCells(r.rows[k])
             place == r.rowId
             from == ArrayFrom(p, place)
  <1>1. /\ p \in Nat \ {0} /\ RowLayout(u, p, r, k)
        /\ RowEndAt(r, k) = CellsTo(r, k) + (IF place = "last" THEN 6 ELSE 2)
    BY RowsStand
  <1>2. IsRow(cells) /\ Len(c) \in Nat  BY RowPart, CellPart, LenProperties DEF RowFacts
  <1>3. /\ ObjectLayout(u, p, "cells", c, place, "row_id", "x")
        /\ CellsTo(r, k) = ArrayTo(p, c, place) /\ ArrayTo(p, c, place) = from + Len(c)
        /\ place \in {"first", "last", "none"}
    BY <1>1 DEF RowLayout, CellsTo, ArrayTo, IsReply
  <1> HIDE DEF p, place
  <1>4. /\ Has(u, from, c) /\ Peek(u, from + Len(c)) = "rbracket"
        /\ Peek(u, from - 1) = "lbracket" /\ from \in Nat \ {0}
    BY <1>1, <1>3 DEF ObjectLayout, ArrayFrom
  <1>5. SkipValue(u, from - 1) = from + Len(c) + 1
    <2> HIDE DEF from, cells
    <2> QED  BY <1>2, <1>4, CellsSkipped DEF cells
  <1>6. SkipValue(u, from - 1) = ArrayTo(p, c, place) + 1  BY <1>3, <1>5
  <1>7. {"cells", "row_id", "x"} \subseteq Strings /\ "x" \in Scalars
    BY Literals DEF Scalars
  <1>8. SkipValue(u, p) = ArrayTo(p, c, place) + (IF place = "last" THEN 6 ELSE 2)
    <2> HIDE DEF c
    <2> QED  BY <1>1, <1>2, <1>3, <1>6, <1>7, ObjectSkipped DEF c
  <1> QED  BY <1>1, <1>3, <1>8 DEF p

(* All the rows are skipped as one array.                                    *)
LEMMA RowsSkipped ==
    ASSUME NEW u, Len(u) \in Nat, NEW r, IsReply(r), QueryLayout(u, r)
    PROVE  SkipValue(u, RowsFrom(r) - 1) = RowsTo(r) + 1
  <1> DEFINE n == Len(r.rows)
             from == RowsFrom(r)
             to == RowsTo(r)
             S == {k \in 0..n : k # 0 => Skip(u)[RowAt(r, k)]["rbracket"] = to + 1}
  <1>0. /\ n \in Nat /\ from \in Nat \ {0} /\ to = from + Len(Rows(r)) /\ Len(Rows(r)) \in Nat
        /\ Peek(u, to) = "rbracket" /\ Peek(u, from - 1) = "lbracket"
    BY QueryText DEF IsReply, QueryLayout, ObjectLayout, RowsFrom, RowsTo
  <1>1. ASSUME NEW k \in 0..n, \A i \in 0..n : k < i => i \in S
        PROVE  k \in S
    <2>1. CASE k = 0  BY <2>1
    <2>2. CASE k # 0
      <3> DEFINE p == RowAt(r, k)
                 e == RowEndAt(r, k)
      <3>1. k \in 1..n  BY <1>0, <2>2
      <3>2. /\ p \in Nat \ {0} /\ SkipValue(u, p) = e /\ e \in Nat
            /\ Peek(u, p) = "lbrace"
            /\ k < n => Peek(u, e) = "comma" /\ RowAt(r, k + 1) = e + 1
            /\ k = n => e = to
        BY <3>1, RowsStand, RowSkipped DEF RowLayout, ObjectLayout
      <3>3. Peek(u, p) \in Tokens  BY <3>2, Literals
      <3> HIDE DEF p, e, S
      <3>7. CASE k = n
        <4>1. Peek(u, e) = "rbracket" /\ e = to  BY <1>0, <3>2, <3>7
        <4>2. Skip(u)[p]["rbracket"] = e + 1  BY <3>2, <3>3, <4>1, ElementSkipped
        <4> QED  BY <4>1, <4>2 DEF S, p
      <3>8. CASE k # n
        <4>1. k < n /\ k + 1 \in 0..n /\ k < k + 1 /\ k + 1 # 0  BY <1>0, <3>1, <3>8
        <4>2. Peek(u, e) = "comma" /\ RowAt(r, k + 1) = e + 1  BY <3>2, <4>1
        <4>3. Skip(u)[p]["rbracket"] = Skip(u)[e + 1]["rbracket"]
          BY <3>2, <3>3, <4>2, ElementSkipped
        <4>4. k + 1 \in S  BY <1>1, <4>1
        <4>5. Skip(u)[RowAt(r, k + 1)]["rbracket"] = to + 1  BY <4>1, <4>4 DEF S
        <4> QED  BY <4>2, <4>3, <4>5 DEF S, p
      <3> QED  BY <3>7, <3>8
    <2> QED  BY <2>1, <2>2
  <1>2. 0..n \subseteq S
    <2> HIDE DEF S, n
    <2> QED  BY <1>0, <1>1, InductBack
  <1>3. from - 1 \in Nat /\ (from - 1) + 1 = from /\ (from - 1) + 2 = from + 1  BY <1>0
  <1>4. CASE n = 0
    <2>1. Len(Rows(r)) = 0
      <3>1. Parts(RowParts(r)) /\ Len(RowParts(r)) = 0  BY <1>4, RowPart
      <3>2. Rows(r) = << >>  BY <3>1, SeparatedIsJoined DEF Rows
      <3> QED  BY <3>2
    <2>2. to = from /\ Peek(u, (from - 1) + 1) = "rbracket"  BY <1>0, <1>3, <2>1
    <2>3. SkipValue(u, from - 1) = (from - 1) + 2  BY <1>0, <1>3, <2>2, OpeningSkipped
    <2> QED  BY <1>3, <2>2, <2>3
  <1>5. CASE n # 0
    <2>1. 1 \in 1..n /\ 1 \in 0..n  BY <1>0, <1>5
    <2>2. RowAt(r, 1) = from /\ Peek(u, from) = "lbrace"
      BY <2>1, RowsStand DEF RowLayout, ObjectLayout
    <2>4. Peek(u, (from - 1) + 1) # "rbracket"  BY <1>3, <2>2
    <2>5. SkipValue(u, from - 1) = Skip(u)[(from - 1) + 1]["rbracket"]
      BY <1>0, <1>3, <2>4, OpeningSkipped
    <2>6. 1 \in S  BY <1>2, <2>1
    <2>7. Skip(u)[RowAt(r, 1)]["rbracket"] = to + 1  BY <2>6
    <2> QED  BY <1>3, <2>2, <2>5, <2>7
  <1> QED  BY <1>4, <1>5


-----------------------------------------------------------------------------
(* get_bool: the function in Flag is there, and what it says at a member     *)

FlagFrom(t, flag, q, key) ==
    LET value == AfterKey(t, q)
        after == SkipValue(t, value)
    IN  IF value = 0 THEN FALSE
        ELSE IF t[q] = key /\ Peek(t, value) \in {"true", "false"}
             THEN t[value] = "true"
        ELSE IF Peek(t, after) = "comma" THEN flag[after + 1]
        ELSE FALSE

FlagSolves(t, flag, key, p) ==
    \A q \in 0..Len(t) + 1 :
        p <= q => flag[q] = FlagFrom(t, flag, q, key) /\ flag[q] \in BOOLEAN

IsFlag(t, q, key) == t[q] = key /\ Peek(t, AfterKey(t, q)) \in {"true", "false"}

LEMMA FlagNone ==
    ASSUME NEW t, NEW flag, NEW q, NEW key, AfterKey(t, q) = 0
    PROVE  FlagFrom(t, flag, q, key) = FALSE
  BY Zenon DEF FlagFrom

LEMMA FlagHere ==
    ASSUME NEW t, NEW flag, NEW q, NEW key, AfterKey(t, q) # 0, IsFlag(t, q, key)
    PROVE  FlagFrom(t, flag, q, key) = (t[AfterKey(t, q)] = "true")
  BY Zenon DEF FlagFrom, IsFlag

LEMMA FlagOn ==
    ASSUME NEW t, NEW flag, NEW q, NEW key, AfterKey(t, q) # 0, ~IsFlag(t, q, key),
           Peek(t, SkipValue(t, AfterKey(t, q))) = "comma"
    PROVE  FlagFrom(t, flag, q, key) = flag[SkipValue(t, AfterKey(t, q)) + 1]
  BY Zenon DEF FlagFrom, IsFlag

LEMMA FlagEnd ==
    ASSUME NEW t, NEW flag, NEW q, NEW key, AfterKey(t, q) # 0, ~IsFlag(t, q, key),
           Peek(t, SkipValue(t, AfterKey(t, q))) # "comma"
    PROVE  FlagFrom(t, flag, q, key) = FALSE
  BY Zenon DEF FlagFrom, IsFlag

LEMMA FlagNext ==
    ASSUME NEW t, Len(t) \in Nat, NEW q \in Nat, AfterKey(t, q) # 0,
           Peek(t, SkipValue(t, AfterKey(t, q))) = "comma"
    PROVE  /\ SkipValue(t, AfterKey(t, q)) + 1 \in 0..Len(t) + 1
           /\ q < SkipValue(t, AfterKey(t, q)) + 1
  <1>1. AfterKey(t, q) = q + 2 /\ q + 2 \in 0..Len(t) + 1  BY AfterKeyBound
  <1> DEFINE after == SkipValue(t, q + 2)
  <1>2. Behind(t, q + 2, after)  BY <1>1, SkipValueBound
  <1>3. Peek(t, after) # "nothing" /\ after \in Int  BY <1>1, <1>2 DEF Behind
  <1> HIDE DEF after
  <1>4. after \in 1..Len(t)  BY <1>3, PeekFacts
  <1>5. after + 1 \in 0..Len(t) + 1 /\ q < after + 1  BY <1>2, <1>4 DEF Behind
  <1> QED  BY <1>1, <1>5 DEF after

LEMMA FlagFromLocal ==
    ASSUME NEW t, Len(t) \in Nat, NEW p \in 0..Len(t) + 1, NEW key, NEW f, NEW g,
           \A q \in 0..Len(t) + 1 : p < q => f[q] = g[q] /\ f[q] \in BOOLEAN
    PROVE  FlagFrom(t, f, p, key) = FlagFrom(t, g, p, key) /\ FlagFrom(t, f, p, key) \in BOOLEAN
  <1> DEFINE after == SkipValue(t, AfterKey(t, p))
             a == FlagFrom(t, f, p, key)
             b == FlagFrom(t, g, p, key)
  <1>1. CASE AfterKey(t, p) = 0
    <2>1. a = FALSE /\ b = FALSE  BY <1>1, FlagNone
    <2> QED  BY <2>1
  <1>2. CASE AfterKey(t, p) # 0 /\ IsFlag(t, p, key)
    <2>1. a = (t[AfterKey(t, p)] = "true") /\ b = (t[AfterKey(t, p)] = "true")
      BY <1>2, FlagHere, Zenon
    <2> QED  BY <2>1, Zenon
  <1>3. CASE AfterKey(t, p) # 0 /\ ~IsFlag(t, p, key) /\ Peek(t, after) = "comma"
    <2>1. after + 1 \in 0..Len(t) + 1 /\ p < after + 1  BY <1>3, FlagNext
    <2>2. f[after + 1] = g[after + 1] /\ f[after + 1] \in BOOLEAN  BY <2>1
    <2>3. a = f[after + 1] /\ b = g[after + 1]  BY <1>3, FlagOn, Zenon
    <2> QED  BY <2>2, <2>3, Zenon
  <1>4. CASE AfterKey(t, p) # 0 /\ ~IsFlag(t, p, key) /\ Peek(t, after) # "comma"
    <2>1. a = FALSE /\ b = FALSE  BY <1>4, FlagEnd, Zenon
    <2> QED  BY <2>1
  <1> QED  BY <1>1, <1>2, <1>3, <1>4

LEMMA FlagSolvable ==
    ASSUME NEW t, Len(t) \in Nat, NEW key
    PROVE  \E flag : /\ flag = [q \in 0..Len(t) + 1 |-> FlagFrom(t, flag, q, key)]
                     /\ \A q \in 0..Len(t) + 1 : flag[q] \in BOOLEAN
  <1> DEFINE N == Len(t) + 1
             S == {p \in 0..N : \E f : FlagSolves(t, f, key, p)}
  <1>1. ASSUME NEW p \in 0..N, \A q \in 0..N : p < q => q \in S
        PROVE  p \in S
    <2>1. \E f : \A q \in 0..N : p < q => f[q] = FlagFrom(t, f, q, key) /\ f[q] \in BOOLEAN
      <3>1. CASE p = N  BY <3>1
      <3>2. CASE p # N
        <4>1. p + 1 \in 0..N /\ p < p + 1  BY <3>2
        <4>2. p + 1 \in S  BY <1>1, <4>1
        <4>3. PICK f : FlagSolves(t, f, key, p + 1)  BY <4>2
        <4>4. \A q \in 0..N : p < q => p + 1 <= q  OBVIOUS
        <4> QED  BY <4>3, <4>4 DEF FlagSolves
      <3> QED  BY <3>1, <3>2
    <2>2. PICK f : \A q \in 0..N : p < q => f[q] = FlagFrom(t, f, q, key) /\ f[q] \in BOOLEAN
      BY <2>1
    <2> DEFINE g == [q \in 0..N |-> IF q = p THEN FlagFrom(t, f, p, key) ELSE f[q]]
    <2>3. \A q \in 0..N : p < q => g[q] = f[q] /\ g[q] \in BOOLEAN  BY <2>2
    <2>4. g[p] = FlagFrom(t, f, p, key)  OBVIOUS
    <2> HIDE DEF g
    <2>5. ASSUME NEW q \in 0..N, p <= q
          PROVE  FlagFrom(t, f, q, key) = FlagFrom(t, g, q, key) /\ FlagFrom(t, f, q, key) \in BOOLEAN
      <3>1. \A i \in 0..N : q < i => f[i] = g[i] /\ f[i] \in BOOLEAN
        BY <2>2, <2>3, <2>5
      <3> QED  BY <3>1, FlagFromLocal
    <2>7. ASSUME NEW q \in 0..N, p <= q
          PROVE  g[q] = FlagFrom(t, g, q, key) /\ g[q] \in BOOLEAN
      <3>1. CASE q = p  BY <2>4, <2>5, <3>1
      <3>2. CASE q # p
        <4>1. p < q  BY <2>7, <3>2
        <4> QED  BY <2>2, <2>3, <2>5, <2>7, <4>1
      <3> QED  BY <3>1, <3>2
    <2>8. FlagSolves(t, g, key, p)  BY <2>7 DEF FlagSolves
    <2> QED  BY <2>8
  <1>2. 0..N \subseteq S
    <2> HIDE DEF S
    <2>1. N \in Nat  OBVIOUS
    <2> HIDE DEF N
    <2> QED  BY <1>1, <2>1, InductBack
  <1>3. 0 \in S  BY <1>2
  <1>4. PICK f : FlagSolves(t, f, key, 0)  BY <1>3
  <1>5. \A q \in 0..N : f[q] = FlagFrom(t, f, q, key) /\ f[q] \in BOOLEAN
    BY <1>4 DEF FlagSolves
  <1> DEFINE g == [q \in 0..N |-> f[q]]
  <1>6. \A q \in 0..N : g[q] = f[q]  OBVIOUS
  <1>7. g = [q \in 0..N |-> g[q]]  OBVIOUS
  <1> HIDE DEF g
  <1>8. ASSUME NEW q \in 0..N PROVE g[q] = FlagFrom(t, g, q, key) /\ g[q] \in BOOLEAN
    <2>1. \A i \in 0..N : q < i => f[i] = g[i] /\ f[i] \in BOOLEAN
      BY <1>5, <1>6
    <2>2. FlagFrom(t, f, q, key) = FlagFrom(t, g, q, key)  BY <2>1, FlagFromLocal
    <2> QED  BY <1>5, <1>6, <2>2
  <1>9. g = [q \in 0..N |-> FlagFrom(t, g, q, key)]  BY <1>7, <1>8
  <1> QED  BY <1>8, <1>9

LEMMA FlagFacts ==
    ASSUME NEW t, Len(t) \in Nat, NEW key, NEW p \in 0..Len(t) + 1
    PROVE  \E flag : /\ \A q \in 0..Len(t) + 1 : Flag(t, q, key) = flag[q]
                     /\ \A q \in 0..Len(t) + 1 : flag[q] = FlagFrom(t, flag, q, key)
                     /\ \A q \in 0..Len(t) + 1 : flag[q] \in BOOLEAN
  <1> DEFINE Is(flag) == flag = [q \in 0..Len(t) + 1 |-> FlagFrom(t, flag, q, key)]
             h == CHOOSE flag : Is(flag)
  <1>1. \E f : Is(f)  BY FlagSolvable
  <1>2. Is(h)
    <2> HIDE DEF Is
    <2> QED  BY <1>1
  <1>3. \A q : Flag(t, q, key) = h[q]  BY DEF Flag, FlagFrom
  <1> HIDE DEF h
  <1>4. \A q \in 0..Len(t) + 1 : h[q] = FlagFrom(t, h, q, key)  BY <1>2
  <1> DEFINE S == {q \in 0..Len(t) + 1 : h[q] \in BOOLEAN}
  <1>5. ASSUME NEW q \in 0..Len(t) + 1, \A i \in 0..Len(t) + 1 : q < i => i \in S
        PROVE  q \in S
    <2>1. FlagFrom(t, h, q, key) \in BOOLEAN  BY <1>5, FlagFromLocal
    <2> QED  BY <1>4, <2>1
  <1>6. 0..Len(t) + 1 \subseteq S
    <2> HIDE DEF S
    <2>1. Len(t) + 1 \in Nat  OBVIOUS
    <2> QED  BY <1>5, <2>1, InductBack
  <1> QED  BY <1>3, <1>4, <1>6

LEMMA FlagIsBoolean ==
    ASSUME NEW t, Len(t) \in Nat, Len(t) # 0
    PROVE  Flag(t, 2, "truncated") \in BOOLEAN
  <1>1. 2 \in 0..Len(t) + 1  OBVIOUS
  <1> QED  BY <1>1, FlagFacts

(* The flag of a whole reply is the one the daemon set, behind any rows.     *)
LEMMA FlagOfReply ==
    ASSUME NEW u, Len(u) \in Nat, NEW r, IsReply(r), QueryLayout(u, r)
    PROVE  Flag(u, 2, "truncated") = r.truncated
  <1> DEFINE from == RowsFrom(r)
             to == RowsTo(r)
             word == QueryFlag(r)
  <1>1. /\ Peek(u, from - 3) = "rows" /\ Peek(u, from - 2) = "colon"
        /\ r.first => /\ from = 9 /\ Peek(u, 2) = "truncated" /\ Peek(u, 3) = "colon"
                      /\ Peek(u, 4) = word
        /\ ~r.first => /\ from = 5 /\ Peek(u, to + 1) = "comma"
                       /\ Peek(u, to + 2) = "truncated" /\ Peek(u, to + 3) = "colon"
                       /\ Peek(u, to + 4) = word
    BY DEF QueryLayout, ObjectLayout, QueryPlace, RowsFrom, RowsTo, ArrayFrom
  <1>2. to \in Nat /\ SkipValue(u, from - 1) = to + 1  BY QueryText, RowsSkipped
  <1>3. word \in {"true", "false"} /\ (word = "true") = r.truncated
    BY DEF QueryFlag, IsReply
  <1>4. PICK flag : /\ \A q \in 0..Len(u) + 1 : Flag(u, q, "truncated") = flag[q]
                    /\ \A q \in 0..Len(u) + 1 : flag[q] = FlagFrom(u, flag, q, "truncated")
    <2>1. 0 \in 0..Len(u) + 1  OBVIOUS
    <2> QED  BY <2>1, FlagFacts
  (* At the member itself.                                                   *)
  <1>5. ASSUME NEW p \in Nat, Peek(u, p) = "truncated", Peek(u, p + 1) = "colon",
               Peek(u, p + 2) = word
        PROVE  p \in 0..Len(u) + 1 /\ flag[p] = r.truncated
    <2>1. AfterKey(u, p) = p + 2 /\ p + 2 # 0  BY <1>5, Literals DEF AfterKey
    <2>2. p \in 0..Len(u) + 1 /\ u[p] = "truncated"
      <3>1. Peek(u, p) # "nothing" /\ p \in Int  BY <1>5
      <3> QED  BY <1>5, <3>1, PeekFacts
    <2>3. u[p + 2] = word
      <3>1. Peek(u, p + 2) # "nothing" /\ p + 2 \in Int  BY <1>3, <1>5
      <3> QED  BY <1>5, <3>1, PeekFacts
    <2>4. FlagFrom(u, flag, p, "truncated") = (u[p + 2] = "true")
      <3>1. IsFlag(u, p, "truncated") /\ AfterKey(u, p) # 0  BY <1>3, <1>5, <2>1, <2>2 DEF IsFlag
      <3>2. FlagFrom(u, flag, p, "truncated") = (u[AfterKey(u, p)] = "true")
        BY <3>1, FlagHere, Zenon
      <3> QED  BY <2>1, <3>2
    <2> QED  BY <1>3, <1>4, <2>2, <2>3, <2>4
  <1>6. CASE r.first
    <2>1. Peek(u, 2) = "truncated" /\ Peek(u, 2 + 1) = "colon" /\ Peek(u, 2 + 2) = word
      BY <1>1, <1>6
    <2> HIDE DEF word
    <2>2. 2 \in 0..Len(u) + 1 /\ flag[2] = r.truncated  BY <1>5, <2>1
    <2> QED  BY <1>4, <2>2
  <1>7. CASE ~r.first
    <2>1. Peek(u, 2) = "rows" /\ Peek(u, 3) = "colon" /\ SkipValue(u, 4) = to + 1
          /\ Peek(u, to + 1) = "comma"
      BY <1>1, <1>2, <1>7
    <2>2. AfterKey(u, 2) = 4  BY <2>1, Literals DEF AfterKey
    <2>3. 2 \in 0..Len(u) + 1 /\ u[2] = "rows"
      <3>1. Peek(u, 2) # "nothing" /\ 2 \in Int  BY <2>1
      <3> QED  BY <2>1, <3>1, PeekFacts
    <2>4. FlagFrom(u, flag, 2, "truncated") = flag[(to + 1) + 1]
      <3>1. ~IsFlag(u, 2, "truncated") /\ AfterKey(u, 2) # 0  BY <2>2, <2>3 DEF IsFlag
      <3>2. Peek(u, SkipValue(u, AfterKey(u, 2))) = "comma"  BY <2>1, <2>2
      <3>3. FlagFrom(u, flag, 2, "truncated") = flag[SkipValue(u, AfterKey(u, 2)) + 1]
        BY <3>1, <3>2, FlagOn
      <3> QED  BY <2>1, <2>2, <3>3
    <2>5. (to + 1) + 1 = to + 2 /\ to + 2 \in Nat /\ (to + 2) + 1 = to + 3 /\ (to + 2) + 2 = to + 4
      BY <1>2
    <2>6. /\ Peek(u, to + 2) = "truncated" /\ Peek(u, (to + 2) + 1) = "colon"
          /\ Peek(u, (to + 2) + 2) = word
      BY <1>1, <1>7, <2>5
    <2> HIDE DEF word, to
    <2>7. flag[to + 2] = r.truncated  BY <1>5, <2>5, <2>6
    <2> QED  BY <1>4, <2>3, <2>4, <2>5, <2>7
  <1>8. r.first \in BOOLEAN  BY DEF IsReply
  <1> QED  BY <1>6, <1>7, <1>8

-----------------------------------------------------------------------------
(* The texts that arrive                                                     *)

Arrivable == Tokens \cup {CutString}

(* The reply itself, or what came of it before it broke off.                 *)
Kept(t, u) ==
    /\ Len(t) \in Nat /\ Len(u) \in Nat /\ Len(t) <= Len(u)
    /\ \A q \in 1..Len(t) : t[q] = u[q] \/ (q = Len(t) /\ t[q] = CutString)

LEMMA CutText ==
    ASSUME NEW u \in Seq(Tokens), NEW n \in 0..Len(u)
    PROVE  Cut(u, n) \in Seq(Tokens) /\ Len(Cut(u, n)) = n /\ \A q \in 1..n : Cut(u, n)[q] = u[q]
  <1>1. \A i \in 1..n : u[i] \in Tokens  BY ElementOfSeq
  <1>2. Cut(u, n) \in Seq(Tokens)  BY <1>1, SubSeqProperties DEF Cut
  <1>3. Len(Cut(u, n)) = IF 1 <= n THEN n - 1 + 1 ELSE 0  BY <1>1, SubSeqProperties DEF Cut
  <1>4. \A i \in 1..n - 1 + 1 : Cut(u, n)[i] = u[1 + i - 1]  BY <1>1, SubSeqProperties DEF Cut
  <1>5. n - 1 + 1 = n /\ \A i \in 1..n : 1 + i - 1 = i  OBVIOUS
  <1> QED  BY <1>2, <1>3, <1>4, <1>5

LEMMA WholeIsKept ==
    ASSUME NEW u \in Seq(Tokens)
    PROVE  Kept(u, u)
  BY LenProperties DEF Kept

LEMMA CutIsKept ==
    ASSUME NEW u \in Seq(Tokens), NEW n \in 1..Len(u)
    PROVE  /\ Kept(Cut(u, n - 1), u) /\ Kept(CutInString(u, n), u)
           /\ CutInString(u, n) \in Seq(Arrivable)
  <1>1. Len(u) \in Nat /\ n - 1 \in 0..Len(u) /\ n \in 0..Len(u)  BY LenProperties
  <1>2. \A m \in 0..Len(u) : Kept(Cut(u, m), u)  BY <1>1, CutText DEF Kept
  <1>3. CASE u[n] \notin Strings
    <2>1. CutInString(u, n) = Cut(u, n)  BY <1>3 DEF CutInString
    <2> QED  BY <1>1, <1>2, <2>1, CutText DEF Arrivable
  <1>4. CASE u[n] \in Strings
    <2> DEFINE c == Cut(u, n - 1)
               a == CutInString(u, n)
    <2>1. a = Append(c, CutString)  BY <1>4 DEF CutInString
    <2>8. c \in Seq(Tokens) /\ Len(c) = n - 1 /\ \A q \in 1..n - 1 : c[q] = u[q]
      BY <1>1, CutText
    <2>9. Seq(Tokens) \subseteq Seq(Arrivable)  BY DEF Arrivable
    <2>2. c \in Seq(Arrivable) /\ Len(c) = n - 1 /\ \A q \in 1..n - 1 : c[q] = u[q]
      BY <2>8, <2>9
    <2> HIDE DEF a, c
    <2>3. CutString \in Arrivable  BY DEF Arrivable
    <2>4. /\ a \in Seq(Arrivable) /\ Len(a) = Len(c) + 1
          /\ \A q \in 1..Len(c) : a[q] = c[q]
          /\ a[Len(c) + 1] = CutString
      BY <2>1, <2>2, <2>3, AppendProperties
    <2>5. Len(a) = n  BY <2>2, <2>4
    <2>6. \A q \in 1..n : a[q] = u[q] \/ (q = n /\ a[q] = CutString)
      <3>1. (n - 1) + 1 = n /\ \A q \in 1..n : q = n \/ q \in 1..n - 1  OBVIOUS
      <3> QED  BY <2>2, <2>4, <3>1
    <2>7. Kept(a, u)  BY <1>1, <2>5, <2>6 DEF Kept
    <2> QED  BY <1>1, <1>2, <2>4, <2>7 DEF a
  <1> QED  BY <1>3, <1>4

LEMMA WithoutText ==
    ASSUME NEW u \in Seq(Tokens), NEW n \in 1..Len(u)
    PROVE  Without(u, n) \in Seq(Tokens)
  <1>1. n - 1 \in 0..Len(u)  OBVIOUS
  <1>2. Cut(u, n - 1) \in Seq(Tokens)  BY <1>1, CutText
  <1>3. \A i \in n + 1..Len(u) : u[i] \in Tokens  BY ElementOfSeq
  <1>4. SubSeq(u, n + 1, Len(u)) \in Seq(Tokens)
    <2>1. n + 1 \in Int /\ Len(u) \in Int  BY LenProperties
    <2> QED  BY <1>3, <2>1, SubSeqProperties
  <1> QED  BY <1>2, <1>4, ConcatProperties DEF Without

LEMMA Arrives ==
    ASSUME NEW u \in Seq(Tokens), NEW t \in Arriving(u)
    PROVE  /\ t \in Seq(Arrivable) /\ Len(t) \in Nat
           /\ t = u => Kept(t, u)
           /\ IsStrictPrefix(t, u) => Kept(t, u)
           /\ t # << >> /\ t[Len(t)] = CutString => Kept(t, u)
  <1>1. t = u \/ \E n \in 1..Len(u) : t \in {Cut(u, n - 1), CutInString(u, n), Without(u, n)}
    BY DEF Arriving
  <1>2. t \in Seq(Tokens) \/ (t \in Seq(Arrivable) /\ Kept(t, u))
    <2>1. ASSUME NEW n \in 1..Len(u), t = Cut(u, n - 1) PROVE t \in Seq(Tokens)
      <3>1. n - 1 \in 0..Len(u)  OBVIOUS
      <3> QED  BY <2>1, <3>1, CutText
    <2> QED  BY <1>1, <2>1, CutIsKept, WithoutText
  <1>3. Seq(Tokens) \subseteq Seq(Arrivable)  BY DEF Arrivable
  <1>4. t \in Seq(Arrivable) /\ Len(t) \in Nat /\ Len(u) \in Nat  BY <1>2, <1>3, LenProperties
  <1>5. t # << >> /\ t[Len(t)] = CutString => Kept(t, u)
    <2>1. ASSUME t \in Seq(Tokens), t # << >> PROVE t[Len(t)] # CutString
      <3>1. Len(t) \in Nat /\ Len(t) # 0  BY <2>1, EmptySeq, LenProperties
      <3>2. t[Len(t)] \in Tokens  BY <2>1, <3>1, ElementOfSeq
      <3> QED  BY <3>2, TokenAssumption
    <2> QED  BY <1>2, <2>1
  <1>6. ASSUME IsStrictPrefix(t, u) PROVE Kept(t, u)
    <2>1. Len(t) <= Len(u) /\ SubSeq(t, 1, Len(t)) = SubSeq(u, 1, Len(t))
      BY <1>6 DEF IsStrictPrefix, IsPrefix
    <2>2. SubSeq(t, 1, Len(t)) = t  BY <1>4, SubSeqFull
    <2>3. Len(t) \in 0..Len(u) /\ t = Cut(u, Len(t))  BY <1>4, <2>1, <2>2 DEF Cut
    <2>4. \A q \in 1..Len(t) : t[q] = u[q]
      <3> DEFINE n == Len(t)
      <3>1. n \in 0..Len(u) /\ t = Cut(u, n)  BY <2>3
      <3> HIDE DEF n
      <3>2. \A q \in 1..n : Cut(u, n)[q] = u[q]  BY <3>1, CutText
      <3> QED  BY <3>1, <3>2 DEF n
    <2> QED  BY <1>4, <2>1, <2>4 DEF Kept
  <1>7. t = u => Kept(t, u)  BY WholeIsKept
  <1> QED  BY <1>4, <1>5, <1>6, <1>7

(* What is read of a kept text is read of the reply.                         *)
LEMMA KeptPeek ==
    ASSUME NEW t, NEW u, Kept(t, u), NEW p \in Int, Peek(t, p) \notin Dead
    PROVE  Peek(u, p) = Peek(t, p) /\ p \in 1..Len(t) /\ p \in 1..Len(u)
  <1>1. Peek(t, p) # "nothing" /\ Peek(t, p) # CutString  BY DEF Dead
  <1>2. p \in 1..Len(t) /\ Peek(t, p) = t[p]  BY <1>1, PeekFacts DEF Kept
  <1>3. t[p] = u[p]  BY <1>1, <1>2 DEF Kept
  <1>4. p \in 1..Len(u)  BY <1>2 DEF Kept
  <1> QED  BY <1>2, <1>3, <1>4 DEF Peek

LEMMA EndsOnToken ==
    ASSUME NEW t, Len(t) \in Nat, NEW p \in 0..Len(t) + 1, NEW walk \in Walks,
           Skip(t)[p][walk] # 0
    PROVE  Peek(t, Skip(t)[p][walk] - 1) \in Tokens
  <1> DEFINE N == Len(t) + 1
             Ends(q, w) == Skip(t)[q][w] # 0 => Peek(t, Skip(t)[q][w] - 1) \in Tokens
             S == {q \in 0..N : \A w \in Walks : Ends(q, w)}
  <1>1. ASSUME NEW q \in 0..N, \A i \in 0..N : q < i => i \in S
        PROVE  q \in S
    <2>0. ASSUME NEW i \in 0..N, q < i, NEW w \in Walks, Skip(t)[i][w] # 0
          PROVE  Peek(t, Skip(t)[i][w] - 1) \in Tokens
      BY <1>1, <2>0
    <2>1. ASSUME NEW after, Behind(t, q, after), after # 0, NEW close \in {"rbrace", "rbracket"},
                 Onward(t, Skip(t), after, close) # 0
          PROVE  Peek(t, Onward(t, Skip(t), after, close) - 1) \in Tokens
      <3>0. after \in Nat /\ q < after /\ (after + 1) - 1 = after  BY <2>1 DEF Behind
      <3>1. CASE Peek(t, after) = "comma"
        <4>1. after \in Int /\ Peek(t, after) # "nothing"  BY <3>0, <3>1
        <4>2. after \in 1..Len(t)  BY <4>1, PeekFacts
        <4>3. after + 1 \in 0..N /\ q < after + 1  BY <3>0, <4>2
        <4>4. Onward(t, Skip(t), after, close) = Skip(t)[after + 1][close]  BY <3>1 DEF Onward
        <4> QED  BY <2>0, <2>1, <4>3, <4>4 DEF Walks
      <3>2. CASE Peek(t, after) = close
        <4>1. Onward(t, Skip(t), after, close) = after + 1  BY <3>2 DEF Onward
        <4> QED  BY <3>0, <3>2, <4>1, Literals
      <3>3. CASE Peek(t, after) # "comma" /\ Peek(t, after) # close  BY <2>1, <3>3 DEF Onward
      <3> QED  BY <3>1, <3>2, <3>3
    <2>2. ASSUME NEW close \in {"rbrace", "rbracket"}, Peek(t, q) \in Tokens,
                 Within(t, Skip(t), q, close) # 0
          PROVE  Peek(t, Within(t, Skip(t), q, close) - 1) \in Tokens
      <3>1. CASE Peek(t, q + 1) = close
        <4>1. Within(t, Skip(t), q, close) = q + 2 /\ (q + 2) - 1 = q + 1  BY <3>1 DEF Within
        <4> QED  BY <3>1, <4>1, Literals
      <3>2. CASE Peek(t, q + 1) # close
        <4>1. q \in 1..Len(t)  BY <2>2, OnText
        <4>2. q + 1 \in 0..N /\ q < q + 1  BY <4>1
        <4>3. Within(t, Skip(t), q, close) = Skip(t)[q + 1][close]  BY <3>2 DEF Within
        <4> QED  BY <2>0, <2>2, <4>2, <4>3 DEF Walks
      <3> QED  BY <3>1, <3>2
    <2>3. Ends(q, "value")
      <3>1. CASE Peek(t, q) \in Scalars
        <4>1. Skip(t)[q]["value"] = q + 1 /\ (q + 1) - 1 = q  BY <3>1, SkipParts
        <4> QED  BY <3>1, <4>1 DEF Tokens
      <3>2. CASE Peek(t, q) = "lbrace"
        <4>1. Skip(t)[q]["value"] = Within(t, Skip(t), q, "rbrace")  BY <3>2, SkipParts
        <4>2. Peek(t, q) \in Tokens  BY <3>2, Literals
        <4> QED  BY <2>2, <4>1, <4>2
      <3>3. CASE Peek(t, q) = "lbracket"
        <4>1. Skip(t)[q]["value"] = Within(t, Skip(t), q, "rbracket")  BY <3>3, SkipParts
        <4>2. Peek(t, q) \in Tokens  BY <3>3, Literals
        <4> QED  BY <2>2, <4>1, <4>2
      <3>4. CASE Peek(t, q) \notin Scalars \cup {"lbrace", "lbracket"}  BY <3>4, SkipParts
      <3> QED  BY <3>1, <3>2, <3>3, <3>4
    <2>4. Ends(q, "rbracket")
      <3> DEFINE after == Skip(t)[q]["value"]
      <3>1. Skip(t)[q]["rbracket"] = Onward(t, Skip(t), after, "rbracket")  BY SkipParts
      <3>2. Behind(t, q, after)  BY SkipFacts DEF Advancing, Walks
      <3> HIDE DEF after
      <3>3. after = 0 => Onward(t, Skip(t), after, "rbracket") = 0  BY NothingAtZero, Literals
      <3> QED  BY <2>1, <3>1, <3>2, <3>3
    <2>5. Ends(q, "rbrace")
      <3>1. CASE AfterKey(t, q) = 0
        <4>1. Skip(t)[q]["rbrace"] = 0  BY <3>1, SkipParts, NothingAtZero, Literals
        <4> QED  BY <4>1
      <3>2. CASE AfterKey(t, q) # 0
        <4>1. AfterKey(t, q) = q + 2 /\ q + 2 \in 0..N /\ q < q + 2  BY <3>2, AfterKeyBound
        <4> DEFINE after == Skip(t)[q + 2]["value"]
        <4>2. Skip(t)[q]["rbrace"] = Onward(t, Skip(t), after, "rbrace")  BY <3>2, <4>1, SkipParts
        <4>3. Behind(t, q + 2, after)  BY <4>1, SkipFacts DEF Advancing, Walks
        <4>4. Behind(t, q, after)  BY <4>1, <4>3 DEF Behind
        <4> HIDE DEF after
        <4>5. after = 0 => Onward(t, Skip(t), after, "rbrace") = 0  BY NothingAtZero, Literals
        <4> QED  BY <2>1, <4>2, <4>4, <4>5
      <3> QED  BY <3>1, <3>2
    <2> QED  BY <2>3, <2>4, <2>5 DEF Walks
  <1>2. p \in S
    <2>1. N \in Nat  OBVIOUS
    <2> HIDE DEF S
    <2> QED  BY <1>1, <2>1, InductBack
  <1> QED  BY <1>2

(* A value that is skipped in a kept text is whole.                          *)
LEMMA KeptValue ==
    ASSUME NEW t, NEW u, Kept(t, u), NEW p \in Nat \ {0}, p <= Len(t) + 1,
           SkipValue(t, p) # 0, NEW v \in Seq(Tokens), Has(u, p, v),
           SkipValue(u, p) = p + Len(v)
    PROVE  SkipValue(t, p) = p + Len(v) /\ SubSeq(t, p, SkipValue(t, p) - 1) = v
  <1>1. Len(t) \in Nat /\ Len(u) \in Nat /\ Len(v) \in Nat /\ p \in 0..Len(t) + 1
    BY LenProperties DEF Kept
  <1>2. ASSUME NEW q \in 0..Len(t) + 1, Peek(t, q) \notin Dead PROVE Peek(u, 0 + q) = Peek(t, q)
    <2>1. 0 + q = q  OBVIOUS
    <2> QED  BY <1>2, <2>1, KeptPeek
  <1>3. Inside(t, 0, u)  BY <1>2 DEF Inside
  <1>4. Carried(t, 0, u, p, "value")  BY <1>1, <1>3, Transfer DEF Walks
  <1>5. Skip(u)[0 + p]["value"] = 0 + Skip(t)[p]["value"]  BY <1>4 DEF Carried, SkipValue
  <1> DEFINE e == SkipValue(t, p)
  <1>6. e \in Nat  BY <1>1, SkipValueBound DEF Behind
  <1>7. e = p + Len(v)
    <2>1. 0 + p = p /\ 0 + e = e  BY <1>6
    <2> QED  BY <1>5, <2>1 DEF SkipValue
  <1>8. Peek(t, e - 1) \in Tokens  BY <1>1, EndsOnToken DEF SkipValue, Walks
  <1>9. e - 1 \in 1..Len(t) /\ Peek(t, e - 1) = t[e - 1]
    <2>1. e - 1 \in Int /\ Peek(t, e - 1) # "nothing"  BY <1>6, <1>8, TokenAssumption
    <2> QED  BY <1>1, <2>1, PeekFacts
  <1>10. ASSUME NEW i \in 1..Len(v) PROVE t[p + i - 1] = v[i]
    <2>1. p + i - 1 \in 1..Len(t) /\ p + i - 1 <= e - 1  BY <1>1, <1>7, <1>9
    <2>2. t[p + i - 1] # CutString
      <3>1. CASE p + i - 1 = e - 1  BY <1>8, <1>9, <3>1, TokenAssumption
      <3>2. CASE p + i - 1 # e - 1
        <4>1. p + i - 1 # Len(t)  BY <1>9, <2>1, <3>2
        <4>2. t[p + i - 1] = u[p + i - 1]  BY <2>1, <4>1 DEF Kept
        <4>3. Peek(u, p + i - 1) = u[p + i - 1]  BY <2>1 DEF Peek, Kept
        <4>4. Peek(u, p + i - 1) = v[i]  BY DEF Has
        <4>5. v[i] \in Tokens  BY ElementOfSeq
        <4> QED  BY <4>2, <4>3, <4>4, <4>5, TokenAssumption
      <3> QED  BY <3>1, <3>2
    <2>3. t[p + i - 1] = u[p + i - 1]  BY <2>1, <2>2 DEF Kept
    <2>4. Peek(u, p + i - 1) = u[p + i - 1]  BY <2>1 DEF Peek, Kept
    <2> QED  BY <2>3, <2>4 DEF Has
  <1>11. SubSeq(t, p, e - 1) = v
    <2>1. \A i \in p..e - 1 : t[i] \in Tokens
      <3>1. SUFFICES ASSUME NEW i \in p..e - 1 PROVE t[i] \in Tokens  OBVIOUS
      <3>2. i - p + 1 \in 1..Len(v) /\ p + (i - p + 1) - 1 = i  BY <1>1, <1>7
      <3>3. t[p + (i - p + 1) - 1] = v[i - p + 1]  BY <1>10, <3>2
      <3> QED  BY <3>2, <3>3, ElementOfSeq
    <2>2. /\ SubSeq(t, p, e - 1) \in Seq(Tokens)
          /\ Len(SubSeq(t, p, e - 1)) = IF p <= e - 1 THEN e - 1 - p + 1 ELSE 0
          /\ \A i \in 1..e - 1 - p + 1 : SubSeq(t, p, e - 1)[i] = t[p + i - 1]
      <3>1. p \in Int /\ e - 1 \in Int  BY <1>6
      <3> HIDE DEF e
      <3> QED  BY <2>1, <3>1, SubSeqProperties
    <2>3. e - 1 - p + 1 = Len(v) /\ Len(SubSeq(t, p, e - 1)) = Len(v)  BY <1>1, <1>7, <2>2
    <2>4. \A i \in 1..Len(v) : SubSeq(t, p, e - 1)[i] = v[i]  BY <1>10, <2>2, <2>3
    <2> DEFINE w == SubSeq(t, p, e - 1)
    <2>5. w \in Seq(Tokens) /\ Len(w) = Len(v) /\ \A i \in 1..Len(v) : w[i] = v[i]
      BY <2>2, <2>3, <2>4
    <2> HIDE DEF w
    <2>6. w = v  BY <2>5, SeqEqual
    <2> QED  BY <2>6 DEF w
  <1> QED  BY <1>7, <1>11


(* What the daemon renders is a text of tokens.                              *)
NameFacts(r) ==
    /\ Parts(NameParts(r)) /\ Len(NameParts(r)) = Len(r.names)
    /\ \A k \in 1..Len(r.names) : NameParts(r)[k] = <<r.names[k]>> /\ r.names[k] \in Strings

LEMMA NamePart ==
    ASSUME NEW r, IsReply(r)
    PROVE  NameFacts(r)
  <1>1. r.names \in Seq(Strings) /\ Len(r.names) \in Nat  BY LenProperties DEF IsReply
  <1>2. ASSUME NEW k \in 1..Len(r.names)
        PROVE  /\ NameParts(r)[k] = <<r.names[k]>> /\ r.names[k] \in Strings
               /\ NameParts(r)[k] \in Seq(Tokens)
    <2>1. NameParts(r)[k] = <<r.names[k]>>  BY DEF NameParts
    <2>2. r.names[k] \in Strings  BY <1>1, ElementOfSeq
    <2>3. r.names[k] \in Tokens  BY <2>2, Literals
    <2> QED  BY <2>1, <2>2, <2>3
  <1>3. Len(NameParts(r)) = Len(r.names)  BY <1>1 DEF NameParts
  <1> QED  BY <1>1, <1>2, <1>3 DEF NameFacts, Parts

LEMMA NamesText ==
    ASSUME NEW r, IsReply(r)
    PROVE  /\ RenderNames(r) \in Seq(Tokens)
           /\ Peek(RenderNames(r), 1) = "lbracket"
           /\ Has(RenderNames(r), 2, Separated(NameParts(r)))
           /\ Peek(RenderNames(r), 2 + Len(Separated(NameParts(r)))) = "rbracket"
  <1> DEFINE open == <<"lbracket">>
             list == Separated(NameParts(r))
             shut == <<"rbracket">>
             whole == RenderNames(r)
  <1>1. open \in Seq(Tokens) /\ shut \in Seq(Tokens) /\ Len(open) = 1  BY Literals
  <1>2. list \in Seq(Tokens) /\ Len(list) \in Nat
    BY NamePart, SeparatedIsJoined, LenProperties DEF NameFacts
  <1>3. Glued(whole, open, list, shut)  BY DEF Glued, RenderNames, NameParts
  <1> HIDE DEF open, list, shut, whole
  <1>4. whole \in Seq(Tokens)  BY <1>1, <1>2, <1>3, GluedText
  <1>5. Has(whole, 1, whole)  BY <1>4, HasItself
  <1>6. Has(whole, 1, open) /\ Has(whole, 1 + Len(open), list)
        /\ Has(whole, 1 + Len(open) + Len(list), shut)
    BY <1>1, <1>2, <1>3, <1>5, HasGlued
  <1>7. 1 + Len(open) = 2 /\ 1 + Len(open) + Len(list) = 2 + Len(list) /\ 2 + Len(list) \in Nat
    BY <1>1, <1>2
  <1>8. Has(whole, 2, list) /\ Has(whole, 2 + Len(list), shut)  BY <1>6, <1>7
  <1>9. Peek(whole, 1) = "lbracket"  BY <1>6, HasOne DEF open
  <1>10. Peek(whole, 2 + Len(list)) = "rbracket"  BY <1>7, <1>8, HasOne DEF shut
  <1> QED  BY <1>4, <1>8, <1>9, <1>10 DEF whole, list

LEMMA RenderedText ==
    ASSUME NEW c, NEW r, IsReply(r)
    PROVE  Rendered(c, r) \in Seq(Tokens)
  BY QueryText, NamesText DEF Rendered

-----------------------------------------------------------------------------
(* The walk stays on the text and moves on                                   *)

CellsRead == [column : {Numbers[token] : token \in DOMAIN Numbers}, value : Seq(Arrivable)]

InArray == {"rows", "row", "cells", "memberEnd", "rowEnd", "names"}
InRow == {"row", "cells", "memberEnd", "rowEnd"}
Loops == {"members"} \cup InArray

Typed ==
    /\ call \in {"query", "table_names"} /\ IsReply(sent)
    /\ text \in Seq(Arrivable) /\ Len(text) \in Nat
    /\ pos \in Nat /\ pos <= Len(text) + 1
    /\ at \in {"start", "done"} \cup Loops
    /\ row \in Seq(CellsRead) /\ Len(row) <= Len(text)
    /\ result \in Seq(Seq(CellsRead) \cup Strings) /\ Len(result) <= Len(text)
    /\ truncated \in BOOLEAN /\ outcome \in {"none", "returned", "thrown"}

(* Every row and name that was read stands before the cursor, and every cell *)
(* of the row being read.                                                    *)
Walking ==
    /\ at # "done" => pos # 0 /\ outcome = "none"
    /\ at = "done" /\ outcome = "none" => text = << >> /\ pos = 0
    /\ outcome # "none" => pos # 0
    /\ at = "start" => pos = 1
    /\ at \in {"start", "members"} => result = << >>
    /\ at \in InArray => Len(result) + 2 <= pos
    /\ at \in InRow => Len(row) < pos

(* One turn: the cursor moves on, or the walk ends where it is.              *)
Moves ==
    /\ at' \in Loops /\ outcome' = outcome
    /\ pos' \in Nat /\ pos < pos' /\ pos' <= Len(text) + 1
    /\ at' = "members" => result' = << >>
    /\ at' \in InArray => Len(result') + 2 <= pos'
    /\ at' \in InRow => Len(row') < pos'
Ends == at' = "done" /\ outcome' \in {"returned", "thrown"} /\ pos' = pos

Kinds ==
    /\ row' \in Seq(CellsRead) /\ Len(row') <= Len(text)
    /\ result' \in Seq(Seq(CellsRead) \cup Strings) /\ Len(result') <= Len(text)
    /\ truncated' \in BOOLEAN

Turn == at # "done" /\ at' # "done" => pos' > pos

LEMMA OneTurn ==
    ASSUME Typed, Walking, at # "done", UNCHANGED <<call, sent, text>>, Kinds, Moves \/ Ends
    PROVE  Typed' /\ Walking' /\ Turn
  <1>1. CASE Moves
    <2>1. Typed'  BY <1>1 DEF Typed, Kinds, Moves
    <2>2. Walking'  BY <1>1 DEF Typed, Walking, Moves, Loops, InArray, InRow
    <2> QED  BY <1>1, <2>1, <2>2 DEF Typed, Moves, Turn
  <1>2. CASE Ends
    <2>1. Typed'  BY <1>2 DEF Typed, Kinds, Ends
    <2>2. Walking'  BY <1>2 DEF Typed, Walking, Ends, Loops, InArray, InRow
    <2> QED  BY <1>2, <2>1, <2>2 DEF Ends, Turn
  <1> QED  BY <1>1, <1>2

LEMMA Onwards ==
    ASSUME Typed, NEW p \in Nat, p <= Len(text) + 1
    PROVE  /\ Peek(text, p) # "nothing" => p \in Nat /\ p <= Len(text)
           /\ AfterKey(text, p) # 0 => AfterKey(text, p) = p + 2 /\ p + 2 <= Len(text) + 1
           /\ SkipValue(text, p) # 0 =>
                 /\ SkipValue(text, p) \in Nat /\ p < SkipValue(text, p)
                 /\ SkipValue(text, p) <= Len(text) + 1
  <1>1. Len(text) \in Nat /\ p \in 0..Len(text) + 1  BY DEF Typed
  <1>2. Peek(text, p) # "nothing" => p \in Nat /\ p <= Len(text)  BY <1>1, PeekFacts
  <1>3. AfterKey(text, p) # 0 => AfterKey(text, p) = p + 2 /\ p + 2 <= Len(text) + 1
    BY <1>1, AfterKeyBound
  <1>4. Behind(text, p, SkipValue(text, p))  BY <1>1, SkipValueBound
  <1> QED  BY <1>1, <1>2, <1>3, <1>4 DEF Behind


NothingRead ==
    /\ << >> \in Seq(CellsRead) /\ << >> \in Seq(Seq(CellsRead) \cup Strings)
    /\ << >> \in Seq(Arrivable) /\ Len(<< >>) = 0

LEMMA Nothing == NothingRead
  BY EmptySeq DEF NothingRead

LEMMA NoReplyIsReply == IsReply(NoReply)
  <1>1. << >> \in Seq(Strings)  BY EmptySeq
  <1>2. Len(NoReply.rows) = 0 /\ NoReply.names = << >> /\ NoReply.truncated = FALSE
        /\ NoReply.first = FALSE /\ NoReply.rowId = "none"
    BY DEF NoReply
  <1> DEFINE r == NoReply
  <1>3. /\ Len(r.rows) = 0 /\ r.names \in Seq(Strings) /\ r.truncated = FALSE
        /\ r.first = FALSE /\ r.rowId = "none"
    BY <1>1, <1>2
  <1> HIDE DEF r
  <1>4. IsReply(r)
    <2>1. Len(r.rows) \in Nat /\ 1..Len(r.rows) = {}  BY <1>3
    <2> QED  BY <1>3, <2>1 DEF IsReply
  <1> QED  BY <1>4 DEF r

LEMMA CallTurn ==
    ASSUME Typed, Walking, NEW c \in {"query", "table_names"}, NEW r \in Replies, Call(c, r)
    PROVE  Typed' /\ Walking' /\ Turn
  <1>1. IsReply(r)  BY ReplyAssumption
  <1>2. text' \in Seq(Arrivable) /\ Len(text') \in Nat
    <2>1. text' \in Arriving(Rendered(c, r)) /\ Rendered(c, r) \in Seq(Tokens)
      BY <1>1, RenderedText DEF Call
    <2> QED  BY <2>1, Arrives
  <1>3. NothingRead
    BY Nothing
  <1>6. /\ call' = c /\ sent' = r /\ pos' = 1 /\ at' = "start"
        /\ row' = << >> /\ result' = << >> /\ truncated' \in BOOLEAN /\ outcome' = "none"
    BY DEF Call
  <1>7. Len(row') = 0 /\ Len(result') = 0  BY <1>3, <1>6 DEF NothingRead
  <1>8. row' \in Seq(CellsRead) /\ result' \in Seq(Seq(CellsRead) \cup Strings)
    BY <1>3, <1>6 DEF NothingRead
  <1>9. IsReply(sent')  BY <1>1, <1>6
  <1>4. Typed'  BY <1>2, <1>6, <1>7, <1>8, <1>9 DEF Typed
  <1>5. Walking'  BY DEF Call, Walking, InArray, InRow
  <1> QED  BY <1>4, <1>5 DEF Call, Turn

LEMMA DiscardTurn ==
    ASSUME Typed, Walking, Discard
    PROVE  Typed' /\ Walking' /\ Turn
  <1>1. NothingRead  BY Nothing
  <1>2. IsReply(NoReply)  BY NoReplyIsReply
  <1>5. /\ call' = "query" /\ sent' = NoReply /\ text' = << >> /\ pos' = 0 /\ at' = at
        /\ row' = << >> /\ result' = << >> /\ truncated' \in BOOLEAN /\ outcome' = "none"
        /\ at = "done"
    BY DEF Discard
  <1>6. Len(row') = 0 /\ Len(result') = 0 /\ Len(text') = 0  BY <1>1, <1>5 DEF NothingRead
  <1>7. row' \in Seq(CellsRead) /\ result' \in Seq(Seq(CellsRead) \cup Strings)
        /\ text' \in Seq(Arrivable)
    BY <1>1, <1>5 DEF NothingRead
  <1>8. IsReply(sent')  BY <1>2, <1>5
  <1>3. Typed'  BY <1>5, <1>6, <1>7, <1>8 DEF Typed
  <1>4. Walking'  BY DEF Discard, Walking, InArray, InRow
  <1> QED  BY <1>3, <1>4 DEF Discard, Turn

LEMMA StartQueryTurn ==
    ASSUME Typed, Walking, StartQuery
    PROVE  Typed' /\ Walking' /\ Turn
  <1>1. at # "done" /\ at \notin InArray \cup InRow /\ result = << >>
    BY DEF StartQuery, Walking, InArray, InRow
  <1>2. truncated' \in BOOLEAN
    <2>1. Len(text) # 0 => Flag(text, 2, "truncated") \in BOOLEAN  BY FlagIsBoolean DEF Typed
    <2>2. Len(text) = 0 => Token = "nothing"  BY DEF Token, Peek
    <2> QED  BY <2>1, <2>2 DEF StartQuery
  <1>3. UNCHANGED <<call, sent, text>> /\ Kinds  BY <1>2 DEF StartQuery, Typed, Kinds
  <1>4. CASE Token = "lbrace"
    <2>1. at' = "members" /\ pos' = 2 /\ outcome' = outcome  BY <1>4 DEF StartQuery, Go
    <2>2. Peek(text, pos) # "nothing"  BY <1>4 DEF Token
    <2>3. Len(text) \in Nat /\ pos \in Nat /\ pos <= Len(text) + 1 /\ pos = 1
      BY DEF Typed, Walking, StartQuery
    <2>4. 1 <= Len(text)  BY <2>2, <2>3, Onwards
    <2>5. result' = << >>  BY <1>1 DEF StartQuery
    <2>6. Moves
      BY <2>1, <2>3, <2>4, <2>5 DEF Moves, Loops, InArray, InRow
    <2> QED  BY <1>1, <1>3, <2>6, OneTurn
  <1>5. CASE Token # "lbrace"
    <2>1. Ends  BY <1>5 DEF StartQuery, End, Ends
    <2> QED  BY <1>1, <1>3, <2>1, OneTurn
  <1> QED  BY <1>4, <1>5


(* A separator ends the walk or moves on, into the loop it is told.          *)
LEMMA SeparatorTurn ==
    ASSUME Typed, Walking, NEW p \in Nat, p <= Len(text) + 1, NEW again, NEW close, NEW next,
           close \in {"rbrace", "rbracket"}, Separator(p, again, close, next, "thrown")
    PROVE  \/ /\ at' \in {again, next} /\ pos' = p + 1 /\ p + 1 <= Len(text) + 1
              /\ outcome' = outcome
           \/ Ends
  <1>1. CASE Peek(text, p) = "comma"
    <2>1. Peek(text, p) # "nothing"  BY <1>1
    <2>2. p <= Len(text) /\ Len(text) \in Nat  BY <2>1, Onwards DEF Typed
    <2> QED  BY <1>1, <2>2 DEF Separator, Go
  <1>2. CASE Peek(text, p) = close /\ Peek(text, p) # "comma"
    <2>1. Peek(text, p) # "nothing"  BY <1>2
    <2>2. p <= Len(text) /\ Len(text) \in Nat  BY <2>1, Onwards DEF Typed
    <2> QED  BY <1>2, <2>2 DEF Separator, Go
  <1>3. CASE Peek(text, p) # close /\ Peek(text, p) # "comma"
    BY <1>3 DEF Separator, End, Ends
  <1> QED  BY <1>1, <1>2, <1>3

LEMMA FindRowsTurn ==
    ASSUME Typed, Walking, FindRows
    PROVE  Typed' /\ Walking' /\ Turn
  <1>1. /\ at = "members" /\ at # "done" /\ result = << >> /\ Len(result) = 0
        /\ UNCHANGED <<call, sent, text>> /\ Kinds /\ result' = << >>
    BY Nothing DEF FindRows, Reading, Walking, Typed, Kinds, NothingRead
  <1>2. Len(text) \in Nat /\ pos \in Nat /\ pos <= Len(text) + 1  BY DEF Typed
  <1> DEFINE value == AfterKey(text, pos)
             after == SkipValue(text, value)
  <1>3. CASE value = 0
    <2>1. Ends  BY <1>3 DEF FindRows, End, Ends
    <2> QED  BY <1>1, <2>1, OneTurn
  <1>4. CASE value # 0
    <2>0. value = pos + 2 /\ value \in Nat /\ value <= Len(text) + 1 /\ value # 0
      BY <1>2, <1>4, Onwards
    <2>1. CASE Token = "rows" /\ Peek(text, value) = "lbracket"
      <3>1. Peek(text, value) # "nothing"  BY <2>1
      <3>2. value <= Len(text)  BY <2>0, <3>1, Onwards
      <3>3. IF Peek(text, value + 1) = "rbracket" THEN End("returned")
            ELSE Go("rows", value + 1)
        BY <1>4, <2>1 DEF FindRows
      <3> HIDE DEF value
      <3>4. CASE Peek(text, value + 1) = "rbracket"
        <4>1. Ends  BY <3>3, <3>4 DEF End, Ends
        <4> QED  BY <1>1, <4>1, OneTurn
      <3>5. CASE Peek(text, value + 1) # "rbracket"
        <4>1. Moves  BY <1>1, <1>2, <2>0, <3>2, <3>3, <3>5 DEF Go, Moves, Loops, InArray, InRow
        <4> QED  BY <1>1, <4>1, OneTurn
      <3> QED  BY <3>4, <3>5
    <2>2. CASE ~(Token = "rows" /\ Peek(text, value) = "lbracket")
      <3>1. IF Peek(text, after) = "comma" THEN Go("members", after + 1) ELSE End("returned")
        BY <1>4, <2>2 DEF FindRows
      <3>2. CASE Peek(text, after) = "comma"
        <4>1. after # 0
          <5>1. Peek(text, 0) = "nothing"  BY DEF Peek
          <5> QED  BY <3>2, <5>1
        <4>2. after \in Nat /\ value < after /\ after <= Len(text) + 1  BY <2>0, <4>1, Onwards
        <4>3. Peek(text, after) # "nothing"  BY <3>2
        <4>4. after <= Len(text)  BY <4>2, <4>3, Onwards
        <4>5. at' = "members" /\ pos' = after + 1 /\ outcome' = outcome  BY <3>1, <3>2 DEF Go
        <4> HIDE DEF value, after
        <4>6. Moves  BY <1>1, <1>2, <2>0, <4>2, <4>4, <4>5 DEF Moves, Loops, InArray, InRow
        <4> QED  BY <1>1, <4>6, OneTurn
      <3>3. CASE Peek(text, after) # "comma"
        <4>1. Ends  BY <3>1, <3>3 DEF End, Ends
        <4> QED  BY <1>1, <4>1, OneTurn
      <3> QED  BY <3>2, <3>3
    <2> QED  BY <2>1, <2>2
  <1> QED  BY <1>3, <1>4

LEMMA NextRowTurn ==
    ASSUME Typed, Walking, NextRow
    PROVE  Typed' /\ Walking' /\ Turn
  <1>1. /\ at = "rows" /\ at # "done" /\ Len(result) + 2 <= pos /\ Len(row') = 0
        /\ UNCHANGED <<call, sent, text, result>> /\ Kinds
    BY Nothing DEF NextRow, Reading, Walking, Typed, Kinds, NothingRead, InArray
  <1>2. Len(text) \in Nat /\ pos \in Nat /\ pos <= Len(text) + 1 /\ Len(result) \in Nat
    BY LenProperties DEF Typed
  <1>3. CASE Token # "lbrace"
    <2>1. Ends  BY <1>3 DEF NextRow, End, Ends
    <2> QED  BY <1>1, <2>1, OneTurn
  <1>4. CASE Token = "lbrace"
    <2>1. Peek(text, pos) # "nothing"  BY <1>4 DEF Token
    <2>2. pos <= Len(text)  BY <1>2, <2>1, Onwards
    <2>3. CASE Peek(text, pos + 1) = "rbrace"
      <3>1. at' = "rowEnd" /\ pos' = pos + 2 /\ outcome' = outcome  BY <1>4, <2>3 DEF NextRow, Go
      <3>2. Peek(text, pos + 1) # "nothing"  BY <2>3
      <3>3. pos + 1 <= Len(text)  BY <1>2, <2>2, <3>2, Onwards
      <3>4. Moves  BY <1>1, <1>2, <3>1, <3>3 DEF Moves, Loops, InArray, InRow
      <3> QED  BY <1>1, <3>4, OneTurn
    <2>4. CASE Peek(text, pos + 1) # "rbrace"
      <3>1. at' = "row" /\ pos' = pos + 1 /\ outcome' = outcome  BY <1>4, <2>4 DEF NextRow, Go
      <3>2. Moves  BY <1>1, <1>2, <2>2, <3>1 DEF Moves, Loops, InArray, InRow
      <3> QED  BY <1>1, <3>2, OneTurn
    <2> QED  BY <2>3, <2>4
  <1> QED  BY <1>3, <1>4

LEMMA RowMemberTurn ==
    ASSUME Typed, Walking, RowMember
    PROVE  Typed' /\ Walking' /\ Turn
  <1>1. /\ at = "row" /\ at # "done" /\ Len(result) + 2 <= pos /\ Len(row) < pos
        /\ UNCHANGED <<call, sent, text, row, result>> /\ Kinds
    BY DEF RowMember, Reading, Walking, Typed, Kinds, InArray, InRow
  <1>2. /\ Len(text) \in Nat /\ pos \in Nat /\ pos <= Len(text) + 1
        /\ Len(result) \in Nat /\ Len(row) \in Nat
    BY LenProperties DEF Typed
  <1> DEFINE value == AfterKey(text, pos)
             after == SkipValue(text, value)
  <1>3. CASE value = 0
    <2>1. Ends  BY <1>3 DEF RowMember, End, Ends
    <2> QED  BY <1>1, <2>1, OneTurn
  <1>4. CASE value # 0
    <2>0. value = pos + 2 /\ value \in Nat /\ value <= Len(text) + 1 /\ value # 0
      BY <1>2, <1>4, Onwards
    <2>1. CASE Token = "cells" /\ Peek(text, value) = "lbracket"
      <3>1. Peek(text, value) # "nothing"  BY <2>1
      <3>2. value <= Len(text)  BY <2>0, <3>1, Onwards
      <3>3. IF Peek(text, value + 1) = "rbracket" THEN Go("memberEnd", value + 2)
            ELSE Go("cells", value + 1)
        BY <1>4, <2>1 DEF RowMember
      <3> HIDE DEF value
      <3>4. CASE Peek(text, value + 1) = "rbracket"
        <4>1. Peek(text, value + 1) # "nothing"  BY <3>4
        <4>2. value + 1 <= Len(text)  BY <2>0, <3>2, <4>1, Onwards
        <4>3. Moves  BY <1>1, <1>2, <2>0, <3>3, <3>4, <4>2 DEF Go, Moves, Loops, InArray, InRow
        <4> QED  BY <1>1, <4>3, OneTurn
      <3>5. CASE Peek(text, value + 1) # "rbracket"
        <4>1. Moves  BY <1>1, <1>2, <2>0, <3>2, <3>3, <3>5 DEF Go, Moves, Loops, InArray, InRow
        <4> QED  BY <1>1, <4>1, OneTurn
      <3> QED  BY <3>4, <3>5
    <2>2. CASE ~(Token = "cells" /\ Peek(text, value) = "lbracket")
      <3>1. IF after = 0 THEN End("thrown") ELSE Go("memberEnd", after)
        BY <1>4, <2>2 DEF RowMember
      <3>2. CASE after # 0
        <4>2. after \in Nat /\ value < after /\ after <= Len(text) + 1  BY <2>0, <3>2, Onwards
        <4>5. at' = "memberEnd" /\ pos' = after /\ outcome' = outcome  BY <3>1, <3>2 DEF Go
        <4> HIDE DEF value, after
        <4>6. Moves  BY <1>1, <1>2, <2>0, <4>2, <4>5 DEF Moves, Loops, InArray, InRow
        <4> QED  BY <1>1, <4>6, OneTurn
      <3>3. CASE after = 0
        <4>1. Ends  BY <3>1, <3>3 DEF End, Ends
        <4> QED  BY <1>1, <4>1, OneTurn
      <3> QED  BY <3>2, <3>3
    <2> QED  BY <2>1, <2>2
  <1> QED  BY <1>3, <1>4

LEMMA NextCellTurn ==
    ASSUME Typed, Walking, NextCell
    PROVE  Typed' /\ Walking' /\ Turn
  <1>1. /\ at = "cells" /\ at # "done" /\ Len(result) + 2 <= pos /\ Len(row) < pos
        /\ UNCHANGED <<call, sent, text, truncated, result>>
    BY DEF NextCell, Reading, Walking, InArray, InRow
  <1>2. /\ Len(text) \in Nat /\ pos \in Nat /\ pos <= Len(text) + 1
        /\ Len(result) \in Nat /\ Len(row) \in Nat /\ row \in Seq(CellsRead)
    BY LenProperties DEF Typed
  <1> DEFINE value == IF Peek(text, pos + 1) = "comma" THEN pos + 2 ELSE pos + 1
             after == SkipValue(text, value)
  <1>3. CASE Token \notin DOMAIN Numbers \/ after = 0
    <2>1. End("thrown") /\ UNCHANGED row  BY <1>3 DEF NextCell
    <2>2. Ends /\ Kinds  BY <1>1, <2>1 DEF End, Ends, Typed, Kinds
    <2> QED  BY <1>1, <2>2, OneTurn
  <1>4. CASE Token \in DOMAIN Numbers /\ after # 0
    <2>1. Peek(text, pos) # "nothing"
      BY <1>4, TokenAssumption DEF Token, Tokens, Scalars
    <2>2. pos <= Len(text) /\ pos + 1 <= Len(text) + 1  BY <1>2, <2>1, Onwards
    <2>3. value \in Nat /\ pos < value /\ value <= Len(text) + 1
      <3>1. CASE Peek(text, pos + 1) = "comma"
        <4>1. Peek(text, pos + 1) # "nothing"  BY <3>1
        <4>2. pos + 1 <= Len(text)  BY <1>2, <2>2, <4>1, Onwards
        <4> QED  BY <1>2, <3>1, <4>2
      <3>2. CASE Peek(text, pos + 1) # "comma"  BY <1>2, <2>2, <3>2
      <3> QED  BY <3>1, <3>2
    <2>4. after \in Nat /\ value < after /\ after <= Len(text) + 1  BY <1>4, <2>3, Onwards
    <2> DEFINE cell == [column |-> Numbers[Token], value |-> SubSeq(text, value, after - 1)]
    <2>5. row' = Append(row, cell) /\ Separator(after, "cells", "rbracket", "memberEnd", "thrown")
      BY <1>4 DEF NextCell
    <2>6. cell \in CellsRead
      <3>1. \A i \in value..after - 1 : text[i] \in Arrivable
        <4>1. SUFFICES ASSUME NEW i \in value..after - 1 PROVE text[i] \in Arrivable  OBVIOUS
        <4>2. i \in 1..Len(text)  BY <1>2, <2>3, <2>4
        <4> QED  BY <4>2, ElementOfSeq DEF Typed
      <3>2. value \in Int /\ after - 1 \in Int  BY <2>3, <2>4
      <3> HIDE DEF value, after
      <3>3. SubSeq(text, value, after - 1) \in Seq(Arrivable)
        BY <3>1, <3>2, SubSeqProperties
      <3> QED  BY <1>4, <3>3 DEF CellsRead
    <2> HIDE DEF cell, value, after
    <2>7. row' \in Seq(CellsRead) /\ Len(row') = Len(row) + 1
      BY <1>2, <2>5, <2>6, AppendProperties
    <2>8. Kinds  BY <1>1, <1>2, <2>2, <2>7 DEF Typed, Kinds
    <2>9. Moves \/ Ends
      <3>1. \/ /\ at' \in {"cells", "memberEnd"} /\ pos' = after + 1 /\ after + 1 <= Len(text) + 1
               /\ outcome' = outcome
            \/ Ends
        BY <2>4, <2>5, SeparatorTurn
      <3> QED  BY <1>1, <1>2, <2>3, <2>4, <2>7, <3>1 DEF Moves, Loops, InArray, InRow
    <2> QED  BY <1>1, <2>8, <2>9, OneTurn
  <1> QED  BY <1>3, <1>4

LEMMA MemberEndTurn ==
    ASSUME Typed, Walking, MemberEnd
    PROVE  Typed' /\ Walking' /\ Turn
  <1>1. /\ at = "memberEnd" /\ at # "done" /\ Len(result) + 2 <= pos /\ Len(row) < pos
        /\ UNCHANGED <<call, sent, text, row, result>> /\ Kinds
    BY DEF MemberEnd, Reading, Walking, Typed, Kinds, InArray, InRow
  <1>2. /\ Len(text) \in Nat /\ pos \in Nat /\ pos <= Len(text) + 1
        /\ Len(result) \in Nat /\ Len(row) \in Nat
    BY LenProperties DEF Typed
  <1>3. \/ /\ at' \in {"row", "rowEnd"} /\ pos' = pos + 1 /\ pos + 1 <= Len(text) + 1
           /\ outcome' = outcome
        \/ Ends
    BY <1>2, SeparatorTurn DEF MemberEnd
  <1>4. Moves \/ Ends  BY <1>1, <1>2, <1>3 DEF Moves, Loops, InArray, InRow
  <1> QED  BY <1>1, <1>4, OneTurn

LEMMA RowEndTurn ==
    ASSUME Typed, Walking, RowEnd
    PROVE  Typed' /\ Walking' /\ Turn
  <1>1. /\ at = "rowEnd" /\ at # "done" /\ Len(result) + 2 <= pos
        /\ UNCHANGED <<call, sent, text, truncated, row>> /\ result' = Append(result, row)
    BY DEF RowEnd, Reading, Walking, InArray, InRow
  <1>2. /\ Len(text) \in Nat /\ pos \in Nat /\ pos <= Len(text) + 1 /\ Len(result) \in Nat
        /\ result \in Seq(Seq(CellsRead) \cup Strings) /\ row \in Seq(CellsRead) \cup Strings
    BY LenProperties DEF Typed
  <1>3. result' \in Seq(Seq(CellsRead) \cup Strings) /\ Len(result') = Len(result) + 1
    BY <1>1, <1>2, AppendProperties
  <1>4. Kinds  BY <1>1, <1>2, <1>3 DEF Typed, Kinds
  <1>5. CASE Token = "comma"
    <2>1. Peek(text, pos) # "nothing"  BY <1>5 DEF Token
    <2>2. pos <= Len(text)  BY <1>2, <2>1, Onwards
    <2>3. at' = "rows" /\ pos' = pos + 1 /\ outcome' = outcome  BY <1>5 DEF RowEnd, Go
    <2>4. Moves  BY <1>1, <1>2, <1>3, <2>2, <2>3 DEF Moves, Loops, InArray, InRow
    <2> QED  BY <1>1, <1>4, <2>4, OneTurn
  <1>6. CASE Token # "comma"
    <2>1. Ends  BY <1>6 DEF RowEnd, End, Ends
    <2> QED  BY <1>1, <1>4, <2>1, OneTurn
  <1> QED  BY <1>5, <1>6

LEMMA StartNamesTurn ==
    ASSUME Typed, Walking, StartNames
    PROVE  Typed' /\ Walking' /\ Turn
  <1>1. /\ at = "start" /\ at # "done" /\ result = << >> /\ Len(result) = 0 /\ pos = 1
        /\ UNCHANGED <<call, sent, text, row, result>> /\ Kinds
    BY Nothing DEF StartNames, Reading, Walking, Typed, Kinds, NothingRead
  <1>2. Len(text) \in Nat /\ pos \in Nat /\ pos <= Len(text) + 1  BY DEF Typed
  <1>3. CASE Token # "lbracket" \/ Peek(text, 2) = "rbracket"
    <2>1. Ends  BY <1>3 DEF StartNames, End, Ends
    <2> QED  BY <1>1, <2>1, OneTurn
  <1>4. CASE ~(Token # "lbracket" \/ Peek(text, 2) = "rbracket")
    <2>1. Peek(text, pos) # "nothing"  BY <1>4 DEF Token
    <2>2. pos <= Len(text)  BY <1>2, <2>1, Onwards
    <2>3. at' = "names" /\ pos' = 2 /\ outcome' = outcome  BY <1>4 DEF StartNames, Go
    <2>4. Moves  BY <1>1, <1>2, <2>2, <2>3 DEF Moves, Loops, InArray, InRow
    <2> QED  BY <1>1, <2>4, OneTurn
  <1> QED  BY <1>3, <1>4

LEMMA NextNameTurn ==
    ASSUME Typed, Walking, NextName
    PROVE  Typed' /\ Walking' /\ Turn
  <1>1. /\ at = "names" /\ at # "done" /\ Len(result) + 2 <= pos
        /\ UNCHANGED <<call, sent, text, truncated, row>>
    BY DEF NextName, Reading, Walking, InArray
  <1>2. /\ Len(text) \in Nat /\ pos \in Nat /\ pos <= Len(text) + 1 /\ Len(result) \in Nat
        /\ result \in Seq(Seq(CellsRead) \cup Strings)
    BY LenProperties DEF Typed
  <1>3. CASE Token \notin Strings
    <2>1. Ends /\ UNCHANGED result  BY <1>3 DEF NextName, End, Ends
    <2>2. Kinds  BY <1>1, <2>1 DEF Typed, Kinds
    <2> QED  BY <1>1, <2>1, <2>2, OneTurn
  <1>4. CASE Token \in Strings
    <2>1. Peek(text, pos) # "nothing"
      BY <1>4, TokenAssumption DEF Token, Tokens, Scalars
    <2>2. pos <= Len(text) /\ pos + 1 <= Len(text) + 1  BY <1>2, <2>1, Onwards
    <2>3. result' = Append(result, Token) /\ Token \in Seq(CellsRead) \cup Strings
      BY <1>4 DEF NextName
    <2>4. result' \in Seq(Seq(CellsRead) \cup Strings) /\ Len(result') = Len(result) + 1
      BY <1>2, <2>3, AppendProperties
    <2>5. Kinds  BY <1>1, <1>2, <2>2, <2>4 DEF Typed, Kinds
    <2>6. CASE Peek(text, pos + 1) = "comma"
      <3>1. Peek(text, pos + 1) # "nothing"  BY <2>6
      <3>2. pos + 1 <= Len(text)  BY <1>2, <2>2, <3>1, Onwards
      <3>3. at' = "names" /\ pos' = pos + 2 /\ outcome' = outcome  BY <1>4, <2>6 DEF NextName, Go
      <3>4. Moves  BY <1>1, <1>2, <2>4, <3>2, <3>3 DEF Moves, Loops, InArray, InRow
      <3> QED  BY <1>1, <2>5, <3>4, OneTurn
    <2>7. CASE Peek(text, pos + 1) # "comma"
      <3>1. Ends  BY <1>4, <2>7 DEF NextName, End, Ends
      <3> QED  BY <1>1, <2>5, <3>1, OneTurn
    <2> QED  BY <2>6, <2>7
  <1> QED  BY <1>3, <1>4

LEMMA NextTurn ==
    ASSUME Typed, Walking, [Next]_vars
    PROVE  Typed' /\ Walking' /\ (vars' # vars => Turn)
  <1>1. CASE UNCHANGED vars
    BY <1>1 DEF vars, Typed, Walking
  <1>2. CASE Next
    BY <1>2, CallTurn, DiscardTurn, StartQueryTurn, FindRowsTurn, NextRowTurn, RowMemberTurn,
       NextCellTurn, MemberEndTurn, RowEndTurn, StartNamesTurn, NextNameTurn DEF Next
  <1> QED  BY <1>1, <1>2

LEMMA InitTurn ==
    ASSUME Init
    PROVE  Typed /\ Walking
  <1>1. NothingRead /\ IsReply(NoReply)  BY Nothing, NoReplyIsReply
  <1>2. /\ call = "query" /\ sent = NoReply /\ text = << >> /\ pos = 0 /\ at = "done"
        /\ row = << >> /\ result = << >> /\ truncated \in BOOLEAN /\ outcome = "none"
    BY DEF Init
  <1>3. Len(row) = 0 /\ Len(result) = 0 /\ Len(text) = 0  BY <1>1, <1>2 DEF NothingRead
  <1>4. row \in Seq(CellsRead) /\ result \in Seq(Seq(CellsRead) \cup Strings)
        /\ text \in Seq(Arrivable)
    BY <1>1, <1>2 DEF NothingRead
  <1>5. Typed  BY <1>1, <1>2, <1>3, <1>4 DEF Typed
  <1>6. Walking  BY <1>2 DEF Walking, InArray, InRow
  <1> QED  BY <1>5, <1>6

(* TypeOK holds of any replies and any damage: the cursor stays on the text, *)
(* and query() and table_names() never hold more rows, cells or names than   *)
(* the text has tokens.                                                      *)
THEOREM TypeCorrect == Spec => []TypeOK
  <1>1. Init => Typed /\ Walking  BY InitTurn
  <1>2. Typed /\ Walking /\ [Next]_vars => Typed' /\ Walking'  BY NextTurn
  <1>3. Typed /\ Walking => TypeOK
    <2> SUFFICES ASSUME Typed, Walking PROVE TypeOK  OBVIOUS
    <2>1. pos \in 0..(Len(text) + 1)  BY DEF Typed
    <2>2. (outcome = "none") <=> (at # "done" \/ (text = << >> /\ pos = 0))
      BY DEF Walking
    <2>3. at \in {"start", "members", "rows", "row", "cells", "memberEnd", "rowEnd",
                  "names", "done"}
      BY DEF Typed, Loops, InArray
    <2> QED  BY <2>1, <2>2, <2>3 DEF Typed, TypeOK
  <1> QED  BY <1>1, <1>2, <1>3, PTL DEF Spec

(* Every turn of the loops of query() and table_names() moves the cursor on, *)
(* on any text: none of them can go round for ever on a damaged reply.       *)
THEOREM EveryTurnMovesOn == Spec => EveryTurnAdvances
  <1>1. Init => Typed /\ Walking  BY InitTurn
  <1>2. Typed /\ Walking /\ [Next]_vars => Typed' /\ Walking'  BY NextTurn
  <1>3. Typed /\ Walking /\ [Next]_vars => [at # "done" /\ at' # "done" => pos' > pos]_vars
    BY NextTurn DEF Turn
  <1> QED  BY <1>1, <1>2, <1>3, PTL DEF Spec, EveryTurnAdvances


-----------------------------------------------------------------------------
(* The walk follows the reply                                                *)

MeantRow(r, k) ==
    [j \in 1..Len(r.rows[k]) |->
       [column |-> Numbers[r.rows[k][j].column], value |-> r.rows[k][j].value]]

(* What was read so far is what the daemon meant so far.                     *)
ReadRows(r, read) ==
    Len(read) <= Len(r.rows) /\ \A i \in 1..Len(read) : read[i] = MeantRow(r, i)
ReadCells(r, k, line) ==
    Len(line) <= Len(r.rows[k]) /\ \A j \in 1..Len(line) : line[j] = MeantRow(r, k)[j]
ReadNames(r, read) ==
    Len(read) <= Len(r.names) /\ \A i \in 1..Len(read) : read[i] = r.names[i]

(* The text t of the reply u broke off before p.                             *)
Gone(t, u, p) == Peek(t, p) \in Dead /\ t # u

InRows(r, t, p, read) ==
    /\ ReadRows(r, read)
    /\ Len(read) # Len(r.rows) => p = RowAt(r, Len(read) + 1)
    /\ Len(read) = Len(r.rows) => Gone(t, RenderQuery(r), p)

AtMember(r, k, p, line) ==
    \/ p = RowAt(r, k) + 1 /\ line = << >>
    \/ r.rowId = "first" /\ p = RowAt(r, k) + 5 /\ line = << >>
    \/ r.rowId = "last" /\ p = CellsTo(r, k) + 2 /\ line = MeantRow(r, k)

AtCell(r, t, k, p, line) ==
    /\ ReadCells(r, k, line)
    /\ Len(line) # Len(r.rows[k]) => p = CellAt(CellsFrom(r, k), r.rows[k], Len(line) + 1)
    /\ Len(line) = Len(r.rows[k]) => Gone(t, RenderQuery(r), p)

AtMemberEnd(r, k, p, line) ==
    \/ r.rowId = "first" /\ p = RowAt(r, k) + 4 /\ line = << >>
    \/ p = CellsTo(r, k) + 1 /\ line = MeantRow(r, k)
    \/ r.rowId = "last" /\ p = CellsTo(r, k) + 5 /\ line = MeantRow(r, k)

NameAt(r, k) == 2 + Offset(NameParts(r), k)

InNames(r, t, p, read) ==
    /\ ReadNames(r, read)
    /\ Len(read) # Len(r.names) => p = NameAt(r, Len(read) + 1)
    /\ Len(read) = Len(r.names) => Gone(t, RenderNames(r), p)

Reached(c, r, t, place, p, line, read) ==
    LET k == Len(read) + 1
    IN  /\ place = "members" => c = "query" /\ (p = 2 \/ (r.first /\ p = 6))
        /\ place = "rows" => c = "query" /\ InRows(r, t, p, read)
        /\ place \in InRow => c = "query" /\ ReadRows(r, read) /\ Len(read) # Len(r.rows)
        /\ place = "row" => AtMember(r, k, p, line)
        /\ place = "cells" => AtCell(r, t, k, p, line)
        /\ place = "memberEnd" => AtMemberEnd(r, k, p, line)
        /\ place = "rowEnd" => p = RowEndAt(r, k) /\ line = MeantRow(r, k)
        /\ place = "names" => c = "table_names" /\ InNames(r, t, p, read)

Follows ==
    /\ Reached(call, sent, text, at, pos, row, result)
    /\ outcome = "returned" => result = << >> \/ result = Meant
    /\ Whole /\ at = "done" => outcome = "returned" /\ result = Meant
    /\ Whole /\ call = "query" /\ at # "start" => truncated = sent.truncated

Following == Kept(text, Rendered(call, sent)) => Follows

(* The ways a turn may end.                                                  *)
GoesOn == at' \in Loops /\ outcome' = outcome /\ Reached(call, sent, text, at', pos', row', result')
GivesUp == at' = "done" /\ outcome' = "thrown" /\ ~Whole
Returns ==
    at' = "done" /\ outcome' = "returned" /\ (result' = Meant \/ (result' = << >> /\ ~Whole))

LEMMA Followed ==
    ASSUME Typed, Walking, Follows, at # "done", at # "start",
           UNCHANGED <<call, sent, text, truncated>>, GoesOn \/ GivesUp \/ Returns
    PROVE  Follows'
  <1>1. Whole' = Whole /\ Meant' = Meant  BY DEF Whole, Meant
  <1>2. outcome = "none"  BY DEF Walking
  <1>3. (Whole /\ call = "query" /\ at # "start" => truncated = sent.truncated)'
    BY <1>1 DEF Follows
  <1>4. CASE GoesOn
    <2>1. at' # "done" /\ outcome' = "none"  BY <1>2, <1>4 DEF GoesOn, Loops, InArray
    <2>2. Reached(call, sent, text, at, pos, row, result)'  BY <1>4 DEF GoesOn
    <2> QED  BY <1>1, <1>3, <2>1, <2>2 DEF Follows
  <1>5. CASE GivesUp \/ Returns
    <2>1. at' = "done"  BY <1>5 DEF GivesUp, Returns
    <2>2. Reached(call, sent, text, at, pos, row, result)'  BY <2>1 DEF Reached, InRow
    <2> QED  BY <1>1, <1>3, <1>5, <2>1, <2>2 DEF Follows, GivesUp, Returns
  <1> QED  BY <1>4, <1>5

(* What stands in the reply stands in the text, or the text broke off.       *)
Sees(p, token) == Peek(text, p) = token \/ (Peek(text, p) \in Dead /\ ~Whole)

LEMMA Seen ==
    ASSUME Typed, NEW u, u = Rendered(call, sent), Kept(text, u), NEW p \in Int,
           NEW token \in Tokens, Peek(u, p) = token
    PROVE  Sees(p, token) /\ token \notin Dead
  <1>1. token \notin Dead  BY Alive
  <1>2. Peek(text, p) \in Dead \/ Peek(text, p) = token  BY KeptPeek
  <1>3. Whole => Peek(text, p) = token  BY DEF Whole
  <1> QED  BY <1>1, <1>2, <1>3 DEF Sees

LEMMA KeySeen ==
    ASSUME Typed, NEW u, u = Rendered(call, sent), Kept(text, u), NEW p \in Nat,
           NEW key \in Strings, Peek(u, p) = key, Peek(u, p + 1) = "colon"
    PROVE  \/ /\ AfterKey(text, p) = p + 2 /\ p + 2 # 0 /\ p + 2 <= Len(text) + 1
              /\ Peek(text, p) = key
           \/ AfterKey(text, p) = 0 /\ ~Whole
  <1>1. key \in Tokens /\ "colon" \in Tokens /\ p + 1 \in Int  BY Literals
  <1>2. Sees(p, key) /\ Sees(p + 1, "colon")  BY <1>1, Seen
  <1>3. Strings \cap Dead = {} /\ "colon" \notin Dead  BY Alive, Literals
  <1>4. CASE Peek(text, p) = key /\ Peek(text, p + 1) = "colon"
    <2>1. AfterKey(text, p) = p + 2 /\ p + 2 # 0  BY <1>4 DEF AfterKey
    <2>2. Len(text) \in Nat  BY DEF Typed
    <2>3. p + 2 \in 1..Len(text) + 1  BY <2>1, <2>2, AfterKeyBound
    <2> QED  BY <1>4, <2>1, <2>3
  <1>5. CASE Peek(text, p) \in Dead /\ ~Whole
    <2>1. Peek(text, p) \notin Strings  BY <1>3, <1>5
    <2> QED  BY <1>5, <2>1 DEF AfterKey
  <1>6. CASE Peek(text, p + 1) \in Dead /\ ~Whole
    <2>1. Peek(text, p + 1) # "colon"  BY <1>3, <1>6
    <2> QED  BY <1>6, <2>1 DEF AfterKey
  <1> QED  BY <1>2, <1>4, <1>5, <1>6 DEF Sees

LEMMA DeadNotSkipped ==
    ASSUME NEW t, Len(t) \in Nat, NEW p \in Nat, p <= Len(t) + 1, Peek(t, p) \in Dead
    PROVE  SkipValue(t, p) = 0
  <1>1. Peek(t, p) \notin Scalars \cup {"lbrace", "lbracket"}
    BY Alive, Literals DEF Tokens
  <1>2. p \in 0..Len(t) + 1  OBVIOUS
  <1> QED  BY <1>1, <1>2, SkipParts DEF SkipValue

LEMMA ScalarSeen ==
    ASSUME Typed, NEW u, u = Rendered(call, sent), Kept(text, u), NEW p \in Nat,
           p <= Len(text) + 1, NEW word \in Scalars, Peek(u, p) = word
    PROVE  SkipValue(text, p) = p + 1 \/ (SkipValue(text, p) = 0 /\ ~Whole)
  <1>1. word \in Tokens /\ p \in Int /\ Len(text) \in Nat  BY DEF Tokens, Typed
  <1>2. Sees(p, word)  BY <1>1, Seen
  <1>3. CASE Peek(text, p) = word  BY <1>1, <1>3, OpeningSkipped
  <1>4. CASE Peek(text, p) \in Dead /\ ~Whole  BY <1>1, <1>4, DeadNotSkipped
  <1> QED  BY <1>2, <1>3, <1>4 DEF Sees

LEMMA RowsStart ==
    ASSUME NEW u, Len(u) \in Nat, NEW r, IsReply(r), QueryLayout(u, r)
    PROVE  /\ Len(r.rows) = 0 => Peek(u, RowsFrom(r)) = "rbracket"
           /\ Len(r.rows) # 0 => Peek(u, RowsFrom(r)) = "lbrace" /\ RowAt(r, 1) = RowsFrom(r)
  <1>1. CASE Len(r.rows) = 0
    <2>1. Parts(RowParts(r)) /\ Len(RowParts(r)) = 0  BY <1>1, RowPart
    <2>2. Rows(r) = << >>  BY <2>1, SeparatedIsJoined DEF Rows
    <2>3. Len(Rows(r)) = 0  BY <2>2
    <2>4. RowsTo(r) = RowsFrom(r)  BY <2>3, QueryText
    <2> QED  BY <1>1, <2>4 DEF QueryLayout, ObjectLayout, RowsTo
  <1>2. CASE Len(r.rows) # 0
    <2>1. 1 \in 1..Len(r.rows)  BY <1>2 DEF IsReply
    <2>2. RowAt(r, 1) = RowsFrom(r) /\ RowLayout(u, RowAt(r, 1), r, 1)  BY <2>1, RowsStand
    <2> QED  BY <1>2, <2>2 DEF RowLayout, ObjectLayout
  <1> QED  BY <1>1, <1>2

LEMMA CellsStart ==
    ASSUME NEW u, Len(u) \in Nat, NEW r, IsReply(r), QueryLayout(u, r),
           NEW k \in 1..Len(r.rows)
    PROVE  /\ IsRow(r.rows[k]) /\ CellsFrom(r, k) \in Nat \ {0}
           /\ CellsTo(r, k) = CellsFrom(r, k) + Len(RenderCells(r.rows[k]))
           /\ Has(u, CellsFrom(r, k), RenderCells(r.rows[k]))
           /\ Len(r.rows[k]) = 0 =>
                 Peek(u, CellsFrom(r, k)) = "rbracket" /\ CellsTo(r, k) = CellsFrom(r, k)
           /\ Len(r.rows[k]) # 0 =>
                 /\ Peek(u, CellsFrom(r, k)) \in DOMAIN Numbers
                 /\ CellAt(CellsFrom(r, k), r.rows[k], 1) = CellsFrom(r, k)
  <1> DEFINE from == CellsFrom(r, k)
             cells == r.rows[k]
  <1>1. /\ RowAt(r, k) \in Nat \ {0} /\ RowLayout(u, RowAt(r, k), r, k)
        /\ IsRow(cells)
    BY RowsStand, RowPart DEF RowFacts
  <1>2. /\ from \in Nat \ {0} /\ CellsTo(r, k) = from + Len(RenderCells(cells))
        /\ Has(u, from, RenderCells(cells)) /\ Peek(u, CellsTo(r, k)) = "rbracket"
    <2> DEFINE p == RowAt(r, k)
               place == r.rowId
               c == RenderCells(cells)
    <2>1. /\ ObjectLayout(u, p, "cells", c, place, "row_id", "x") /\ p \in Nat \ {0}
          /\ from = ArrayFrom(p, place) /\ CellsTo(r, k) = ArrayTo(p, c, place)
      BY <1>1 DEF RowLayout, CellsFrom, CellsTo
    <2> HIDE DEF p, place, c
    <2>2. /\ Has(u, ArrayFrom(p, place), c) /\ Peek(u, ArrayTo(p, c, place)) = "rbracket"
      BY <2>1 DEF ObjectLayout
    <2>3. ArrayFrom(p, place) \in Nat \ {0}  BY <2>1 DEF ArrayFrom
    <2>4. ArrayTo(p, c, place) = ArrayFrom(p, place) + Len(c)  BY DEF ArrayTo
    <2>5. from \in Nat \ {0} /\ CellsTo(r, k) = from + Len(c) /\ Has(u, from, c)
          /\ Peek(u, CellsTo(r, k)) = "rbracket"
      <3> HIDE DEF from
      <3> QED  BY <2>1, <2>2, <2>3, <2>4
    <2> QED  BY <2>5 DEF c
  <1>3. CASE Len(cells) = 0
    <2>1. /\ Parts(CellParts(cells)) /\ Len(CellParts(cells)) = 0
          /\ RenderCells(cells) = Separated(CellParts(cells))
      BY <1>1, <1>3, CellPart
    <2>2. RenderCells(cells) = << >>  BY <2>1, SeparatedIsJoined
    <2>3. Len(RenderCells(cells)) = 0  BY <2>2
    <2>4. CellsTo(r, k) = from  BY <1>2, <2>3
    <2> QED  BY <1>1, <1>2, <1>3, <2>4
  <1>4. CASE Len(cells) # 0
    <2>1. 1 \in 1..Len(cells)  BY <1>1, <1>4 DEF IsRow
    <2> HIDE DEF from, cells
    <2>2. CellAt(from, cells, 1) = from /\ Peek(u, CellAt(from, cells, 1)) = cells[1].column
      BY <1>1, <1>2, <2>1, CellLayout
    <2>3. cells[1].column \in DOMAIN Numbers  BY <1>1, <2>1 DEF IsRow, IsCell
    <2> QED  BY <1>1, <1>2, <1>4, <2>2, <2>3 DEF from, cells
  <1> QED  BY <1>3, <1>4

LEMMA MeantRowIsRow ==
    ASSUME NEW r, IsReply(r), NEW k \in 1..Len(r.rows)
    PROVE  /\ MeantRow(r, k) \in Seq(CellsRead) /\ Len(MeantRow(r, k)) = Len(r.rows[k])
           /\ Len(r.rows[k]) \in Nat
           /\ Len(r.rows[k]) = 0 => MeantRow(r, k) = << >>
  <1>1. IsRow(r.rows[k])  BY RowPart DEF RowFacts
  <1>2. Len(r.rows[k]) \in Nat  BY <1>1 DEF IsRow
  <1>3. ASSUME NEW j \in 1..Len(r.rows[k]) PROVE MeantRow(r, k)[j] \in CellsRead
    <2>1. IsCell(r.rows[k][j])  BY <1>1 DEF IsRow
    <2>2. r.rows[k][j].value \in Seq(Arrivable)
      <3>1. r.rows[k][j].value \in Seq(Tokens)  BY <2>1 DEF IsCell, IsJson
      <3>2. Seq(Tokens) \subseteq Seq(Arrivable)  BY DEF Arrivable
      <3> QED  BY <3>1, <3>2
    <2>3. Numbers[r.rows[k][j].column] \in {Numbers[token] : token \in DOMAIN Numbers}
      BY <2>1 DEF IsCell
    <2>4. MeantRow(r, k)[j] = [column |-> Numbers[r.rows[k][j].column], value |-> r.rows[k][j].value]
      BY DEF MeantRow
    <2> QED  BY <2>2, <2>3, <2>4 DEF CellsRead
  <1>4. DOMAIN MeantRow(r, k) = 1..Len(r.rows[k])
        /\ MeantRow(r, k) = [j \in 1..Len(r.rows[k]) |-> MeantRow(r, k)[j]]
    BY DEF MeantRow
  <1> DEFINE m == MeantRow(r, k)
             n == Len(r.rows[k])
  <1>5. m \in [1..n -> CellsRead] /\ n \in Nat  BY <1>2, <1>3, <1>4
  <1> HIDE DEF m, n
  <1>6. m \in Seq(CellsRead) /\ Len(m) = n  BY <1>5
  <1>7. n = 0 => m = << >>  BY <1>6, EmptySeq
  <1> QED  BY <1>5, <1>6, <1>7 DEF m, n


LEMMA NoRowsMeant ==
    ASSUME Typed, call = "query", Len(sent.rows) = 0
    PROVE  Meant = << >>
  <1>1. Meant = [i \in 1..Len(sent.rows) |->
                   [j \in 1..Len(sent.rows[i]) |->
                      [column |-> Numbers[sent.rows[i][j].column],
                       value |-> sent.rows[i][j].value]]]
    BY DEF Meant
  <1>2. 1..Len(sent.rows) = {}  OBVIOUS
  <1> QED  BY <1>1, <1>2

LEMMA QueryReply ==
    ASSUME Typed, call = "query", NEW u, u = Rendered(call, sent)
    PROVE  /\ u = RenderQuery(sent) /\ u \in Seq(Tokens) /\ Len(u) \in Nat /\ IsReply(sent)
           /\ QueryLayout(u, sent) /\ (Whole <=> text = u)
  BY QueryText DEF Typed, Rendered, Whole

LEMMA FollowCall ==
    ASSUME NEW c \in {"query", "table_names"}, NEW r \in Replies, Call(c, r)
    PROVE  Follows'
  <1>1. at' = "start" /\ outcome' = "none"  BY DEF Call
  <1>2. Reached(call, sent, text, at, pos, row, result)'  BY <1>1 DEF Reached, InRow
  <1> QED  BY <1>1, <1>2 DEF Follows

LEMMA FollowDiscard ==
    ASSUME Discard
    PROVE  Follows'
  <1>1. /\ at' = "done" /\ outcome' = "none" /\ text' = << >> /\ call' = "query" /\ sent' = NoReply
    BY DEF Discard
  <1>2. Reached(call, sent, text, at, pos, row, result)'  BY <1>1 DEF Reached, InRow
  <1>3. ~(Whole')
    <2>1. RenderQuery(NoReply) # << >>
      <3>1. Peek(RenderQuery(NoReply), 1) = "lbrace"
        BY NoReplyIsReply, QueryText DEF QueryLayout, ObjectLayout
      <3>2. Peek(<< >>, 1) = "nothing"  BY DEF Peek
      <3> QED  BY <3>1, <3>2
    <2> QED  BY <1>1, <2>1 DEF Whole, Rendered
  <1> QED  BY <1>1, <1>2, <1>3 DEF Follows

LEMMA FollowStartQuery ==
    ASSUME Typed, Walking, Kept(text, Rendered(call, sent)), Follows, StartQuery
    PROVE  Follows'
  <1> DEFINE u == Rendered(call, sent)
  <1>1. /\ at = "start" /\ call = "query" /\ result = << >> /\ pos = 1 /\ outcome = "none"
        /\ UNCHANGED <<call, sent, text, row, result>>
    BY DEF StartQuery, Walking
  <1>2. QueryLayout(u, sent) /\ Len(u) \in Nat /\ IsReply(sent) /\ (Whole <=> text = u)
    BY <1>1, QueryReply
  <1>3. Peek(u, 1) = "lbrace"  BY <1>2 DEF QueryLayout, ObjectLayout
  <1> HIDE DEF u
  <1>4. Sees(1, "lbrace") /\ "lbrace" \notin Dead  BY <1>3, Seen, Literals DEF u
  <1>5. Whole' = Whole /\ Meant' = Meant  BY <1>1 DEF Whole, Meant
  <1>6. CASE Token = "lbrace"
    <2>1. at' = "members" /\ pos' = 2 /\ outcome' = outcome  BY <1>6 DEF StartQuery, Go
    <2>2. Reached(call, sent, text, at, pos, row, result)'
      BY <1>1, <2>1 DEF Reached, InRow
    <2>3. Whole => truncated' = sent.truncated
      <3>1. Flag(u, 2, "truncated") = sent.truncated  BY <1>2, FlagOfReply
      <3>2. truncated' = Flag(text, 2, "truncated") \/ Len(text) = 0
        <4>1. truncated' = (Token = "lbrace" /\ Flag(text, 2, "truncated"))  BY DEF StartQuery
        <4>2. Len(text) # 0 => Flag(text, 2, "truncated") \in BOOLEAN  BY FlagIsBoolean DEF Typed
        <4> QED  BY <1>6, <4>1, <4>2
      <3>3. Len(text) # 0
        <4>1. Peek(text, 1) # "nothing"  BY <1>1, <1>6 DEF Token
        <4> QED  BY <4>1 DEF Peek
      <3> QED  BY <1>2, <3>1, <3>2, <3>3
    <2> QED  BY <1>1, <1>5, <2>1, <2>2, <2>3 DEF Follows
  <1>7. CASE Token # "lbrace"
    <2>1. at' = "done" /\ outcome' = "returned"  BY <1>7 DEF StartQuery, End
    <2>2. Reached(call, sent, text, at, pos, row, result)'
      BY <1>1, <2>1 DEF Reached, InRow
    <2>3. ~Whole  BY <1>1, <1>4, <1>7 DEF Sees, Token
    <2> QED  BY <1>1, <1>5, <2>1, <2>2, <2>3 DEF Follows
  <1> QED  BY <1>6, <1>7

LEMMA FollowFindRows ==
    ASSUME Typed, Walking, Kept(text, Rendered(call, sent)), Follows, FindRows
    PROVE  Follows'
  <1> DEFINE u == Rendered(call, sent)
             r == sent
             from == RowsFrom(r)
             value == AfterKey(text, pos)
             after == SkipValue(text, value)
  <1>1. /\ at = "members" /\ at # "done" /\ at # "start" /\ result = << >>
        /\ UNCHANGED <<call, sent, text, truncated, row, result>>
        /\ call = "query" /\ (pos = 2 \/ (r.first /\ pos = 6))
    BY DEF FindRows, Reading, Walking, Follows, Reached
  <1>2. /\ QueryLayout(u, r) /\ Len(u) \in Nat /\ IsReply(r) /\ (Whole <=> text = u)
        /\ u = RenderQuery(r) /\ Len(text) \in Nat
    BY <1>1, QueryReply DEF Typed
  <1>3. /\ Peek(u, from - 3) = "rows" /\ Peek(u, from - 2) = "colon" /\ Peek(u, from - 1) = "lbracket"
        /\ r.first => /\ from = 9 /\ Peek(u, 2) = "truncated" /\ Peek(u, 3) = "colon"
                      /\ Peek(u, 4) = QueryFlag(r) /\ Peek(u, 5) = "comma"
        /\ ~r.first => from = 5
    BY <1>2 DEF QueryLayout, ObjectLayout, QueryPlace, RowsFrom, ArrayFrom
  <1>4. QueryFlag(r) \in Scalars  BY TokenAssumption DEF QueryFlag, Scalars
  <1>5. Peek(text, 0) = "nothing"  BY DEF Peek
  <1>6. GoesOn \/ GivesUp \/ Returns
    <2>1. CASE r.first /\ pos = 2
      <3>1. \/ value = 4 /\ Token = "truncated"
            \/ value = 0 /\ ~Whole
        <4>1. Peek(u, 2) = "truncated" /\ Peek(u, 2 + 1) = "colon"  BY <1>3, <2>1
        <4> HIDE DEF u
        <4> QED  BY <2>1, <4>1, KeySeen, Literals DEF u, Token
      <3>2. CASE value = 0 /\ ~Whole
        <4>1. End("returned")  BY <3>2 DEF FindRows
        <4> QED  BY <1>1, <3>2, <4>1 DEF End, Returns
      <3>3. CASE value = 4 /\ Token = "truncated"
        <4>1. IF Peek(text, after) = "comma" THEN Go("members", after + 1) ELSE End("returned")
          BY <3>3 DEF FindRows
        <4>2. 4 <= Len(text) + 1
          <5>1. pos \in Nat /\ pos <= Len(text) + 1 /\ value # 0  BY <3>3 DEF Typed
          <5> QED  BY <2>1, <3>3, <5>1, Onwards
        <4>3. after = 4 + 1 \/ (after = 0 /\ ~Whole)
          <5>1. Peek(u, 4) = QueryFlag(r)  BY <1>3, <2>1
          <5> HIDE DEF u
          <5> QED  BY <1>4, <3>3, <4>2, <5>1, ScalarSeen DEF u
        <4>4. Sees(5, "comma")
          <5>1. Peek(u, 5) = "comma"  BY <1>3, <2>1
          <5> HIDE DEF u
          <5> QED  BY <5>1, Seen, Literals DEF u
        <4>5. CASE Peek(text, after) = "comma"
          <5>1. after = 5  BY <1>5, <4>3, <4>5
          <5>2. at' = "members" /\ pos' = 6 /\ outcome' = outcome  BY <4>1, <4>5, <5>1 DEF Go
          <5>3. Reached(call, sent, text, at', pos', row', result')
            BY <1>1, <2>1, <5>2 DEF Reached, InRow
          <5> QED  BY <5>2, <5>3 DEF GoesOn, Loops
        <4>6. CASE Peek(text, after) # "comma"
          <5>1. ~Whole  BY <4>3, <4>4, <4>6 DEF Sees
          <5>2. End("returned")  BY <4>1, <4>6
          <5> QED  BY <1>1, <5>1, <5>2 DEF End, Returns
        <4> QED  BY <4>5, <4>6
      <3> QED  BY <3>1, <3>2, <3>3
    <2>2. CASE pos = from - 3
      <3>0. from \in Nat \ {0} /\ from - 3 \in Nat /\ (from - 3) + 1 = from - 2
            /\ (from - 3) + 2 = from - 1 /\ (from - 1) + 1 = from /\ from - 1 \in Int
            /\ from - 1 \in Nat
        BY <1>3, <1>2 DEF IsReply
      <3>1. \/ value = from - 1 /\ Token = "rows" /\ from - 1 <= Len(text) + 1 /\ from - 1 # 0
            \/ value = 0 /\ ~Whole
        <4>1. Peek(u, from - 3) = "rows" /\ Peek(u, (from - 3) + 1) = "colon"  BY <1>3, <3>0
        <4> HIDE DEF u, from
        <4> QED  BY <2>2, <3>0, <4>1, KeySeen, Literals DEF u, Token
      <3>2. CASE value = 0 /\ ~Whole
        <4>1. End("returned")  BY <3>2 DEF FindRows
        <4> QED  BY <1>1, <3>2, <4>1 DEF End, Returns
      <3>3. CASE value = from - 1 /\ Token = "rows" /\ from - 1 <= Len(text) + 1 /\ from - 1 # 0
        <4>1. Sees(from - 1, "lbracket")
          <5> HIDE DEF u, from
          <5> QED  BY <1>3, <3>0, Seen, Literals DEF u
        <4>2. CASE Peek(text, from - 1) = "lbracket"
          <5>1. IF Peek(text, from) = "rbracket" THEN End("returned") ELSE Go("rows", from)
            BY <3>0, <3>3, <4>2 DEF FindRows
          <5>2. /\ Len(r.rows) = 0 => Peek(u, from) = "rbracket"
                /\ Len(r.rows) # 0 => Peek(u, from) = "lbrace" /\ RowAt(r, 1) = from
            BY <1>2, RowsStart
          <5>3. CASE Peek(text, from) = "rbracket"
            <6>1. Len(r.rows) # 0 => ~Whole  BY <1>2, <5>2, <5>3
            <6>2. Len(r.rows) = 0 => Meant = << >>  BY <1>1, NoRowsMeant
            <6>3. at' = "done" /\ outcome' = "returned" /\ result' = << >>
              BY <1>1, <5>1, <5>3 DEF End
            <6> QED  BY <6>1, <6>2, <6>3 DEF Returns
          <5>4. CASE Peek(text, from) # "rbracket"
            <6>1. at' = "rows" /\ pos' = from /\ outcome' = outcome /\ result' = << >>
              BY <1>1, <5>1, <5>4 DEF Go
            <6>2. Len(result') = 0  BY <6>1, Nothing DEF NothingRead
            <6>3. Len(r.rows) \in Nat  BY <1>2 DEF IsReply
            <6>4. ReadRows(r, result')  BY <6>2, <6>3 DEF ReadRows
            <6>5. Len(r.rows) = 0 => Gone(text, RenderQuery(r), from)
              <7> SUFFICES ASSUME Len(r.rows) = 0 PROVE Gone(text, u, from)  BY <1>2
              <7>1. Sees(from, "rbracket")
                <8>1. Peek(u, from) = "rbracket" /\ from \in Int  BY <3>0, <5>2
                <8> HIDE DEF u, from
                <8> QED  BY <8>1, Seen, Literals DEF u
              <7> QED  BY <1>2, <5>4, <7>1 DEF Sees, Gone
            <6>6. InRows(r, text, pos', result')
              BY <5>2, <6>1, <6>2, <6>4, <6>5 DEF InRows
            <6>7. Reached(call, sent, text, at', pos', row', result')
              BY <1>1, <6>1, <6>6 DEF Reached, InRow
            <6> QED  BY <6>1, <6>7 DEF GoesOn, Loops, InArray
          <5> QED  BY <5>3, <5>4
        <4>3. CASE Peek(text, from - 1) \in Dead /\ ~Whole
          <5>1. after = 0  BY <1>2, <3>0, <3>3, <4>3, DeadNotSkipped
          <5>2. Peek(text, value) # "lbracket"  BY <3>3, <4>3, Alive, Literals
          <5>3. End("returned")  BY <1>5, <3>3, <5>1, <5>2 DEF FindRows
          <5> QED  BY <1>1, <4>3, <5>3 DEF End, Returns
        <4> QED  BY <4>1, <4>2, <4>3 DEF Sees
      <3> QED  BY <3>1, <3>2, <3>3
    <2>3. r.first \in BOOLEAN  BY <1>2 DEF IsReply
    <2> QED  BY <1>1, <1>3, <2>1, <2>2, <2>3
  <1> QED  BY <1>1, <1>6, Followed


LEMMA FollowNextRow ==
    ASSUME Typed, Walking, Kept(text, Rendered(call, sent)), Follows, NextRow
    PROVE  Follows'
  <1> DEFINE u == Rendered(call, sent)
             r == sent
             k == Len(result) + 1
             p == RowAt(r, k)
  <1>1. /\ at = "rows" /\ at # "done" /\ at # "start"
        /\ UNCHANGED <<call, sent, text, truncated, result>> /\ row' = << >>
        /\ call = "query" /\ InRows(r, text, pos, result)
    BY DEF NextRow, Reading, Follows, Reached
  <1>2. /\ QueryLayout(u, r) /\ Len(u) \in Nat /\ IsReply(r) /\ (Whole <=> text = u)
        /\ u = RenderQuery(r) /\ Len(text) \in Nat /\ Len(result) \in Nat /\ Len(r.rows) \in Nat
    BY <1>1, QueryReply, LenProperties DEF Typed, IsReply
  <1>3. GoesOn \/ GivesUp \/ Returns
    <2>1. CASE Len(result) = Len(r.rows)
      <3>1. Peek(text, pos) \in Dead /\ ~Whole  BY <1>1, <1>2, <2>1 DEF InRows, Gone
      <3>2. Token # "lbrace"  BY <3>1, Alive, Literals DEF Token
      <3>3. End("thrown")  BY <3>2 DEF NextRow
      <3> QED  BY <3>1, <3>3 DEF End, GivesUp
    <2>2. CASE Len(result) # Len(r.rows)
      <3>1. k \in 1..Len(r.rows)  BY <1>1, <1>2, <2>2 DEF InRows, ReadRows
      <3>2. pos = p  BY <1>1, <2>2 DEF InRows
      <3>3. p \in Nat \ {0} /\ RowLayout(u, p, r, k)  BY <1>2, <3>1, RowsStand
      <3>4. Peek(u, p) = "lbrace" /\ Peek(u, p + 1) \in Strings
        <4> DEFINE place == r.rowId
                   c == RenderCells(r.rows[k])
        <4>1. ObjectLayout(u, p, "cells", c, place, "row_id", "x")  BY <3>3 DEF RowLayout
        <4> HIDE DEF u, p, place, c
        <4>2. /\ Peek(u, p) = "lbrace"
              /\ place = "first" => Peek(u, p + 1) = "row_id"
              /\ Peek(u, ArrayFrom(p, place) - 3) = "cells"
          BY <4>1 DEF ObjectLayout
        <4>3. place # "first" => ArrayFrom(p, place) - 3 = p + 1  BY <3>3 DEF ArrayFrom
        <4> QED  BY <4>2, <4>3, Literals
      <3>5. Sees(p, "lbrace") /\ Sees(p + 1, Peek(u, p + 1))
        <4>1. p \in Int /\ p + 1 \in Int /\ Peek(u, p) \in Tokens /\ Peek(u, p + 1) \in Tokens
          BY <3>3, <3>4, Literals
        <4> HIDE DEF u, p
        <4> QED  BY <3>4, <4>1, Seen DEF u
      <3>6. CASE Token = "lbrace"
        <4>1. Peek(text, p + 1) # "rbrace"
          <5>1. Peek(u, p + 1) \notin Structure  BY <3>4, NotStructure DEF Scalars
          <5>2. "rbrace" \notin Dead  BY Alive, Literals
          <5> QED  BY <3>5, <5>1, <5>2 DEF Sees, Structure
        <4>2. at' = "row" /\ pos' = p + 1 /\ outcome' = outcome
          BY <3>2, <3>6, <4>1 DEF NextRow, Go
        <4>3. AtMember(r, k, pos', row')  BY <1>1, <4>2 DEF AtMember
        <4>4. ReadRows(r, result)  BY <1>1 DEF InRows
        <4>5. Reached(call, sent, text, at', pos', row', result')
          BY <1>1, <2>2, <4>2, <4>3, <4>4 DEF Reached, InRow
        <4> QED  BY <4>2, <4>5 DEF GoesOn, Loops, InArray
      <3>7. CASE Token # "lbrace"
        <4>1. ~Whole  BY <3>2, <3>5, <3>7 DEF Sees, Token
        <4>2. End("thrown")  BY <3>7 DEF NextRow
        <4> QED  BY <4>1, <4>2 DEF End, GivesUp
      <3> QED  BY <3>6, <3>7
    <2> QED  BY <2>1, <2>2
  <1> QED  BY <1>1, <1>3, Followed

(* A member that is not the array of cells.                                  *)
LEMMA FollowOther ==
    ASSUME Typed, NEW u, u = Rendered(call, sent), Kept(text, u), RowMember,
           Peek(u, pos) = "row_id", Peek(u, pos + 1) = "colon", Peek(u, pos + 2) = "x"
    PROVE  \/ at' = "memberEnd" /\ pos' = pos + 3 /\ outcome' = outcome
           \/ GivesUp
  <1>1. pos \in Nat /\ pos + 2 \in Nat /\ (pos + 2) + 1 = pos + 3  BY DEF Typed
  <1>2. \/ /\ AfterKey(text, pos) = pos + 2 /\ pos + 2 # 0 /\ pos + 2 <= Len(text) + 1
           /\ Peek(text, pos) = "row_id"
        \/ AfterKey(text, pos) = 0 /\ ~Whole
    BY <1>1, KeySeen, Literals
  <1>3. CASE AfterKey(text, pos) = 0 /\ ~Whole
    BY <1>3 DEF RowMember, End, GivesUp
  <1>4. CASE /\ AfterKey(text, pos) = pos + 2 /\ pos + 2 # 0 /\ pos + 2 <= Len(text) + 1
             /\ Peek(text, pos) = "row_id"
    <2>1. IF SkipValue(text, pos + 2) = 0 THEN End("thrown")
          ELSE Go("memberEnd", SkipValue(text, pos + 2))
      BY <1>4 DEF RowMember, Token
    <2>2. "x" \in Scalars  BY Literals DEF Scalars
    <2>3. SkipValue(text, pos + 2) = pos + 3 \/ (SkipValue(text, pos + 2) = 0 /\ ~Whole)
      BY <1>1, <1>4, <2>2, ScalarSeen
    <2> QED  BY <1>1, <2>1, <2>3 DEF Go, End, GivesUp
  <1> QED  BY <1>2, <1>3, <1>4

LEMMA FollowRowMember ==
    ASSUME Typed, Walking, Kept(text, Rendered(call, sent)), Follows, RowMember
    PROVE  Follows'
  <1> DEFINE u == Rendered(call, sent)
             r == sent
             k == Len(result) + 1
             p == RowAt(r, k)
             from == CellsFrom(r, k)
             to == CellsTo(r, k)
             value == AfterKey(text, pos)
             after == SkipValue(text, value)
  <1>1. /\ at = "row" /\ at # "done" /\ at # "start"
        /\ UNCHANGED <<call, sent, text, truncated, row, result>>
        /\ call = "query" /\ ReadRows(r, result) /\ Len(result) # Len(r.rows)
        /\ AtMember(r, k, pos, row)
    BY DEF RowMember, Reading, Follows, Reached, InRow
  <1>2. /\ QueryLayout(u, r) /\ Len(u) \in Nat /\ IsReply(r) /\ (Whole <=> text = u)
        /\ u = RenderQuery(r) /\ Len(text) \in Nat /\ Len(result) \in Nat /\ Len(r.rows) \in Nat
        /\ r.rowId \in {"first", "last", "none"}
    BY <1>1, QueryReply, LenProperties DEF Typed, IsReply
  <1>3. k \in 1..Len(r.rows)  BY <1>1, <1>2 DEF ReadRows
  <1>4. /\ p \in Nat \ {0}
        /\ r.rowId = "first" => /\ Peek(u, p + 1) = "row_id" /\ Peek(u, p + 2) = "colon"
                                /\ Peek(u, p + 3) = "x"
        /\ Peek(u, from - 3) = "cells" /\ Peek(u, from - 2) = "colon" /\ Peek(u, from - 1) = "lbracket"
        /\ from = p + (IF r.rowId = "first" THEN 8 ELSE 4)
        /\ r.rowId = "last" => /\ Peek(u, to + 2) = "row_id" /\ Peek(u, to + 3) = "colon"
                               /\ Peek(u, to + 4) = "x"
    <2> DEFINE place == r.rowId
               c == RenderCells(r.rows[k])
    <2>1. p \in Nat \ {0} /\ ObjectLayout(u, p, "cells", c, place, "row_id", "x")
      BY <1>2, <1>3, RowsStand DEF RowLayout
    <2>2. from = ArrayFrom(p, place) /\ to = ArrayTo(p, c, place)  BY DEF CellsFrom, CellsTo
    <2> HIDE DEF u, p, place, c, from, to
    <2>3. /\ p \in Nat \ {0}
          /\ place = "first" => /\ Peek(u, p + 1) = "row_id" /\ Peek(u, p + 2) = "colon"
                                /\ Peek(u, p + 3) = "x"
          /\ Peek(u, from - 3) = "cells" /\ Peek(u, from - 2) = "colon" /\ Peek(u, from - 1) = "lbracket"
          /\ place = "last" => /\ Peek(u, to + 2) = "row_id" /\ Peek(u, to + 3) = "colon"
                               /\ Peek(u, to + 4) = "x"
      BY <2>1, <2>2 DEF ObjectLayout
    <2>4. from = p + (IF place = "first" THEN 8 ELSE 4)  BY <2>2 DEF ArrayFrom
    <2> QED  BY <2>3, <2>4 DEF place
  <1>5. /\ IsRow(r.rows[k]) /\ from \in Nat \ {0} /\ to \in Nat
        /\ Len(r.rows[k]) = 0 => Peek(u, from) = "rbracket" /\ to = from
        /\ Len(r.rows[k]) # 0 => CellAt(from, r.rows[k], 1) = from
    BY <1>2, <1>3, CellsStart, CellPart, LenProperties
  <1>6. Len(r.rows[k]) \in Nat /\ (Len(r.rows[k]) = 0 => MeantRow(r, k) = << >>)
    BY <1>2, <1>3, MeantRowIsRow
  <1>7. GoesOn \/ GivesUp \/ Returns
    (* row_id, before the cells or behind them.                              *)
    <2>1. ASSUME at' = "memberEnd", outcome' = outcome, AtMemberEnd(r, k, pos', row')
          PROVE  GoesOn
      <3>1. Reached(call, sent, text, at', pos', row', result')
        BY <1>1, <2>1 DEF Reached, InRow
      <3> QED  BY <2>1, <3>1 DEF GoesOn, Loops, InArray
    <2>2. CASE r.rowId = "first" /\ pos = p + 1 /\ row = << >>
      <3>1. pos + 1 = p + 2 /\ pos + 2 = p + 3 /\ pos + 3 = p + 4  BY <1>4, <2>2
      <3>2. Peek(u, pos) = "row_id" /\ Peek(u, pos + 1) = "colon" /\ Peek(u, pos + 2) = "x"
        BY <1>4, <2>2, <3>1
      <3>3. \/ at' = "memberEnd" /\ pos' = pos + 3 /\ outcome' = outcome
            \/ GivesUp
        <4> HIDE DEF u
        <4> QED  BY <3>2, FollowOther DEF u
      <3>4. pos' = pos + 3 => AtMemberEnd(r, k, pos', row')
        BY <1>1, <2>2, <3>1 DEF AtMemberEnd
      <3> QED  BY <2>1, <3>3, <3>4
    <2>3. CASE r.rowId = "last" /\ pos = to + 2 /\ row = MeantRow(r, k)
      <3>1. pos + 1 = to + 3 /\ pos + 2 = to + 4 /\ pos + 3 = to + 5  BY <1>5, <2>3
      <3>2. Peek(u, pos) = "row_id" /\ Peek(u, pos + 1) = "colon" /\ Peek(u, pos + 2) = "x"
        BY <1>4, <2>3, <3>1
      <3>3. \/ at' = "memberEnd" /\ pos' = pos + 3 /\ outcome' = outcome
            \/ GivesUp
        <4> HIDE DEF u
        <4> QED  BY <3>2, FollowOther DEF u
      <3>4. pos' = pos + 3 => AtMemberEnd(r, k, pos', row')
        BY <1>1, <2>3, <3>1 DEF AtMemberEnd
      <3> QED  BY <2>1, <3>3, <3>4
    <2>4. CASE pos = from - 3 /\ row = << >>
      <3>0. from - 3 \in Nat /\ (from - 3) + 1 = from - 2 /\ from \in Int
            /\ (from - 3) + 2 = from - 1 /\ (from - 1) + 1 = from /\ from - 1 \in Int
            /\ from - 1 \in Nat /\ (from - 1) + 2 = from + 1
        <4> DEFINE first == r.rowId = "first"
        <4>1. from = p + (IF first THEN 8 ELSE 4) /\ p \in Nat  BY <1>4
        <4> HIDE DEF from, p, first
        <4>2. from \in Nat /\ from >= 4  BY <4>1
        <4> QED  BY <4>2
      <3>1. \/ value = from - 1 /\ Token = "cells" /\ from - 1 <= Len(text) + 1 /\ from - 1 # 0
            \/ value = 0 /\ ~Whole
        <4>1. Peek(u, from - 3) = "cells" /\ Peek(u, (from - 3) + 1) = "colon"  BY <1>4, <3>0
        <4> HIDE DEF u, from
        <4> QED  BY <2>4, <3>0, <4>1, KeySeen, Literals DEF u, Token
      <3>2. CASE value = 0 /\ ~Whole
        <4>1. End("thrown")  BY <3>2 DEF RowMember
        <4> QED  BY <3>2, <4>1 DEF End, GivesUp
      <3>3. CASE value = from - 1 /\ Token = "cells" /\ from - 1 <= Len(text) + 1 /\ from - 1 # 0
        <4>1. Sees(from - 1, "lbracket")
          <5> HIDE DEF u, from
          <5> QED  BY <1>4, <3>0, Seen, Literals DEF u
        <4>2. CASE Peek(text, from - 1) = "lbracket"
          <5>1. IF Peek(text, from) = "rbracket" THEN Go("memberEnd", from + 1) ELSE Go("cells", from)
            BY <3>0, <3>3, <4>2 DEF RowMember
          <5>2. Sees(from, Peek(u, from))
            <6>1. Peek(u, from) \in Tokens
              BY <1>2, <1>3, CellsStart, Literals
            <6> HIDE DEF u, from
            <6> QED  BY <3>0, <6>1, Seen DEF u
          <5>3. CASE Peek(text, from) = "rbracket"
            <6>1. Peek(u, from) = "rbracket"  BY <5>2, <5>3, Alive, Literals DEF Sees
            <6>2. Len(r.rows[k]) = 0
              <7>1. "rbracket" \notin DOMAIN Numbers
                BY TokenAssumption DEF Structure, Scalars
              <7> QED  BY <1>2, <1>3, <6>1, <7>1, CellsStart
            <6>3. at' = "memberEnd" /\ outcome' = outcome /\ pos' = to + 1 /\ row' = MeantRow(r, k)
              BY <1>1, <1>5, <1>6, <2>4, <5>1, <5>3, <6>2 DEF Go
            <6>4. AtMemberEnd(r, k, pos', row')  BY <6>3 DEF AtMemberEnd
            <6> QED  BY <2>1, <6>3, <6>4
          <5>4. CASE Peek(text, from) # "rbracket"
            <6>1. at' = "cells" /\ pos' = from /\ outcome' = outcome /\ row' = << >>
              BY <1>1, <2>4, <5>1, <5>4 DEF Go
            <6>2. Len(row') = 0  BY <6>1, Nothing DEF NothingRead
            <6>3. ReadCells(r, k, row')  BY <1>6, <6>2 DEF ReadCells
            <6>4. Len(r.rows[k]) = 0 => Gone(text, RenderQuery(r), from)
              BY <1>2, <1>5, <5>2, <5>4 DEF Sees, Gone
            <6>5. AtCell(r, text, k, pos', row')
              BY <1>5, <6>1, <6>2, <6>3, <6>4 DEF AtCell
            <6>6. Reached(call, sent, text, at', pos', row', result')
              BY <1>1, <6>1, <6>5 DEF Reached, InRow
            <6> QED  BY <6>1, <6>6 DEF GoesOn, Loops, InArray
          <5> QED  BY <5>3, <5>4
        <4>3. CASE Peek(text, from - 1) \in Dead /\ ~Whole
          <5>1. after = 0  BY <1>2, <3>0, <3>3, <4>3, DeadNotSkipped
          <5>2. Peek(text, value) # "lbracket"  BY <3>3, <4>3, Alive, Literals
          <5>3. End("thrown")  BY <3>3, <5>1, <5>2 DEF RowMember
          <5> QED  BY <4>3, <5>3 DEF End, GivesUp
        <4> QED  BY <4>1, <4>2, <4>3 DEF Sees
      <3> QED  BY <3>1, <3>2, <3>3
    <2>5. \/ r.rowId = "first" /\ pos = p + 1 /\ row = << >>
          \/ pos = from - 3 /\ row = << >>
          \/ r.rowId = "last" /\ pos = to + 2 /\ row = MeantRow(r, k)
      BY <1>1, <1>4 DEF AtMember
    <2> QED  BY <2>2, <2>3, <2>4, <2>5
  <1> QED  BY <1>1, <1>7, Followed

(* A separator of the reply, seen in the text.                               *)
LEMMA SeparatorSeen ==
    ASSUME Typed, NEW u, u = Rendered(call, sent), Kept(text, u), NEW p \in Nat,
           NEW again, NEW close \in Structure, close # "comma", NEW next,
           Peek(u, p) \in {"comma", close}, Separator(p, again, close, next, "thrown")
    PROVE  \/ Peek(u, p) = "comma" /\ Go(again, p + 1)
           \/ Peek(u, p) = close /\ Go(next, p + 1)
           \/ GivesUp
  <1>1. Peek(u, p) \in Tokens /\ "comma" \notin Dead /\ close \notin Dead
    BY Alive, Literals DEF Tokens
  <1>2. Sees(p, Peek(u, p))  BY <1>1, Seen
  <1>3. CASE Peek(text, p) = Peek(u, p)
    <2>1. CASE Peek(u, p) = "comma"  BY <1>3, <2>1 DEF Separator
    <2>2. CASE Peek(u, p) = close  BY <1>3, <2>2 DEF Separator
    <2> QED  BY <2>1, <2>2
  <1>4. CASE Peek(text, p) \in Dead /\ ~Whole
    <2>1. End("thrown")  BY <1>1, <1>4 DEF Separator
    <2> QED  BY <1>4, <2>1 DEF End, GivesUp
  <1> QED  BY <1>2, <1>3, <1>4 DEF Sees

(* What one cell adds to the row, and where the walk stands behind it.       *)
Longer(r, k, line, longer) ==
    /\ ReadCells(r, k, longer) /\ Len(longer) = Len(line) + 1
    /\ Len(longer) = Len(r.rows[k]) => longer = MeantRow(r, k)

LEMMA CellRead ==
    ASSUME NEW r, IsReply(r), NEW k \in 1..Len(r.rows), NEW line \in Seq(CellsRead),
           ReadCells(r, k, line), Len(line) # Len(r.rows[k])
    PROVE  Longer(r, k, line, Append(line, MeantRow(r, k)[Len(line) + 1]))
  <1> DEFINE m == MeantRow(r, k)
             j == Len(line) + 1
             longer == Append(line, MeantRow(r, k)[Len(line) + 1])
  <1>1. m \in Seq(CellsRead) /\ Len(m) = Len(r.rows[k]) /\ Len(m) \in Nat
    BY MeantRowIsRow
  <1> HIDE DEF m
  <1>2. Len(line) \in Nat /\ Len(line) < Len(m) /\ j \in 1..Len(m)
    BY <1>1, LenProperties DEF ReadCells
  <1>3. m[j] \in CellsRead  BY <1>1, <1>2, ElementOfSeq
  <1>4. /\ longer \in Seq(CellsRead) /\ Len(longer) = j
        /\ \A i \in 1..Len(line) : longer[i] = line[i]
        /\ longer[j] = m[j]
    BY <1>3, AppendProperties DEF m
  <1>5. ASSUME NEW i \in 1..Len(longer) PROVE longer[i] = m[i]
    <2>1. i \in 1..Len(line) \/ i = j  BY <1>2, <1>4
    <2>2. i \in 1..Len(line) => line[i] = m[i]  BY DEF ReadCells, m
    <2> QED  BY <1>4, <2>1, <2>2
  <1>6. ReadCells(r, k, longer)
    <2>1. Len(longer) <= Len(r.rows[k])  BY <1>1, <1>2, <1>4
    <2> QED  BY <1>5, <2>1 DEF ReadCells, m
  <1>7. Len(longer) = Len(m) => longer = m  BY <1>1, <1>4, <1>5, SeqEqual
  <1>8. Longer(r, k, line, longer)
    <2> HIDE DEF longer
    <2> QED  BY <1>1, <1>4, <1>6, <1>7 DEF m, Longer
  <1> QED  BY <1>8

LEMMA FollowNextCell ==
    ASSUME Typed, Walking, Kept(text, Rendered(call, sent)), Follows, NextCell
    PROVE  Follows'
  <1> DEFINE u == Rendered(call, sent)
             r == sent
             k == Len(result) + 1
             from == CellsFrom(r, k)
             cells == r.rows[k]
             j == Len(row) + 1
             p == CellAt(from, cells, j)
             e == CellEnd(from, cells, j)
             v == cells[j].value
             value == IF Peek(text, pos + 1) = "comma" THEN pos + 2 ELSE pos + 1
  <1>1. /\ at = "cells" /\ at # "done" /\ at # "start"
        /\ UNCHANGED <<call, sent, text, truncated, result>>
        /\ call = "query" /\ ReadRows(r, result) /\ Len(result) # Len(r.rows)
        /\ AtCell(r, text, k, pos, row)
    BY DEF NextCell, Reading, Follows, Reached, InRow
  <1>2. /\ QueryLayout(u, r) /\ Len(u) \in Nat /\ IsReply(r) /\ (Whole <=> text = u)
        /\ u = RenderQuery(r) /\ Len(text) \in Nat /\ Len(result) \in Nat /\ Len(r.rows) \in Nat
        /\ Len(row) \in Nat /\ row \in Seq(CellsRead)
    BY <1>1, QueryReply, LenProperties DEF Typed, IsReply
  <1>3. k \in 1..Len(r.rows)  BY <1>1, <1>2 DEF ReadRows
  <1>4. /\ IsRow(cells) /\ from \in Nat \ {0} /\ CellsTo(r, k) = from + Len(RenderCells(cells))
        /\ Has(u, from, RenderCells(cells))
    BY <1>2, <1>3, CellsStart
  <1>5. DOMAIN Numbers \cap Dead = {} /\ "comma" \notin Dead  BY Alive, Literals
  <1>6. ASSUME Token \notin DOMAIN Numbers \/ SkipValue(text, value) = 0, ~Whole
        PROVE  GivesUp
    BY <1>6 DEF NextCell, End, GivesUp
  <1>7. GoesOn \/ GivesUp \/ Returns
    <2>1. CASE Len(row) = Len(cells)
      <3>1. Peek(text, pos) \in Dead /\ ~Whole  BY <1>1, <1>2, <2>1 DEF AtCell, Gone
      <3> QED  BY <1>5, <1>6, <3>1 DEF Token
    <2>2. CASE Len(row) # Len(cells)
      <3>1. j \in 1..Len(cells)  BY <1>1, <1>2, <1>4, <2>2 DEF AtCell, ReadCells, IsRow
      <3>2. pos = p  BY <1>1, <2>2 DEF AtCell
      <3>3. /\ p \in Nat \ {0} /\ e = p + 2 + Len(v) /\ e \in Nat /\ SkipValue(u, p + 2) = e
            /\ Peek(u, p) = cells[j].column /\ Peek(u, p + 1) = "comma" /\ Has(u, p + 2, v)
            /\ j < Len(cells) => Peek(u, e) = "comma" /\ CellAt(from, cells, j + 1) = e + 1
            /\ j = Len(cells) => e = CellsTo(r, k)
            /\ v \in Seq(Tokens) /\ Len(v) \in Nat /\ cells[j].column \in DOMAIN Numbers
        <4>1. e = p + 2 + Len(v)  BY DEF CellEnd
        <4>2. v \in Seq(Tokens) /\ Len(v) \in Nat /\ cells[j].column \in DOMAIN Numbers
          BY <1>4, <3>1, CellPart DEF IsRow, IsCell
        <4>3. /\ p \in Nat \ {0} /\ e \in Nat /\ SkipValue(u, p + 2) = e
              /\ Peek(u, p) = cells[j].column /\ Peek(u, p + 1) = "comma" /\ Has(u, p + 2, cells[j].value)
              /\ j < Len(cells) => Peek(u, e) = "comma" /\ CellAt(from, cells, j + 1) = e + 1
              /\ j = Len(cells) => e = from + Len(RenderCells(cells))
          <5>1. /\ Len(u) \in Nat /\ from \in Nat \ {0} /\ IsRow(cells) /\ j \in 1..Len(cells)
                /\ Has(u, from, RenderCells(cells))
            BY <1>2, <1>4, <3>1
          <5> HIDE DEF u, from, cells, j
          <5> QED  BY <5>1, CellLayout
        <4> QED  BY <1>4, <4>1, <4>2, <4>3
      <3>4. p + 1 \in Nat /\ p + 2 \in Nat \ {0} /\ p + 2 = (p + 1) + 1  BY <3>3
      <3>5. Sees(p, cells[j].column) /\ Sees(p + 1, "comma")
        <4>1. cells[j].column \in Tokens /\ "comma" \in Tokens /\ p \in Int /\ p + 1 \in Int
          <5>1. p \in Nat /\ cells[j].column \in DOMAIN Numbers  BY <3>3
          <5>2. p \in Int /\ p + 1 \in Int  BY ONLY <5>1
          <5>3. "comma" \in Tokens /\ DOMAIN Numbers \subseteq Tokens  BY Literals
          <5> QED  BY ONLY <5>1, <5>2, <5>3
        <4> HIDE DEF p, cells, j, u
        <4> QED  BY <3>3, <4>1, Seen DEF u
      <3>6. CASE Token # cells[j].column
        <4>1. Token \in Dead /\ ~Whole  BY <3>2, <3>5, <3>6 DEF Sees, Token
        <4> QED  BY <1>5, <1>6, <4>1
      <3>7. CASE Token = cells[j].column /\ Peek(text, p + 1) # "comma"
        <4>1. Peek(text, p + 1) \in Dead /\ ~Whole  BY <3>5, <3>7 DEF Sees
        <4>2. p + 1 <= Len(text) + 1
          <5>1. Peek(text, p) # "nothing" /\ p \in Nat
            BY <1>5, <3>2, <3>3, <3>7 DEF Token, Dead
          <5> HIDE DEF p
          <5>2. p \in 1..Len(text)  BY <1>2, <5>1, PeekFacts
          <5> QED  BY <1>2, <5>2
        <4>3. SkipValue(text, p + 1) = 0  BY <1>2, <3>4, <4>1, <4>2, DeadNotSkipped
        <4>4. value = p + 1  BY <3>2, <3>7
        <4> QED  BY <1>6, <4>1, <4>3, <4>4
      <3>8. CASE Token = cells[j].column /\ Peek(text, p + 1) = "comma"
        <4>1. value = p + 2  BY <3>2, <3>8
        <4>2. p + 2 <= Len(text) + 1
          <5>1. p + 1 \in 1..Len(text)
            <6>1. Peek(text, p + 1) # "nothing"  BY <3>8, Literals, TokenAssumption
            <6> HIDE DEF p
            <6> QED  BY <1>2, <3>4, <6>1, PeekFacts
          <5> HIDE DEF p
          <5> QED  BY <1>2, <3>4, <5>1
        <4>3. CASE SkipValue(text, p + 2) = 0
          <5>1. e # 0  BY <3>3
          <5>2. ~Whole  BY <1>2, <3>3, <4>3, <5>1
          <5> QED  BY <1>6, <4>1, <4>3, <5>2
        <4>4. CASE SkipValue(text, p + 2) # 0
          <5>1. SkipValue(text, p + 2) = e /\ SubSeq(text, p + 2, e - 1) = v
            <6> HIDE DEF p, e, u, v
            <6> QED  BY <3>3, <3>4, <4>2, <4>4, KeptValue DEF u
          <5>2. /\ row' = Append(row, [column |-> Numbers[Token], value |-> SubSeq(text, value, e - 1)])
                /\ Separator(e, "cells", "rbracket", "memberEnd", "thrown")
            <6>1. Token \in DOMAIN Numbers  BY <3>3, <3>8
            <6>2. SkipValue(text, value) = e /\ e # 0  BY <4>1, <4>4, <5>1
            <6> HIDE DEF e
            <6> QED  BY <6>1, <6>2 DEF NextCell
          <5>3. MeantRow(r, k)[j] = [column |-> Numbers[cells[j].column], value |-> v]
            BY <3>1 DEF MeantRow
          <5>4. row' = Append(row, MeantRow(r, k)[j])  BY <3>8, <4>1, <5>1, <5>2, <5>3
          <5>5. /\ ReadCells(r, k, row') /\ Len(row') = j
                /\ j = Len(cells) => row' = MeantRow(r, k)
            <6>1. /\ IsReply(r) /\ row \in Seq(CellsRead) /\ ReadCells(r, k, row)
                  /\ Len(row) # Len(r.rows[k])
              BY <1>1, <1>2, <2>2 DEF AtCell
            <6>2. row' = Append(row, MeantRow(r, k)[Len(row) + 1]) /\ k \in 1..Len(r.rows)
              BY <1>3, <5>4
            <6> HIDE DEF r, k
            <6>3. Longer(r, k, row, Append(row, MeantRow(r, k)[Len(row) + 1]))
              BY <6>1, <6>2, CellRead
            <6>4. Longer(r, k, row, row')  BY <6>2, <6>3
            <6> QED  BY <6>4 DEF Longer
          <5>6. Peek(u, e) = IF j = Len(cells) THEN "rbracket" ELSE "comma"
            <6>1. j # Len(cells) => j < Len(cells)  BY <1>4, <3>1 DEF IsRow
            <6>2. Peek(u, CellsTo(r, k)) = "rbracket"
              BY <1>2, <1>3, RowsStand DEF RowLayout, ObjectLayout, CellsTo
            <6> QED  BY <3>3, <6>1, <6>2
          <5>7. \/ j # Len(cells) /\ Go("cells", e + 1)
                \/ j = Len(cells) /\ Go("memberEnd", e + 1)
                \/ GivesUp
            <6> DEFINE last == j = Len(cells)
            <6>1. Peek(u, e) = IF last THEN "rbracket" ELSE "comma"  BY <5>6
            <6> HIDE DEF u, e, last
            <6>2. "rbracket" \in Structure /\ "rbracket" # "comma"  BY DEF Structure
            <6>3. \/ Peek(u, e) = "comma" /\ Go("cells", e + 1)
                  \/ Peek(u, e) = "rbracket" /\ Go("memberEnd", e + 1)
                  \/ GivesUp
              <7>1. e \in Nat /\ Peek(u, e) \in {"comma", "rbracket"}  BY <3>3, <6>1
              <7>2. Separator(e, "cells", "rbracket", "memberEnd", "thrown")  BY <5>2
              <7>3. u = Rendered(call, sent) /\ Kept(text, u)  BY DEF u
              <7> QED  BY <6>2, <7>1, <7>2, <7>3, SeparatorSeen
            <6>4. \/ ~last /\ Go("cells", e + 1)
                  \/ last /\ Go("memberEnd", e + 1)
                  \/ GivesUp
              BY <6>1, <6>2, <6>3
            <6> QED  BY <6>4 DEF last
          <5>8. ASSUME j # Len(cells), Go("cells", e + 1) PROVE GoesOn
            <6>1. at' = "cells" /\ pos' = e + 1 /\ outcome' = outcome  BY <5>8 DEF Go
            <6>2. pos' = CellAt(from, cells, Len(row') + 1)
              <7>1. j < Len(cells)  BY <1>4, <3>1, <5>8 DEF IsRow
              <7> QED  BY <3>3, <5>5, <6>1, <7>1
            <6>3. AtCell(r, text, k, pos', row')  BY <5>5, <5>8, <6>2 DEF AtCell
            <6>4. Reached(call, sent, text, at', pos', row', result')
              BY <1>1, <6>1, <6>3 DEF Reached, InRow
            <6> QED  BY <6>1, <6>4 DEF GoesOn, Loops, InArray
          <5>9. ASSUME j = Len(cells), Go("memberEnd", e + 1) PROVE GoesOn
            <6>1. at' = "memberEnd" /\ pos' = e + 1 /\ outcome' = outcome  BY <5>9 DEF Go
            <6>2. AtMemberEnd(r, k, pos', row')  BY <3>3, <5>5, <5>9, <6>1 DEF AtMemberEnd
            <6>3. Reached(call, sent, text, at', pos', row', result')
              BY <1>1, <6>1, <6>2 DEF Reached, InRow
            <6> QED  BY <6>1, <6>3 DEF GoesOn, Loops, InArray
          <5> QED  BY <5>7, <5>8, <5>9
        <4> QED  BY <4>3, <4>4
      <3> QED  BY <3>6, <3>7, <3>8
    <2> QED  BY <2>1, <2>2
  <1> QED  BY <1>1, <1>7, Followed

LEMMA FollowMemberEnd ==
    ASSUME Typed, Walking, Kept(text, Rendered(call, sent)), Follows, MemberEnd
    PROVE  Follows'
  <1> DEFINE u == Rendered(call, sent)
             r == sent
             k == Len(result) + 1
             p == RowAt(r, k)
             to == CellsTo(r, k)
  <1>1. /\ at = "memberEnd" /\ at # "done" /\ at # "start"
        /\ UNCHANGED <<call, sent, text, truncated, row, result>>
        /\ call = "query" /\ ReadRows(r, result) /\ Len(result) # Len(r.rows)
        /\ AtMemberEnd(r, k, pos, row)
        /\ Separator(pos, "row", "rbrace", "rowEnd", "thrown")
    BY DEF MemberEnd, Reading, Follows, Reached, InRow
  <1>2. /\ QueryLayout(u, r) /\ Len(u) \in Nat /\ IsReply(r)
        /\ Len(result) \in Nat /\ Len(r.rows) \in Nat /\ pos \in Nat
        /\ r.rowId \in {"first", "last", "none"}
    BY <1>1, QueryReply, LenProperties DEF Typed, IsReply
  <1>3. k \in 1..Len(r.rows)  BY <1>1, <1>2 DEF ReadRows
  <1>4. /\ p \in Nat \ {0} /\ to \in Nat
        /\ r.rowId = "first" => Peek(u, p + 4) = "comma"
        /\ r.rowId # "last" => Peek(u, to + 1) = "rbrace" /\ RowEndAt(r, k) = to + 2
        /\ r.rowId = "last" => /\ Peek(u, to + 1) = "comma" /\ Peek(u, to + 5) = "rbrace"
                               /\ RowEndAt(r, k) = to + 6
    <2> DEFINE place == r.rowId
               c == RenderCells(r.rows[k])
    <2>1. /\ p \in Nat \ {0} /\ ObjectLayout(u, p, "cells", c, place, "row_id", "x")
          /\ RowEndAt(r, k) = to + (IF place = "last" THEN 6 ELSE 2)
      BY <1>2, <1>3, RowsStand DEF RowLayout
    <2>2. to = ArrayTo(p, c, place)  BY DEF CellsTo
    <2>3. to \in Nat  BY <1>2, <1>3, CellsStart, CellPart, LenProperties
    <2> HIDE DEF u, p, place, c, to
    <2>4. /\ place = "first" => Peek(u, p + 4) = "comma"
          /\ place # "last" => Peek(u, to + 1) = "rbrace"
          /\ place = "last" => Peek(u, to + 1) = "comma" /\ Peek(u, to + 5) = "rbrace"
      BY <2>1, <2>2 DEF ObjectLayout
    <2> QED  BY <2>1, <2>3, <2>4 DEF place
  <1>5. ASSUME Peek(u, pos) \in {"comma", "rbrace"}
        PROVE  \/ Peek(u, pos) = "comma" /\ Go("row", pos + 1)
               \/ Peek(u, pos) = "rbrace" /\ Go("rowEnd", pos + 1)
               \/ GivesUp
    <2>1. "rbrace" \in Structure /\ "rbrace" # "comma"  BY DEF Structure
    <2>2. u = Rendered(call, sent) /\ Kept(text, u)  OBVIOUS
    <2> HIDE DEF u
    <2> QED  BY <1>1, <1>2, <1>5, <2>1, <2>2, SeparatorSeen
  <1>6. ASSUME at' = "row", outcome' = outcome, AtMember(r, k, pos', row')  PROVE GoesOn
    <2>1. Reached(call, sent, text, at', pos', row', result')
      BY <1>1, <1>6 DEF Reached, InRow
    <2> QED  BY <1>6, <2>1 DEF GoesOn, Loops, InArray
  <1>7. ASSUME at' = "rowEnd", outcome' = outcome, pos' = RowEndAt(r, k), row' = MeantRow(r, k)
        PROVE  GoesOn
    <2>1. Reached(call, sent, text, at', pos', row', result')
      BY <1>1, <1>7 DEF Reached, InRow
    <2> QED  BY <1>7, <2>1 DEF GoesOn, Loops, InArray
  <1>8. CASE r.rowId = "first" /\ pos = p + 4 /\ row = << >>
    <2>1. pos + 1 = p + 5  BY <1>4, <1>8
    <2>2. Peek(u, pos) = "comma"  BY <1>4, <1>8
    <2>3. Go("row", pos + 1) \/ GivesUp  BY <1>5, <2>2
    <2>4. CASE Go("row", pos + 1)
      <3>1. at' = "row" /\ outcome' = outcome /\ pos' = p + 5  BY <2>1, <2>4 DEF Go
      <3>2. AtMember(r, k, pos', row')  BY <1>1, <1>8, <3>1 DEF AtMember
      <3> QED  BY <1>1, <1>6, <3>1, <3>2, Followed
    <2> QED  BY <1>1, <2>3, <2>4, Followed
  <1>9. CASE pos = to + 1 /\ row = MeantRow(r, k)
    <2>1. pos + 1 = to + 2  BY <1>4, <1>9
    <2>2. CASE r.rowId = "last"
      <3>1. Peek(u, pos) = "comma"  BY <1>4, <1>9, <2>2
      <3>2. Go("row", pos + 1) \/ GivesUp  BY <1>5, <3>1
      <3>3. CASE Go("row", pos + 1)
        <4>1. at' = "row" /\ outcome' = outcome /\ pos' = to + 2  BY <2>1, <3>3 DEF Go
        <4>2. AtMember(r, k, pos', row')  BY <1>1, <1>9, <2>2, <4>1 DEF AtMember
        <4> QED  BY <1>1, <1>6, <4>1, <4>2, Followed
      <3> QED  BY <1>1, <3>2, <3>3, Followed
    <2>3. CASE r.rowId # "last"
      <3>1. Peek(u, pos) = "rbrace"  BY <1>4, <1>9, <2>3
      <3>2. Go("rowEnd", pos + 1) \/ GivesUp  BY <1>5, <3>1
      <3>3. CASE Go("rowEnd", pos + 1)
        <4>1. at' = "rowEnd" /\ outcome' = outcome /\ pos' = to + 2  BY <2>1, <3>3 DEF Go
        <4> QED  BY <1>1, <1>4, <1>7, <1>9, <2>3, <4>1, Followed
      <3> QED  BY <1>1, <3>2, <3>3, Followed
    <2> QED  BY <2>2, <2>3
  <1>10. CASE r.rowId = "last" /\ pos = to + 5 /\ row = MeantRow(r, k)
    <2>1. pos + 1 = to + 6  BY <1>4, <1>10
    <2>2. Peek(u, pos) = "rbrace"  BY <1>4, <1>10
    <2>3. Go("rowEnd", pos + 1) \/ GivesUp  BY <1>5, <2>2
    <2>4. CASE Go("rowEnd", pos + 1)
      <3>1. at' = "rowEnd" /\ outcome' = outcome /\ pos' = to + 6  BY <2>1, <2>4 DEF Go
      <3> QED  BY <1>1, <1>4, <1>7, <1>10, <3>1, Followed
    <2> QED  BY <1>1, <2>3, <2>4, Followed
  <1> QED  BY <1>1, <1>8, <1>9, <1>10 DEF AtMemberEnd

(* What one row adds to the result.                                          *)
LEMMA RowRead ==
    ASSUME Typed, call = "query", ReadRows(sent, result), Len(result) # Len(sent.rows),
           NEW more, more = Append(result, MeantRow(sent, Len(result) + 1))
    PROVE  /\ ReadRows(sent, more) /\ Len(more) = Len(result) + 1
           /\ Len(more) = Len(sent.rows) => more = Meant
  <1> DEFINE m == [i \in 1..Len(sent.rows) |-> MeantRow(sent, i)]
             n == Len(sent.rows)
             k == Len(result) + 1
             S == Seq(CellsRead) \cup Strings
  <1>1. Meant = m
    BY DEF Meant, MeantRow
  <1>2. n \in Nat /\ Len(result) \in Nat /\ Len(result) < n /\ k \in 1..n
    BY LenProperties DEF Typed, IsReply, ReadRows
  <1>3. ASSUME NEW i \in 1..n PROVE m[i] = MeantRow(sent, i) /\ m[i] \in S
    BY MeantRowIsRow DEF Typed
  <1>4. DOMAIN m = 1..n  OBVIOUS
  <1>5. m \in [1..n -> S]  BY <1>3
  <1> HIDE DEF m, n, S
  <1>6. m \in Seq(S) /\ Len(m) = n  BY <1>2, <1>4, <1>5
  <1>7. result \in Seq(S) /\ more = Append(result, m[k])  BY <1>2, <1>3 DEF Typed, S
  <1>8. /\ more \in Seq(S) /\ Len(more) = k
        /\ \A i \in 1..Len(result) : more[i] = result[i]
        /\ more[k] = m[k]
    BY <1>2, <1>3, <1>7, AppendProperties
  <1>9. ASSUME NEW i \in 1..k PROVE more[i] = m[i] /\ i \in 1..n
    <2>1. (i \in 1..Len(result) \/ i = k) /\ i \in 1..n  BY <1>2
    <2>2. i \in 1..Len(result) => result[i] = m[i]  BY <1>3, <2>1 DEF ReadRows
    <2> QED  BY <1>8, <2>1, <2>2
  <1>10. ReadRows(sent, more)
    <2>1. Len(more) <= Len(sent.rows)  BY <1>2, <1>8 DEF n
    <2>2. \A i \in 1..Len(more) : more[i] = MeantRow(sent, i)  BY <1>3, <1>8, <1>9
    <2> QED  BY <2>1, <2>2 DEF ReadRows
  <1>11. k = n => more = m  BY <1>6, <1>8, <1>9, SeqEqual
  <1> QED  BY <1>1, <1>8, <1>10, <1>11 DEF n

LEMMA FollowRowEnd ==
    ASSUME Typed, Walking, Kept(text, Rendered(call, sent)), Follows, RowEnd
    PROVE  Follows'
  <1> DEFINE u == Rendered(call, sent)
             r == sent
             k == Len(result) + 1
             p == RowEndAt(r, k)
             n == Len(r.rows)
  <1>1. /\ at = "rowEnd" /\ at # "done" /\ at # "start"
        /\ UNCHANGED <<call, sent, text, truncated, row>> /\ result' = Append(result, row)
        /\ call = "query" /\ ReadRows(r, result) /\ Len(result) # n
        /\ pos = p /\ row = MeantRow(r, k)
    BY DEF RowEnd, Reading, Follows, Reached, InRow
  <1>2. /\ QueryLayout(u, r) /\ Len(u) \in Nat /\ IsReply(r) /\ (Whole <=> text = u)
        /\ u = RenderQuery(r) /\ Len(result) \in Nat /\ n \in Nat
    BY <1>1, QueryReply, LenProperties DEF Typed, IsReply
  <1>3. k \in 1..n  BY <1>1, <1>2 DEF ReadRows
  <1>4. /\ p \in Nat
        /\ k # n => Peek(u, p) = "comma" /\ RowAt(r, k + 1) = p + 1
        /\ k = n => Peek(u, p) = "rbracket"
    <2>1. k # n => k < n  BY <1>2, <1>3
    <2>2. k = n => p = RowsTo(r)  BY <1>2, <1>3, RowsStand
    <2>3. Peek(u, RowsTo(r)) = "rbracket"  BY <1>2 DEF QueryLayout, ObjectLayout, RowsTo
    <2> QED  BY <1>2, <1>3, <2>1, <2>2, <2>3, RowsStand
  <1>5. /\ ReadRows(r, result') /\ Len(result') = k
        /\ k = n => result' = Meant
    <2> DEFINE more == result'
    <2>1. more = Append(result, MeantRow(sent, Len(result) + 1))  BY <1>1
    <2> HIDE DEF more
    <2>2. /\ ReadRows(sent, more) /\ Len(more) = Len(result) + 1
          /\ Len(more) = Len(sent.rows) => more = Meant
      BY <1>1, <2>1, RowRead
    <2> QED  BY <2>2 DEF more
  <1>6. Sees(pos, Peek(u, p))
    <2>1. Peek(u, p) \in Tokens /\ p \in Int  BY <1>4, Literals
    <2> HIDE DEF p, u
    <2> QED  BY <1>1, <2>1, Seen DEF u
  <1>7. GoesOn \/ GivesUp \/ Returns
    <2>1. CASE Token = "comma"
      <3>1. k # n  BY <1>4, <1>6, <2>1, Alive, Literals DEF Sees, Token
      <3>2. at' = "rows" /\ outcome' = outcome /\ pos' = p + 1  BY <1>1, <2>1 DEF RowEnd, Go
      <3>3. InRows(r, text, pos', result')  BY <1>4, <1>5, <3>1, <3>2 DEF InRows
      <3>4. Reached(call, sent, text, at', pos', row', result')
        BY <1>1, <3>2, <3>3 DEF Reached, InRow
      <3> QED  BY <3>2, <3>4 DEF GoesOn, Loops, InArray
    <2>2. CASE Token = "rbracket"
      <3>1. k = n  BY <1>4, <1>6, <2>2, Alive, Literals DEF Sees, Token
      <3>2. End("returned")  BY <2>2 DEF RowEnd
      <3> QED  BY <1>5, <3>1, <3>2 DEF End, Returns
    <2>3. CASE Token \notin {"comma", "rbracket"}
      <3>1. ~Whole  BY <1>4, <1>6, <2>3 DEF Sees, Token
      <3>2. End("thrown")  BY <2>3 DEF RowEnd
      <3> QED  BY <3>1, <3>2 DEF End, GivesUp
    <2> QED  BY <2>1, <2>2, <2>3
  <1> QED  BY <1>1, <1>7, Followed

(* Where the names stand.                                                    *)
NameStands(r, k) ==
    /\ NameAt(r, k) \in Nat \ {0} /\ (k = 1 => NameAt(r, k) = 2)
    /\ Peek(RenderNames(r), NameAt(r, k)) = r.names[k] /\ r.names[k] \in Strings
    /\ k < Len(r.names) => /\ Peek(RenderNames(r), NameAt(r, k) + 1) = "comma"
                           /\ NameAt(r, k + 1) = NameAt(r, k) + 2
    /\ k = Len(r.names) => Peek(RenderNames(r), NameAt(r, k) + 1) = "rbracket"

LEMMA NamesStand ==
    ASSUME NEW r, IsReply(r)
    PROVE  /\ RenderNames(r) \in Seq(Tokens) /\ Len(RenderNames(r)) \in Nat
           /\ Peek(RenderNames(r), 1) = "lbracket" /\ Len(r.names) \in Nat
           /\ Len(r.names) = 0 => Peek(RenderNames(r), 2) = "rbracket" /\ r.names = << >>
           /\ \A k \in 1..Len(r.names) : NameStands(r, k)
  <1> DEFINE u == RenderNames(r)
             parts == NameParts(r)
             n == Len(r.names)
  <1>1. /\ Parts(parts) /\ Len(parts) = n /\ r.names \in Seq(Strings) /\ n \in Nat
        /\ \A k \in 1..n : parts[k] = <<r.names[k]>> /\ r.names[k] \in Strings
    BY NamePart, LenProperties DEF NameFacts, IsReply
  <1>2. /\ u \in Seq(Tokens) /\ Len(u) \in Nat /\ Peek(u, 1) = "lbracket"
        /\ Has(u, 2, Separated(parts)) /\ Peek(u, 2 + Len(Separated(parts))) = "rbracket"
    BY NamesText, LenProperties
  <1>3. ASSUME n = 0 PROVE Peek(u, 2) = "rbracket" /\ r.names = << >>
    <2>1. Separated(parts) = << >>  BY <1>1, <1>3, SeparatedIsJoined
    <2>2. 2 + Len(Separated(parts)) = 2  BY <2>1
    <2>3. r.names = << >>  BY <1>1, <1>3, EmptySeq
    <2> QED  BY <1>2, <2>2, <2>3
  <1>4. ASSUME NEW k \in 1..n PROVE NameStands(r, k)
    <2> DEFINE o == Offset(parts, k)
               name == r.names[k]
    <2>0. k \in 1..Len(parts) /\ parts[k] = <<name>> /\ name \in Strings
      <3> HIDE DEF parts, n
      <3> QED  BY <1>1, <1>4
    <2>1. k \in 1..Len(parts) /\ parts[k] = <<name>> /\ Len(parts[k]) = 1 /\ name \in Strings
      <3> HIDE DEF parts, name
      <3>1. Len(<<name>>) = 1  OBVIOUS
      <3> QED  BY <2>0, <3>1
    <2>2. /\ o \in Nat /\ (k = 1 => o = 0)
          /\ k < n => Offset(parts, k + 1) = o + 1 + 1
          /\ k = n => o + 1 = Len(Separated(parts))
      <3> HIDE DEF parts, n
      <3> QED  BY <1>1, <2>1, OffsetFacts
    <2>3. Has(u, 2 + o, <<name>>) /\ (k < n => Peek(u, 2 + o + 1) = "comma")
      <3>1. /\ Has(u, 2 + o, parts[k])
            /\ k < Len(parts) => Peek(u, 2 + o + Len(parts[k])) = "comma"
        <4> HIDE DEF u, parts
        <4> QED  BY <1>1, <1>2, <2>1, Slots
      <3> QED  BY <1>1, <2>1, <3>1
    <2>4. 2 + o \in Nat \ {0} /\ 2 + (o + 1) = (2 + o) + 1 /\ 2 + (o + 1 + 1) = (2 + o) + 2
      BY <2>2
    <2>5. Peek(u, 2 + o) = name  BY <2>3, <2>4, HasOne
    <2>6. NameAt(r, k) = 2 + o /\ NameAt(r, k + 1) = 2 + Offset(parts, k + 1)  BY DEF NameAt
    <2> HIDE DEF o
    <2>7. k = n => Peek(u, (2 + o) + 1) = "rbracket"  BY <1>2, <2>2, <2>4
    <2>8. k < n => NameAt(r, k + 1) = NameAt(r, k) + 2  BY <2>2, <2>4, <2>6
    <2>9. k = 1 => NameAt(r, k) = 2  BY <2>2, <2>6
    <2> QED  BY <2>1, <2>3, <2>4, <2>5, <2>6, <2>7, <2>8, <2>9 DEF NameStands
  <1> QED  BY <1>1, <1>2, <1>3, <1>4

LEMMA FollowStartNames ==
    ASSUME Typed, Walking, Kept(text, Rendered(call, sent)), Follows, StartNames
    PROVE  Follows'
  <1> DEFINE u == RenderNames(sent)
             n == Len(sent.names)
  <1>1. /\ at = "start" /\ call = "table_names" /\ result = << >> /\ pos = 1 /\ outcome = "none"
        /\ UNCHANGED <<call, sent, text, truncated, row, result>>
    BY DEF StartNames, Reading, Walking
  <1>2. /\ u = Rendered(call, sent) /\ (Whole <=> text = u) /\ Meant = sent.names
    BY <1>1 DEF Rendered, Whole, Meant
  <1>3. /\ Peek(u, 1) = "lbracket" /\ n \in Nat
        /\ n = 0 => Peek(u, 2) = "rbracket" /\ sent.names = << >>
        /\ n # 0 => Peek(u, 2) \in Strings /\ NameAt(sent, 1) = 2
    <2>1. n # 0 => 1 \in 1..n  BY NamesStand DEF Typed
    <2>2. n # 0 => NameStands(sent, 1)  BY <2>1, NamesStand DEF Typed
    <2>3. n # 0 => Peek(u, 2) \in Strings /\ NameAt(sent, 1) = 2  BY <2>2 DEF NameStands
    <2> QED  BY <2>3, NamesStand DEF Typed
  <1>4. Sees(1, "lbracket") /\ Sees(2, Peek(u, 2))
    <2>1. Peek(u, 2) \in Tokens  BY <1>3, Literals
    <2> HIDE DEF u
    <2> QED  BY <1>2, <1>3, <2>1, Seen, Literals
  <1>5. Whole' = Whole /\ Meant' = Meant  BY <1>1 DEF Whole, Meant
  <1>6. CASE Token # "lbracket" \/ Peek(text, 2) = "rbracket"
    <2>1. at' = "done" /\ outcome' = "returned"  BY <1>6 DEF StartNames, End
    <2>2. Reached(call, sent, text, at, pos, row, result)'  BY <2>1 DEF Reached, InRow
    <2>3. Whole => result = Meant
      <3> SUFFICES ASSUME Whole PROVE n = 0  BY <1>1, <1>2, <1>3
      <3>1. Peek(text, 2) = "rbracket"  BY <1>1, <1>4, <1>6 DEF Sees, Token
      <3>2. Peek(u, 2) = "rbracket"  BY <1>2, <3>1
      <3>3. "rbracket" \notin Strings  BY TokenAssumption DEF Structure, Scalars
      <3> QED  BY <1>3, <3>2, <3>3
    <2> QED  BY <1>1, <1>5, <2>1, <2>2, <2>3 DEF Follows
  <1>7. CASE Token = "lbracket" /\ Peek(text, 2) # "rbracket"
    <2>1. at' = "names" /\ pos' = 2 /\ outcome' = "none"  BY <1>1, <1>7 DEF StartNames, Go
    <2>2. result' = << >> /\ Len(result') = 0  BY <1>1, Nothing DEF NothingRead
    <2>3. ReadNames(sent, result')  BY <1>3, <2>2 DEF ReadNames
    <2>4. n = 0 => Gone(text, RenderNames(sent), 2)  BY <1>2, <1>3, <1>4, <1>7 DEF Sees, Gone
    <2>5. InNames(sent, text, pos', result')  BY <1>3, <2>1, <2>2, <2>3, <2>4 DEF InNames
    <2>6. Reached(call, sent, text, at, pos, row, result)'
      BY <1>1, <2>1, <2>5 DEF Reached, InRow
    <2> QED  BY <1>1, <2>1, <2>6 DEF Follows
  <1> QED  BY <1>6, <1>7

(* What one name adds to the result.                                         *)
LEMMA NameRead ==
    ASSUME Typed, ReadNames(sent, result), Len(result) # Len(sent.names),
           NEW more, more = Append(result, sent.names[Len(result) + 1])
    PROVE  /\ ReadNames(sent, more) /\ Len(more) = Len(result) + 1
           /\ Len(more) = Len(sent.names) => more = sent.names
  <1> DEFINE m == sent.names
             k == Len(result) + 1
             S == Seq(CellsRead) \cup Strings
  <1>1. m \in Seq(S) /\ Len(m) \in Nat
    <2>1. m \in Seq(Strings)  BY DEF Typed, IsReply
    <2>2. Seq(Strings) \subseteq Seq(S)  OBVIOUS
    <2> QED  BY <2>1, <2>2, LenProperties
  <1>2. result \in Seq(S) /\ Len(result) \in Nat  BY LenProperties DEF Typed
  <1> HIDE DEF m, S
  <1>3. Len(result) < Len(m) /\ k \in 1..Len(m)  BY <1>1, <1>2 DEF ReadNames, m
  <1>4. m[k] \in S  BY <1>1, <1>3, ElementOfSeq
  <1>5. /\ more \in Seq(S) /\ Len(more) = k
        /\ \A i \in 1..Len(result) : more[i] = result[i]
        /\ more[k] = m[k]
    BY <1>2, <1>4, AppendProperties DEF m
  <1>6. ASSUME NEW i \in 1..k PROVE more[i] = m[i]
    <2>1. i \in 1..Len(result) \/ i = k  BY <1>2
    <2>2. i \in 1..Len(result) => result[i] = m[i]  BY DEF ReadNames, m
    <2> QED  BY <1>5, <2>1, <2>2
  <1>7. ReadNames(sent, more)
    <2>1. Len(more) <= Len(m)  BY <1>1, <1>3, <1>5
    <2> QED  BY <1>5, <1>6, <2>1 DEF ReadNames, m
  <1>8. k = Len(m) => more = m  BY <1>1, <1>5, <1>6, SeqEqual
  <1> QED  BY <1>5, <1>7, <1>8 DEF m

LEMMA FollowNextName ==
    ASSUME Typed, Walking, Kept(text, Rendered(call, sent)), Follows, NextName
    PROVE  Follows'
  <1> DEFINE r == sent
             u == RenderNames(r)
             n == Len(r.names)
             k == Len(result) + 1
             p == NameAt(r, k)
  <1>1. /\ at = "names" /\ at # "done" /\ at # "start"
        /\ UNCHANGED <<call, sent, text, truncated, row>>
        /\ call = "table_names" /\ InNames(r, text, pos, result)
    BY DEF NextName, Reading, Follows, Reached
  <1>2. /\ u = Rendered(call, sent) /\ (Whole <=> text = u) /\ Meant = r.names /\ Meant' = Meant
        /\ Len(result) \in Nat /\ n \in Nat /\ IsReply(r)
    BY <1>1, NamesStand, LenProperties DEF Rendered, Whole, Meant, Typed
  <1>3. Strings \cap Dead = {}  BY Alive, Literals
  <1>4. GoesOn \/ GivesUp \/ Returns
    <2>1. CASE Len(result) = n
      <3>1. Peek(text, pos) \in Dead /\ ~Whole  BY <1>1, <1>2, <2>1 DEF InNames, Gone
      <3>2. End("thrown")  BY <1>3, <3>1 DEF NextName, Token
      <3> QED  BY <3>1, <3>2 DEF End, GivesUp
    <2>2. CASE Len(result) # n
      <3>1. k \in 1..n  BY <1>1, <1>2, <2>2 DEF InNames, ReadNames
      <3>2. pos = p /\ ReadNames(r, result)  BY <1>1, <2>2 DEF InNames
      <3>3. NameStands(r, k)  BY <1>2, <3>1, NamesStand
      <3>4. /\ p \in Nat \ {0} /\ Peek(u, p) = r.names[k] /\ r.names[k] \in Strings
            /\ k # n => Peek(u, p + 1) = "comma" /\ NameAt(r, k + 1) = p + 2
            /\ k = n => Peek(u, p + 1) = "rbracket"
        <4>1. k # n => k < n  BY <1>2, <3>1
        <4> QED  BY <3>3, <4>1 DEF NameStands
      <3>5. Sees(p, r.names[k]) /\ Sees(p + 1, Peek(u, p + 1))
        <4> DEFINE name == r.names[k]
        <4>1. /\ name \in Tokens /\ Peek(u, p + 1) \in Tokens /\ p \in Int /\ p + 1 \in Int
              /\ Peek(u, p) = name
          BY <3>4, Literals
        <4> HIDE DEF p, u, name
        <4>2. Sees(p, name) /\ Sees(p + 1, Peek(u, p + 1))  BY <1>2, <4>1, Seen
        <4> QED  BY <4>2 DEF name
      <3>6. CASE Token # r.names[k]
        <4>1. Token \in Dead /\ ~Whole  BY <3>2, <3>5, <3>6 DEF Sees, Token
        <4>2. End("thrown")  BY <1>3, <4>1 DEF NextName
        <4> QED  BY <4>1, <4>2 DEF End, GivesUp
      <3>7. CASE Token = r.names[k]
        <4>1. /\ result' = Append(result, r.names[k])
              /\ CASE Peek(text, p + 1) = "comma" -> Go("names", p + 2)
                   [] Peek(text, p + 1) = "rbracket" -> End("returned")
                   [] OTHER -> End("thrown")
          BY <3>2, <3>4, <3>7 DEF NextName
        <4>2. /\ ReadNames(r, result') /\ Len(result') = k
              /\ k = n => result' = r.names
          <5> DEFINE more == result'
          <5>1. more = Append(result, sent.names[Len(result) + 1])  BY <4>1
          <5> HIDE DEF more
          <5>2. /\ ReadNames(sent, more) /\ Len(more) = Len(result) + 1
                /\ Len(more) = Len(sent.names) => more = sent.names
            BY <2>2, <3>2, <5>1, NameRead
          <5> QED  BY <5>2 DEF more
        <4>3. CASE Peek(text, p + 1) = "comma"
          <5>1. k # n  BY <3>4, <3>5, <4>3, Alive, Literals DEF Sees
          <5>2. at' = "names" /\ outcome' = outcome /\ pos' = p + 2  BY <4>1, <4>3 DEF Go
          <5>3. InNames(r, text, pos', result')  BY <3>4, <4>2, <5>1, <5>2 DEF InNames
          <5>4. Reached(call, sent, text, at', pos', row', result')
            BY <1>1, <5>2, <5>3 DEF Reached, InRow
          <5> QED  BY <5>2, <5>4 DEF GoesOn, Loops, InArray
        <4>4. CASE Peek(text, p + 1) = "rbracket"
          <5>1. k = n  BY <3>4, <3>5, <4>4, Alive, Literals DEF Sees
          <5>2. End("returned")  BY <4>1, <4>4
          <5> QED  BY <1>2, <4>2, <5>1, <5>2 DEF End, Returns
        <4>5. CASE Peek(text, p + 1) \notin {"comma", "rbracket"}
          <5>1. ~Whole  BY <3>4, <3>5, <4>5 DEF Sees
          <5>2. End("thrown")  BY <4>1, <4>5
          <5> QED  BY <5>1, <5>2 DEF End, GivesUp
        <4> QED  BY <4>3, <4>4, <4>5
      <3> QED  BY <3>6, <3>7
    <2> QED  BY <2>1, <2>2
  <1> QED  BY <1>1, <1>4, Followed

-----------------------------------------------------------------------------
(* A text is what the network made of the reply.                             *)
Came == text = << >> \/ text \in Arriving(Rendered(call, sent))

LEMMA NextFollows ==
    ASSUME Typed, Walking, Came, Following, Next
    PROVE  Came' /\ Following'
  <1>1. CASE \E c \in {"query", "table_names"}, r \in Replies : Call(c, r)
    <2>1. PICK c \in {"query", "table_names"}, r \in Replies : Call(c, r)  BY <1>1
    <2>2. Came'  BY <2>1 DEF Call, Came
    <2>3. Follows'  BY <2>1, FollowCall
    <2> QED  BY <2>2, <2>3 DEF Following
  <1>2. CASE Discard
    <2>1. Came'  BY <1>2 DEF Discard, Came
    <2> QED  BY <1>2, <2>1, FollowDiscard DEF Following
  <1>3. ASSUME UNCHANGED <<call, sent, text>>, Kept(text, Rendered(call, sent)) => Follows'
        PROVE  Came' /\ Following'
    <2>1. Rendered(call, sent)' = Rendered(call, sent)  BY <1>3
    <2>2. Kept(text, Rendered(call, sent))' <=> Kept(text, Rendered(call, sent))  BY <1>3, <2>1
    <2> QED  BY <1>3, <2>1, <2>2 DEF Came, Following
  <1>4. ASSUME StartQuery \/ FindRows \/ NextRow \/ RowMember \/ NextCell \/ MemberEnd \/ RowEnd
               \/ StartNames \/ NextName
        PROVE  UNCHANGED <<call, sent, text>>
    BY <1>4 DEF StartQuery, FindRows, NextRow, RowMember, NextCell, MemberEnd, RowEnd,
                StartNames, NextName, Reading
  <1>5. CASE StartQuery  BY <1>3, <1>4, <1>5, FollowStartQuery DEF Following
  <1>6. CASE FindRows  BY <1>3, <1>4, <1>6, FollowFindRows DEF Following
  <1>7. CASE NextRow  BY <1>3, <1>4, <1>7, FollowNextRow DEF Following
  <1>8. CASE RowMember  BY <1>3, <1>4, <1>8, FollowRowMember DEF Following
  <1>9. CASE NextCell  BY <1>3, <1>4, <1>9, FollowNextCell DEF Following
  <1>10. CASE MemberEnd  BY <1>3, <1>4, <1>10, FollowMemberEnd DEF Following
  <1>11. CASE RowEnd  BY <1>3, <1>4, <1>11, FollowRowEnd DEF Following
  <1>12. CASE StartNames  BY <1>3, <1>4, <1>12, FollowStartNames DEF Following
  <1>13. CASE NextName  BY <1>3, <1>4, <1>13, FollowNextName DEF Following
  <1> QED
    BY <1>1, <1>2, <1>5, <1>6, <1>7, <1>8, <1>9, <1>10, <1>11, <1>12, <1>13 DEF Next

LEMMA InitFollows ==
    ASSUME Init
    PROVE  Came /\ Following
  <1>1. /\ call = "query" /\ sent = NoReply /\ text = << >> /\ at = "done" /\ outcome = "none"
    BY DEF Init
  <1>2. Reached(call, sent, text, at, pos, row, result)  BY <1>1 DEF Reached, InRow
  <1>3. ~Whole
    <2>1. Peek(RenderQuery(NoReply), 1) = "lbrace"
      BY NoReplyIsReply, QueryText DEF QueryLayout, ObjectLayout
    <2>2. Peek(<< >>, 1) = "nothing"  BY DEF Peek
    <2> QED  BY <1>1, <2>1, <2>2 DEF Whole, Rendered
  <1> QED  BY <1>1, <1>2, <1>3 DEF Came, Following, Follows

(* The invariant of the walk.                                                *)
LEMMA WalkFollows == Spec => [](Typed /\ Walking /\ Came /\ Following)
  <1> DEFINE Inv == Typed /\ Walking /\ Came /\ Following
  <1>1. Init => Inv  BY InitTurn, InitFollows
  <1>2. Inv /\ [Next]_vars => Inv'
    <2> SUFFICES ASSUME Inv, [Next]_vars PROVE Inv'  OBVIOUS
    <2>1. CASE Next  BY <2>1, NextTurn, NextFollows DEF Turn
    <2>2. CASE UNCHANGED vars
      BY <2>2 DEF vars, Typed, Walking, Came, Following, Follows, Whole, Meant, Reached
    <2> QED  BY <2>1, <2>2
  <1> QED  BY <1>1, <1>2, PTL DEF Spec

(* A whole reply is returned as the daemon meant it: every row, cell and     *)
(* name, in order, and the flag, wherever row_id and truncated stand and     *)
(* whatever value a cell holds (query(), table_names()).                     *)
THEOREM WholeReported == Spec => []WholeRepliesAreReported
  <1>1. Typed /\ Following => WholeRepliesAreReported
    <2> SUFFICES ASSUME Typed, Following, Whole, at = "done"
                 PROVE  /\ outcome = "returned" /\ result = Meant
                        /\ call = "query" => truncated = sent.truncated
      BY DEF WholeRepliesAreReported
    <2>1. Rendered(call, sent) \in Seq(Tokens)  BY RenderedText DEF Typed
    <2>2. Kept(text, Rendered(call, sent))  BY <2>1, WholeIsKept DEF Whole
    <2> QED  BY <2>2 DEF Following, Follows
  <1> QED  BY <1>1, WalkFollows, PTL

(* A reply that breaks off, at any token or in the middle of a string, is    *)
(* never returned in part: the caller gets every row or name, none at all,   *)
(* or an exception.                                                          *)
THEOREM NeverPartial == Spec => []NeverInPart
  <1>1. Typed /\ Came /\ Following => NeverInPart
    <2> SUFFICES ASSUME Typed, Came, Following, BrokenOff, outcome = "returned"
                 PROVE  result \in {<< >>, Meant}
      BY DEF NeverInPart
    <2>1. Rendered(call, sent) \in Seq(Tokens) /\ Len(Rendered(call, sent)) \in Nat
      BY RenderedText, LenProperties DEF Typed
    <2>2. CASE text = << >>
      <3>1. Len(text) = 0  BY <2>2
      <3>2. Kept(text, Rendered(call, sent))  BY <2>1, <3>1 DEF Kept
      <3> QED  BY <3>2 DEF Following, Follows
    <2>3. CASE text \in Arriving(Rendered(call, sent))
      <3>1. Kept(text, Rendered(call, sent))  BY <2>1, <2>3, Arrives DEF BrokenOff
      <3> QED  BY <3>1 DEF Following, Follows
    <2> QED  BY <2>2, <2>3 DEF Came
  <1> QED  BY <1>1, WalkFollows, PTL

-----------------------------------------------------------------------------
(* How deep in objects and arrays a text is                                  *)
(*                                                                           *)
(* skip_value counts no brackets, but where it comes to an end is a matter   *)
(* of depth: a value ends where the text first comes back to the depth it    *)
(* began at.  A text that misses a bracket is one deeper, or one less deep,  *)
(* behind it than the reply is, so where a value that misses a token ends is *)
(* known from the depths of the reply.                                       *)

Opening == {"lbrace", "lbracket"}
Closing == {"rbrace", "rbracket"}
Before(t, p, kind) == {q \in 1..(p - 1) : Peek(t, q) \in kind}

(* The brackets that are open before the token at p.                         *)
Depth(t, p) == Cardinality(Before(t, p, Opening)) - Cardinality(Before(t, p, Closing))

(* What a token adds to it.                                                  *)
Lift(token) == IF token \in Opening THEN 1 ELSE IF token \in Closing THEN 0 - 1 ELSE 0

LEMMA BeforeStep ==
    ASSUME NEW t, NEW p \in Nat \ {0}, NEW kind
    PROVE  /\ Cardinality(Before(t, p, kind)) \in Nat
           /\ Peek(t, p) \in kind =>
                 Cardinality(Before(t, p + 1, kind)) = Cardinality(Before(t, p, kind)) + 1
           /\ Peek(t, p) \notin kind => Before(t, p + 1, kind) = Before(t, p, kind)
  <1> DEFINE B == Before(t, p, kind)
  <1>1. IsFiniteSet(B) /\ Cardinality(B) \in Nat
    <2>1. IsFiniteSet(1..(p - 1))
      BY FS_Interval
    <2>2. B \subseteq 1..(p - 1)
      BY DEF Before
    <2> QED
      BY ONLY <2>1, <2>2, FS_Subset, FS_CardinalityType
  <1>2. 1..p = (1..(p - 1)) \cup {p}
    OBVIOUS
  <1>3. p \notin B
    BY DEF Before
  <1>4. Before(t, p + 1, kind) = {q \in 1..p : Peek(t, q) \in kind}
    BY DEF Before
  <1>5. Peek(t, p) \in kind => Before(t, p + 1, kind) = B \cup {p}
    BY <1>2, <1>4 DEF Before
  <1>6. Peek(t, p) \notin kind => Before(t, p + 1, kind) = B
    BY <1>2, <1>4 DEF Before
  <1>7. Cardinality(B \cup {p}) = Cardinality(B) + 1
    BY <1>1, <1>3, FS_AddElement
  <1> QED
    BY ONLY <1>1, <1>5, <1>6, <1>7

LEMMA DepthStep ==
    ASSUME NEW t, NEW p \in Nat \ {0}
    PROVE  Depth(t, p) \in Int /\ Depth(t, p + 1) = Depth(t, p) + Lift(Peek(t, p))
  <1> DEFINE o == Cardinality(Before(t, p, Opening))
             c == Cardinality(Before(t, p, Closing))
             oo == Cardinality(Before(t, p + 1, Opening))
             cc == Cardinality(Before(t, p + 1, Closing))
  <1>1. o \in Nat /\ (Peek(t, p) \in Opening => oo = o + 1) /\ (Peek(t, p) \notin Opening => oo = o)
    BY BeforeStep
  <1>2. c \in Nat /\ (Peek(t, p) \in Closing => cc = c + 1) /\ (Peek(t, p) \notin Closing => cc = c)
    BY BeforeStep
  <1>3. ~(Peek(t, p) \in Opening /\ Peek(t, p) \in Closing)
    BY DEF Opening, Closing
  <1>4. Depth(t, p) = o - c /\ Depth(t, p + 1) = oo - cc
    BY DEF Depth
  <1> HIDE DEF o, c, oo, cc
  <1> QED
    BY ONLY <1>1, <1>2, <1>3, <1>4 DEF Lift

LEMMA Lifts ==
    /\ Lift("lbrace") = 1 /\ Lift("lbracket") = 1 /\ Lift("rbrace") = 0 - 1 /\ Lift("rbracket") = 0 - 1
    /\ Lift("comma") = 0 /\ Lift("colon") = 0
    /\ \A token \in Scalars : Lift(token) = 0
    /\ \A token : Lift(token) \in Int
  <1>1. \A token \in Scalars : token \notin Opening /\ token \notin Closing
    BY TokenAssumption DEF Structure, Opening, Closing
  <1> QED
    BY <1>1 DEF Lift, Opening, Closing

(* A walk over a value comes back to the depth it began at, for the first    *)
(* time; a walk to the end of a container comes below it.                    *)
Round(t, p, e) ==
    /\ e \in Nat /\ p < e /\ Depth(t, e) = Depth(t, p)
    /\ \A q \in Nat : p < q /\ q < e => Depth(t, q) > Depth(t, p)
Leaves(t, p, e) ==
    /\ e \in Nat /\ p < e /\ Depth(t, e) = Depth(t, p) - 1
    /\ \A q \in Nat : p <= q /\ q < e => Depth(t, q) >= Depth(t, p)

LEMMA OnwardIs ==
    ASSUME NEW t, NEW skip, NEW after, NEW close, close # "comma"
    PROVE  /\ Peek(t, after) = "comma" => Onward(t, skip, after, close) = skip[after + 1][close]
           /\ Peek(t, after) = close => Onward(t, skip, after, close) = after + 1
           /\ Peek(t, after) \notin {"comma", close} => Onward(t, skip, after, close) = 0
  BY DEF Onward

LEMMA OnwardLeaves ==
    ASSUME NEW t, Len(t) \in Nat, NEW after \in Nat \ {0}, NEW close \in Closing,
           \A q \in 0..Len(t) + 1 : after < q =>
               (Skip(t)[q][close] # 0 => Leaves(t, q, Skip(t)[q][close])),
           Onward(t, Skip(t), after, close) # 0
    PROVE  Leaves(t, after, Onward(t, Skip(t), after, close))
  <1> DEFINE e == Onward(t, Skip(t), after, close)
  <1>0. /\ Depth(t, after) \in Int /\ Depth(t, after + 1) \in Int
        /\ Depth(t, after + 1) = Depth(t, after) + Lift(Peek(t, after))
    BY DepthStep
  <1>1. Lift("comma") = 0 /\ Lift(close) = 0 - 1 /\ close # "comma"
    BY Lifts DEF Closing
  <1>2. CASE Peek(t, after) = "comma"
    <2>1. e = Skip(t)[after + 1][close]
      BY <1>1, <1>2, OnwardIs
    <2>2. after + 1 \in 0..Len(t) + 1
      BY <1>2, PeekFacts
    <2>3. Leaves(t, after + 1, e)
      BY <2>1, <2>2
    <2> HIDE DEF e
    <2>4. Depth(t, after + 1) = Depth(t, after)
      BY <1>0, <1>1, <1>2
    <2>5. e \in Nat /\ after < e /\ Depth(t, e) = Depth(t, after) - 1
      BY <2>3, <2>4 DEF Leaves
    <2>6. ASSUME NEW q \in Nat, after <= q, q < e PROVE Depth(t, q) >= Depth(t, after)
      BY <2>3, <2>4, <2>6, <1>0 DEF Leaves
    <2>7. Leaves(t, after, e)
      BY <2>5, <2>6 DEF Leaves
    <2> QED
      BY <2>7 DEF e
  <1>3. CASE Peek(t, after) = close
    <2>1. e = after + 1
      BY <1>1, <1>3, OnwardIs
    <2>2. Depth(t, e) = Depth(t, after) - 1
      BY <2>1, <1>0, <1>1, <1>3
    <2> HIDE DEF e
    <2>3. Leaves(t, after, e)
      BY <2>1, <2>2, <1>0 DEF Leaves
    <2> QED
      BY <2>3 DEF e
  <1> QED
    BY <1>1, <1>2, <1>3, OnwardIs

LEMMA ThenLeaves ==
    ASSUME NEW t, NEW p \in Nat \ {0}, NEW a \in Nat, NEW e, Round(t, p, a), Leaves(t, a, e)
    PROVE  Leaves(t, p, e)
  <1>0. Depth(t, p) \in Int
    BY DepthStep
  <1>1. e \in Nat /\ p < e /\ Depth(t, e) = Depth(t, p) - 1
    BY <1>0 DEF Round, Leaves
  <1>2. ASSUME NEW q \in Nat, p <= q, q < e PROVE Depth(t, q) >= Depth(t, p)
    <2>1. CASE q = p
      BY <2>1, <1>0
    <2>2. CASE p < q /\ q < a
      <3>1. Depth(t, q) > Depth(t, p)
        BY <2>2 DEF Round
      <3>2. Depth(t, q) \in Int
        BY <2>2, DepthStep
      <3> QED
        BY <3>1, <3>2, <1>0
    <2>3. CASE a <= q
      BY <2>3, <1>2 DEF Round, Leaves
    <2> QED
      BY <1>2, <2>1, <2>2, <2>3
  <1> QED
    BY <1>1, <1>2 DEF Leaves

LEMMA WithinRound ==
    ASSUME NEW t, Len(t) \in Nat, NEW p \in Nat \ {0}, p <= Len(t), Peek(t, p) \in Opening,
           NEW close \in Closing,
           \A q \in 0..Len(t) + 1 : p < q =>
               (Skip(t)[q][close] # 0 => Leaves(t, q, Skip(t)[q][close])),
           Within(t, Skip(t), p, close) # 0
    PROVE  Round(t, p, Within(t, Skip(t), p, close))
  <1> DEFINE e == Within(t, Skip(t), p, close)
  <1>0. /\ Depth(t, p) \in Int /\ Depth(t, p + 1) \in Int
        /\ Depth(t, p + 1) = Depth(t, p) + Lift(Peek(t, p))
        /\ Depth(t, p + 2) = Depth(t, p + 1) + Lift(Peek(t, p + 1))
    <2>1. p + 1 \in Nat \ {0} /\ (p + 1) + 1 = p + 2
      OBVIOUS
    <2>2. Depth(t, (p + 1) + 1) = Depth(t, p + 1) + Lift(Peek(t, p + 1)) /\ Depth(t, p + 1) \in Int
      BY <2>1, DepthStep
    <2> QED
      BY <2>1, <2>2, DepthStep
  <1>1. Lift(Peek(t, p)) = 1 /\ Lift(close) = 0 - 1
    BY Lifts DEF Closing, Opening
  <1>2. CASE Peek(t, p + 1) = close
    <2>1. e = p + 2
      BY <1>2 DEF Within
    <2> HIDE DEF e
    <2>2. Round(t, p, e)
      <3>1. Depth(t, e) = Depth(t, p)
        BY <2>1, <1>0, <1>1, <1>2
      <3>2. ASSUME NEW q \in Nat, p < q, q < e PROVE Depth(t, q) > Depth(t, p)
        <4>1. q = p + 1
          BY <3>2, <2>1
        <4> QED
          BY <4>1, <1>0, <1>1
      <3> QED
        BY <3>1, <3>2, <2>1 DEF Round
    <2> QED
      BY <2>2 DEF e
  <1>3. CASE Peek(t, p + 1) # close
    <2>1. e = Skip(t)[p + 1][close]
      BY <1>3 DEF Within
    <2>2. p + 1 \in 0..Len(t) + 1
      OBVIOUS
    <2>3. Leaves(t, p + 1, e)
      BY <2>1, <2>2
    <2> HIDE DEF e
    <2>4. Depth(t, p + 1) = Depth(t, p) + 1
      BY <1>0, <1>1
    <2>5. e \in Nat /\ p < e /\ Depth(t, e) = Depth(t, p)
      BY <2>3, <2>4, <1>0 DEF Leaves
    <2>6. ASSUME NEW q \in Nat, p < q, q < e PROVE Depth(t, q) > Depth(t, p)
      <3>1. Depth(t, q) >= Depth(t, p + 1)
        BY <2>3, <2>6 DEF Leaves
      <3>2. Depth(t, q) \in Int
        BY <2>6, DepthStep
      <3> QED
        BY ONLY <3>1, <3>2, <2>4, <1>0
    <2>7. Round(t, p, e)
      BY <2>5, <2>6 DEF Round
    <2> QED
      BY <2>7 DEF e
  <1> QED
    BY <1>2, <1>3

Weighed(t, p) ==
    /\ Skip(t)[p]["value"] # 0 => Round(t, p, Skip(t)[p]["value"])
    /\ \A close \in Closing : Skip(t)[p][close] # 0 => Leaves(t, p, Skip(t)[p][close])

LEMMA SkipWeighed ==
    ASSUME NEW t, Len(t) \in Nat, NEW p \in 0..Len(t) + 1
    PROVE  Weighed(t, p)
  <1> DEFINE S == {q \in 0..Len(t) + 1 : Weighed(t, q)}
  <1>1. ASSUME NEW a \in 0..Len(t) + 1, \A q \in 0..Len(t) + 1 : a < q => q \in S
        PROVE  a \in S
    <2>0. \A q \in 0..Len(t) + 1 : a < q => Weighed(t, q)  BY <1>1
    <2> HIDE DEF S
    <2>1. \A close \in Closing : \A q \in 0..Len(t) + 1 : a < q =>
             (Skip(t)[q][close] # 0 => Leaves(t, q, Skip(t)[q][close]))
      BY ONLY <2>0 DEF Weighed
    <2>2. CASE a = 0
      <3>1. Peek(t, 0) = "nothing" /\ AfterKey(t, 0) = 0  BY TokenAssumption DEF Peek, AfterKey, Tokens, Scalars
      <3>2. Peek(t, 0) \notin Scalars \cup {"lbrace", "lbracket"}
        BY <3>1, TokenAssumption DEF Tokens, Scalars
      <3>3. /\ Skip(t)[a]["value"] = 0
            /\ Skip(t)[a]["rbrace"] = Onward(t, Skip(t), 0, "rbrace")
            /\ Skip(t)[a]["rbracket"] = Onward(t, Skip(t), 0, "rbracket")
        BY <2>2, <3>1, <3>2, SkipParts
      <3>4. \A close \in Closing : Onward(t, Skip(t), 0, close) = 0
        BY NothingAtZero, Literals DEF Closing
      <3>5. Weighed(t, a)  BY <3>3, <3>4 DEF Weighed, Closing
      <3> QED  BY <3>5 DEF S
    <2>3. CASE a # 0
      <3> DEFINE v == Skip(t)[a]["value"]
      <3>0. a \in Nat \ {0} /\ a \in 0..Len(t) + 1  BY <2>3
      <3>1. /\ Depth(t, a) \in Int /\ Depth(t, a + 1) = Depth(t, a) + Lift(Peek(t, a))
            /\ Depth(t, a + 1) \in Int /\ Depth(t, a + 2) = Depth(t, a + 1) + Lift(Peek(t, a + 1))
        <4>1. a + 1 \in Nat \ {0} /\ (a + 1) + 1 = a + 2  OBVIOUS
        <4> QED  BY <3>0, <4>1, DepthStep
      <3>2. v # 0 => Round(t, a, v)
        <4>1. CASE Peek(t, a) \in Scalars
          <5>1. v = a + 1  BY <4>1, SkipParts
          <5>2. Depth(t, a + 1) = Depth(t, a)  BY <4>1, <3>1, Lifts
          <5> HIDE DEF v
          <5> QED  BY <5>1, <5>2, <3>0 DEF Round
        <4>2. ASSUME NEW open \in Opening, NEW close \in Closing, Peek(t, a) = open,
                     v = Within(t, Skip(t), a, close)
              PROVE  v # 0 => Round(t, a, v)
          <5>1. a <= Len(t)
            <6>1. Peek(t, a) # "nothing"  BY <4>2 DEF Opening
            <6> QED  BY <6>1, <3>0, PeekFacts
          <5> QED  BY <4>2, <5>1, <3>0, <2>1, WithinRound
        <4>3. CASE Peek(t, a) = "lbrace"
          <5>1. v = Within(t, Skip(t), a, "rbrace")  BY <4>3, SkipParts
          <5> HIDE DEF v
          <5> QED  BY <4>2, <4>3, <5>1 DEF Opening, Closing
        <4>4. CASE Peek(t, a) = "lbracket"
          <5>1. v = Within(t, Skip(t), a, "rbracket")  BY <4>4, SkipParts
          <5> HIDE DEF v
          <5> QED  BY <4>2, <4>4, <5>1 DEF Opening, Closing
        <4>5. CASE Peek(t, a) \notin Scalars \cup {"lbrace", "lbracket"}
          BY <4>5, SkipParts
        <4> QED  BY <4>1, <4>3, <4>4, <4>5
      (* What follows an element or the value of a member.                     *)
      <3>3. ASSUME NEW close \in Closing, NEW b \in Nat, Round(t, a, b),
                   Onward(t, Skip(t), b, close) # 0
            PROVE  Leaves(t, a, Onward(t, Skip(t), b, close))
        <4>1. a < b /\ b \in Nat \ {0}  BY <3>0, <3>3 DEF Round
        <4>2. \A q \in 0..Len(t) + 1 : b < q =>
                 (Skip(t)[q][close] # 0 => Leaves(t, q, Skip(t)[q][close]))
          BY <2>1, <4>1
        <4>3. Leaves(t, b, Onward(t, Skip(t), b, close))  BY <4>1, <4>2, <3>3, OnwardLeaves
        <4> QED  BY <3>0, <3>3, <4>3, ThenLeaves
      <3>4. \A close \in Closing : Onward(t, Skip(t), 0, close) = 0
        BY NothingAtZero, Literals DEF Closing
      <3>5. Skip(t)[a]["rbracket"] # 0 => Leaves(t, a, Skip(t)[a]["rbracket"])
        <4>1. Skip(t)[a]["rbracket"] = Onward(t, Skip(t), v, "rbracket")  BY SkipParts
        <4>2. v \in Nat  BY SkipFacts DEF Advancing, Behind, Walks
        <4> HIDE DEF v
        <4> QED  BY <3>2, <3>3, <3>4, <4>1, <4>2 DEF Closing
      <3>6. Skip(t)[a]["rbrace"] # 0 => Leaves(t, a, Skip(t)[a]["rbrace"])
        <4>1. CASE AfterKey(t, a) = 0  BY <4>1, <3>4, SkipParts DEF Closing
        <4>2. CASE AfterKey(t, a) # 0
          <5> DEFINE w == Skip(t)[a + 2]["value"]
          <5>1. /\ AfterKey(t, a) = a + 2 /\ a + 2 \in 0..Len(t) + 1
                /\ Peek(t, a) \in Strings /\ Peek(t, a + 1) = "colon"
            BY <4>2, AfterKeyBound
          <5>2. Skip(t)[a]["rbrace"] = Onward(t, Skip(t), w, "rbrace")
            BY <4>2, <5>1, SkipParts
          <5>3. w \in Nat  BY <5>1, SkipFacts DEF Advancing, Behind, Walks
          <5>4. w # 0 => Round(t, a + 2, w)
            <6>1. Weighed(t, a + 2)  BY <2>0, <5>1
            <6> QED  BY <6>1 DEF Weighed
          <5>5. Depth(t, a + 1) = Depth(t, a) /\ Depth(t, a + 2) = Depth(t, a)
            <6>1. Lift(Peek(t, a)) = 0 /\ Lift(Peek(t, a + 1)) = 0  BY <5>1, Lifts DEF Scalars
            <6> QED  BY ONLY <6>1, <3>1
          <5> HIDE DEF w
          <5>6. CASE w = 0  BY <5>2, <5>6, <3>4 DEF Closing
          <5>7. CASE w # 0
            <6>1. w \in Nat /\ a + 2 < w /\ Depth(t, w) = Depth(t, a)
              BY <5>3, <5>4, <5>5, <5>7 DEF Round
            <6>2. "rbrace" \in Closing /\ w \in Nat \ {0} /\ a < w  BY <6>1 DEF Closing
            <6>3. \A q \in 0..Len(t) + 1 : w < q =>
                     (Skip(t)[q]["rbrace"] # 0 => Leaves(t, q, Skip(t)[q]["rbrace"]))
              BY <2>1, <6>2
            <6>4. Skip(t)[a]["rbrace"] # 0 => Leaves(t, w, Skip(t)[a]["rbrace"])
              BY <5>2, <6>2, <6>3, OnwardLeaves
            <6>5. ASSUME NEW q \in Nat, a <= q, q < w  PROVE Depth(t, q) >= Depth(t, a)
              <7>1. CASE q \in {a, a + 1, a + 2}  BY <7>1, <5>5, <3>1
              <7>2. CASE q \notin {a, a + 1, a + 2}
                <8>1. a + 2 < q  BY <6>5, <7>2
                <8>2. Depth(t, q) > Depth(t, a) /\ Depth(t, q) \in Int
                  BY <5>4, <5>7, <5>5, <6>5, <8>1, DepthStep DEF Round
                <8> QED  BY ONLY <8>2, <3>1
              <7> QED  BY <7>1, <7>2
            <6> DEFINE e == Skip(t)[a]["rbrace"]
            <6>6. e # 0 => Leaves(t, w, e)  BY <6>4
            <6> HIDE DEF e
            <6>7. e # 0 => Leaves(t, a, e)
              <7>0. SUFFICES ASSUME e # 0 PROVE Leaves(t, a, e)  OBVIOUS
              <7>1. e \in Nat /\ w < e /\ Depth(t, e) = Depth(t, a) - 1
                BY ONLY <7>0, <6>1, <6>6 DEF Leaves
              <7>2. ASSUME NEW q \in Nat, a <= q, q < e  PROVE Depth(t, q) >= Depth(t, a)
                BY ONLY <7>0, <6>1, <6>5, <6>6, <7>2 DEF Leaves
              <7> QED  BY ONLY <7>1, <7>2, <6>1, <6>2, <3>0 DEF Leaves
            <6> QED  BY <6>7 DEF e
          <5> QED  BY <5>6, <5>7
        <4> QED  BY <4>1, <4>2
      <3>7. Weighed(t, a)  BY <3>2, <3>5, <3>6 DEF Weighed, Closing
      <3> QED  BY <3>7 DEF S
    <2> QED  BY <2>2, <2>3
  <1>2. 0..Len(t) + 1 \subseteq S
    <2> HIDE DEF S
    <2>1. Len(t) + 1 \in Nat  OBVIOUS
    <2> QED  BY <1>1, <2>1, InductBack
  <1> QED  BY <1>2

LEMMA ValueRound ==
    ASSUME NEW t, Len(t) \in Nat, NEW p \in Nat, p <= Len(t) + 1, SkipValue(t, p) # 0
    PROVE  Round(t, p, SkipValue(t, p))
  BY SkipWeighed DEF Weighed, SkipValue

(* There is one first time.                                                  *)
LEMMA OneRound ==
    ASSUME NEW t, NEW p \in Nat, NEW a, NEW b, Round(t, p, a), Round(t, p, b)
    PROVE  a = b
  <1>1. a \in Nat /\ b \in Nat  BY DEF Round
  <1>2. ~(a < b) /\ ~(b < a)
    <2>1. Depth(t, p) = Depth(t, a) /\ Depth(t, p) = Depth(t, b)  BY DEF Round
    <2>2. a < b => Depth(t, a) > Depth(t, p)  BY <1>1 DEF Round
    <2>3. b < a => Depth(t, b) > Depth(t, p)  BY <1>1 DEF Round
    <2>4. Depth(t, a) \in Int  BY <1>1, DepthStep DEF Round
    <2> QED  BY ONLY <2>1, <2>2, <2>3, <2>4
  <1> QED  BY ONLY <1>1, <1>2

-----------------------------------------------------------------------------
(* A reply that misses a token *)

(* t is u without its m-th token.                                            *)
Slipped(t, u, m) ==
    /\ u \in Seq(Tokens) /\ Len(u) \in Nat /\ m \in 1..Len(u)
    /\ t \in Seq(Tokens) /\ Len(t) \in Nat /\ Len(t) = Len(u) - 1
    /\ \A p \in Int : Peek(t, p) = Peek(u, IF p < m THEN p ELSE p + 1)

LEMMA WithoutSlipped ==
    ASSUME NEW u \in Seq(Tokens), NEW m \in 1..Len(u)
    PROVE  Slipped(Without(u, m), u, m)
  <1> DEFINE a == Cut(u, m - 1)
             b == SubSeq(u, m + 1, Len(u))
             t == Without(u, m)
  <1>0. Len(u) \in Nat  BY LenProperties
  <1>1. a \in Seq(Tokens) /\ Len(a) = m - 1 /\ \A q \in 1..(m - 1) : a[q] = u[q]
    <2>1. m - 1 \in 0..Len(u)  BY <1>0
    <2> QED  BY <2>1, CutText
  <1>2. b \in Seq(Tokens) /\ Len(b) = Len(u) - m /\ \A q \in 1..(Len(u) - m) : b[q] = u[m + q]
    <2>1. m + 1 \in Int /\ Len(u) \in Int  BY <1>0
    <2>2. \A i \in (m + 1)..Len(u) : i \in 1..Len(u)  BY <1>0
    <2>3. Len(b) = IF m + 1 <= Len(u) THEN Len(u) - (m + 1) + 1 ELSE 0
      BY <2>1, <2>2, SubSeqProperties
    <2>4. \A i \in 1..(Len(u) - (m + 1) + 1) : b[i] = u[m + 1 + i - 1]
      BY <2>1, <2>2, SubSeqProperties
    <2>5. b \in Seq(Tokens)  BY <2>1, <2>2, SubSeqProperties
    <2>6. Len(u) - (m + 1) + 1 = Len(u) - m  BY <1>0
    <2>7. \A q \in Int : m + 1 + q - 1 = m + q  BY <1>0
    <2> HIDE DEF b
    <2>8. Len(b) = Len(u) - m  BY <2>3, <1>0
    <2> QED  BY <2>4, <2>5, <2>6, <2>7, <2>8
  <1>3. t = a \o b  BY DEF Without, Cut
  <1> HIDE DEF a, b, t
  <1>4. /\ t \in Seq(Tokens) /\ Len(t) = Len(a) + Len(b)
        /\ \A i \in 1..Len(a) + Len(b) : t[i] = IF i <= Len(a) THEN a[i] ELSE b[i - Len(a)]
    BY <1>1, <1>2, <1>3, ConcatProperties
  <1>5. Len(t) = Len(u) - 1  BY <1>0, <1>1, <1>2, <1>4
  <1>6. ASSUME NEW p \in Int  PROVE Peek(t, p) = Peek(u, IF p < m THEN p ELSE p + 1)
    <2>1. CASE p \in 1..Len(t)
      <3>1. t[p] = IF p <= m - 1 THEN a[p] ELSE b[p - (m - 1)]
        BY <2>1, <1>0, <1>1, <1>2, <1>4, <1>5
      <3>2. CASE p < m
        <4>1. p \in 1..(m - 1) /\ p \in 1..Len(u)  BY <2>1, <3>2, <1>0
        <4> QED  BY <2>1, <3>1, <3>2, <4>1, <1>1 DEF Peek
      <3>3. CASE ~(p < m)
        <4>1. p - (m - 1) \in 1..(Len(u) - m) /\ p + 1 \in 1..Len(u) /\ m + (p - (m - 1)) = p + 1
          BY <2>1, <3>3, <1>0, <1>5
        <4>2. b[p - (m - 1)] = u[p + 1]  BY <4>1, <1>2
        <4>3. t[p] = u[p + 1]  BY <3>1, <3>3, <4>2, <1>0
        <4> QED  BY ONLY <2>1, <3>3, <4>1, <4>3 DEF Peek
      <3> QED  BY <3>2, <3>3
    <2>2. CASE p \notin 1..Len(t)
      <3>1. (IF p < m THEN p ELSE p + 1) \notin 1..Len(u)  BY <2>2, <1>0, <1>5
      <3> QED  BY ONLY <2>2, <3>1 DEF Peek
    <2> QED  BY <2>1, <2>2
  <1>7. Len(t) \in Nat  BY <1>4, LenProperties
  <1> QED  BY <1>0, <1>4, <1>5, <1>6, <1>7 DEF Slipped, t

(* The depths of the two texts differ by the missing token.                  *)
LEMMA DepthSlipped ==
    ASSUME NEW t, NEW u, NEW m, Slipped(t, u, m), NEW p \in Nat \ {0}
    PROVE  /\ p <= m => Depth(t, p) = Depth(u, p)
           /\ m <= p => Depth(t, p) = Depth(u, p + 1) - Lift(Peek(u, m))
  <1>0. m \in Nat \ {0} /\ \A q \in Int : Peek(t, q) = Peek(u, IF q < m THEN q ELSE q + 1)
    BY DEF Slipped
  <1>1. ASSUME NEW q \in Nat \ {0}, q <= m  PROVE Depth(t, q) = Depth(u, q)
    <2>1. \A kind : Before(t, q, kind) = Before(u, q, kind)
      BY <1>0, <1>1 DEF Before
    <2> QED  BY <2>1 DEF Depth
  <1> DEFINE S == {n \in Nat : Depth(t, m + n) = Depth(u, m + n + 1) - Lift(Peek(u, m))}
  <1>2. 0 \in S
    <2>1. Depth(t, m) = Depth(u, m)  BY <1>0, <1>1
    <2>2. Depth(u, m + 1) = Depth(u, m) + Lift(Peek(u, m)) /\ Depth(u, m) \in Int
      BY <1>0, DepthStep
    <2>3. Lift(Peek(u, m)) \in Int  BY Lifts
    <2>4. m + 0 = m /\ m + 0 + 1 = m + 1  BY <1>0
    <2>5. Depth(t, m) = Depth(u, m + 1) - Lift(Peek(u, m))  BY ONLY <2>1, <2>2, <2>3
    <2> QED  BY <2>4, <2>5
  <1>3. ASSUME NEW n \in Nat, n \in S  PROVE n + 1 \in S
    <2>1. m + n \in Nat \ {0} /\ m + n + 1 \in Nat \ {0} /\ m + (n + 1) = m + n + 1
      BY <1>0
    <2>2. Depth(t, m + n + 1) = Depth(t, m + n) + Lift(Peek(t, m + n)) /\ Depth(t, m + n) \in Int
      BY <2>1, DepthStep
    <2>3. /\ Depth(u, m + n + 1 + 1) = Depth(u, m + n + 1) + Lift(Peek(u, m + n + 1))
          /\ Depth(u, m + n + 1) \in Int
      BY <2>1, DepthStep
    <2>4. Peek(t, m + n) = Peek(u, m + n + 1)  BY <1>0
    <2>5. Depth(t, m + n) = Depth(u, m + n + 1) - Lift(Peek(u, m))  BY <1>3
    <2>6. Lift(Peek(u, m)) \in Int /\ Lift(Peek(u, m + n + 1)) \in Int  BY Lifts
    <2>7. Depth(t, m + n + 1) = Depth(u, m + n + 1 + 1) - Lift(Peek(u, m))
      BY ONLY <2>2, <2>3, <2>4, <2>5, <2>6
    <2> QED  BY <2>1, <2>7
  <1>4. Nat \subseteq S  BY <1>2, <1>3, Induct
  <1>5. ASSUME m <= p  PROVE Depth(t, p) = Depth(u, p + 1) - Lift(Peek(u, m))
    <2>1. p - m \in Nat /\ m + (p - m) = p /\ m + (p - m) + 1 = p + 1  BY <1>0, <1>5
    <2>2. p - m \in S  BY <1>4, <2>1
    <2> QED  BY <2>1, <2>2
  <1> QED  BY <1>1, <1>5

(* What a walk over such a text has read is alike what the daemon meant: as  *)
(* many rows and cells, under their columns, and the values that are one     *)
(* token.                                                                    *)
AlikeCell(r, k, j, cell) ==
    /\ cell.column = Numbers[r.rows[k][j].column]
    /\ Len(r.rows[k][j].value) = 1 => cell = MeantRow(r, k)[j]
AlikeCells(r, k, line) == \A j \in 1..Len(line) : AlikeCell(r, k, j, line[j])
AlikeRow(r, k, line) == Len(line) = Len(r.rows[k]) /\ AlikeCells(r, k, line)
AlikeRows(r, read) == \A i \in 1..Len(read) : AlikeRow(r, i, read[i])

Complete(c, r, read) ==
    IF c = "query" THEN AlikeRows(r, read) /\ Len(read) = Len(r.rows) ELSE read = r.names

(* The walk stands where the reply has position p.                           *)
StandsInRow(r, k, place, p, line) ==
    \/ /\ place = "row"
       /\ \/ p = RowAt(r, k) + 1 /\ line = << >>
          \/ r.rowId = "first" /\ p = RowAt(r, k) + 5 /\ line = << >>
          \/ r.rowId = "last" /\ p = CellsTo(r, k) + 2 /\ AlikeRow(r, k, line)
    \/ /\ place = "cells"
       /\ Len(line) < Len(r.rows[k]) /\ AlikeCells(r, k, line)
       /\ p = CellAt(CellsFrom(r, k), r.rows[k], Len(line) + 1)
    \/ /\ place = "memberEnd"
       /\ \/ r.rowId = "first" /\ p = RowAt(r, k) + 4 /\ line = << >>
          \/ p = CellsTo(r, k) + 1 /\ AlikeRow(r, k, line)
          \/ r.rowId = "last" /\ p = CellsTo(r, k) + 5 /\ AlikeRow(r, k, line)
    \/ place = "rowEnd" /\ p = RowEndAt(r, k) /\ AlikeRow(r, k, line)

StandsIn(c, r, place, p, line, read) ==
    /\ c = "query" /\ AlikeRows(r, read) /\ Len(read) < Len(r.rows)
    /\ \/ place = "rows" /\ p = RowAt(r, Len(read) + 1)
       \/ StandsInRow(r, Len(read) + 1, place, p, line)

(* It has not come to the rows, or reads names.                              *)
StandsBefore(c, r, place, p, read) ==
    \/ place = "members" /\ c = "query" /\ (p = 2 \/ (r.first /\ p = 6))
    \/ /\ place = "names" /\ c = "table_names"
       /\ ReadNames(r, read) /\ Len(read) < Len(r.names) /\ p = NameAt(r, Len(read) + 1)

(* It stands in the middle of a value that lost its opening bracket, one     *)
(* deeper than the cell.                                                     *)
InCell(u, r, k, j, p) ==
    LET value == CellAt(CellsFrom(r, k), r.rows[k], j) + 2
    IN  /\ value < p /\ p < CellEnd(CellsFrom(r, k), r.rows[k], j)
        /\ Depth(u, p) = Depth(u, value) + 1
Loose(u, r, p) ==
    /\ u = RenderQuery(r)
    /\ \E k \in 1..Len(r.rows) : \E j \in 1..Len(r.rows[k]) : InCell(u, r, k, j, p)

(* It has lost its way, and cannot come to the end of the rows or names.     *)
Lost(t, u, r, place, p, m) ==
    \/ place \in {"members", "row"} /\ AfterKey(t, p) = 0
    \/ place = "rows" /\ Peek(t, p) # "lbrace"
    \/ place = "cells" /\ Peek(t, p) \notin DOMAIN Numbers
    \/ place = "cells" /\ m <= p /\ Loose(u, r, p + 1)
    \/ place = "memberEnd" /\ Peek(t, p) \notin {"comma", "rbrace"}
    \/ place = "memberEnd" /\ Peek(t, p) = "comma" /\ AfterKey(t, p + 1) = 0
    \/ place = "names" /\ Peek(t, p) \notin Strings

(* Before the missing token, behind it, or lost.                             *)
Placed(c, r, t, place, p, line, read, m) ==
    \/ p <= m /\ (StandsBefore(c, r, place, p, read) \/ StandsIn(c, r, place, p, line, read))
    \/ m <= p /\ StandsIn(c, r, place, p + 1, line, read)
    \/ Lost(t, Rendered(c, r), r, place, p, m)

Slid(m) ==
    /\ at \in Loops => Placed(call, sent, text, at, pos, row, result, m)
    /\ outcome = "returned" => result = << >> \/ Complete(call, sent, result)

(* The ways a turn may end.                                                  *)
GoesAlong(m) == /\ at' \in Loops /\ outcome' = outcome
              /\ Placed(call, sent, text, at', pos', row', result', m)
Throws == at' = "done" /\ outcome' = "thrown"
GivesBack == /\ at' = "done" /\ outcome' = "returned"
             /\ result' = << >> \/ Complete(call, sent, result')

LEMMA SlidOn ==
    ASSUME Walking, at # "done", NEW m, UNCHANGED <<call, sent, text>>,
           GoesAlong(m) \/ Throws \/ GivesBack
    PROVE  Slid(m)'
  <1>1. outcome = "none"  BY DEF Walking
  <1>2. CASE GoesAlong(m)
    BY ONLY <1>1, <1>2, UNCHANGED <<call, sent, text>> DEF GoesAlong, Slid
  <1>3. CASE Throws
    BY ONLY <1>3 DEF Throws, Slid, Loops, InArray
  <1>4. CASE GivesBack
    BY ONLY <1>4, UNCHANGED <<call, sent, text>> DEF GivesBack, Slid, Loops, InArray
  <1> QED  BY <1>2, <1>3, <1>4

(* What is read at p when d tokens are missing before it.                    *)
LEMMA SlippedPeek ==
    ASSUME NEW t, NEW u, NEW m, Slipped(t, u, m), NEW p \in Int
    PROVE  /\ p < m => Peek(t, p) = Peek(u, p)
           /\ m <= p => Peek(t, p) = Peek(u, p + 1)
  BY DEF Slipped

(* A value that lies behind the missing token, or before it.                 *)
LEMMA RoundBehind ==
    ASSUME NEW t, NEW u, NEW m, Slipped(t, u, m), NEW p \in Nat, m <= p, NEW e,
           Round(u, p + 1, e), p <= Len(t) + 1, SkipValue(t, p) # 0
    PROVE  SkipValue(t, p) = e - 1
  <1>0. m \in Nat \ {0} /\ Len(t) \in Nat /\ p \in Nat \ {0} /\ e \in Nat /\ p + 1 < e
    BY DEF Slipped, Round
  <1> DEFINE l == Lift(Peek(u, m))
  <1>1. l \in Int  BY Lifts
  <1>2. \A q \in Nat : m <= q => /\ Depth(t, q) = Depth(u, q + 1) - l
                                 /\ Depth(u, q + 1) \in Int
    <2>1. ASSUME NEW q \in Nat, m <= q
          PROVE  Depth(t, q) = Depth(u, q + 1) - l /\ Depth(u, q + 1) \in Int
      <3>1. q \in Nat \ {0} /\ q + 1 \in Nat \ {0}  BY <1>0, <2>1
      <3> QED  BY <3>1, <2>1, DepthSlipped, DepthStep
    <2> QED  BY <2>1
  <1> HIDE DEF l
  <1>3. Depth(t, p) = Depth(u, p + 1) - l  BY <1>2
  <1>4. Depth(t, e - 1) = Depth(t, p)
    <2>1. e - 1 \in Nat /\ m <= e - 1 /\ (e - 1) + 1 = e  BY <1>0
    <2> QED  BY <2>1, <1>2, <1>3 DEF Round
  <1>5. ASSUME NEW q \in Nat, p < q, q < e - 1  PROVE Depth(t, q) > Depth(t, p)
    <2>1. q + 1 \in Nat /\ p + 1 < q + 1 /\ q + 1 < e /\ m <= q  BY <1>0, <1>5
    <2>2. Depth(u, q + 1) > Depth(u, p + 1)  BY <2>1 DEF Round
    <2>3. Depth(u, q + 1) \in Int /\ Depth(u, p + 1) \in Int  BY <2>1, <1>2
    <2>4. Depth(t, q) = Depth(u, q + 1) - l  BY <2>1, <1>2
    <2> QED  BY ONLY <2>2, <2>3, <2>4, <1>1, <1>3
  <1>6. Round(t, p, e - 1)
    <2>1. e - 1 \in Nat /\ p < e - 1  BY <1>0
    <2> QED  BY ONLY <2>1, <1>4, <1>5 DEF Round
  <1>7. Round(t, p, SkipValue(t, p))  BY <1>0, ValueRound
  <1> QED  BY <1>6, <1>7, OneRound

LEMMA RoundBefore ==
    ASSUME NEW t, NEW u, NEW m, Slipped(t, u, m), NEW p \in Nat \ {0}, NEW e, e <= m,
           Round(u, p, e), p <= Len(t) + 1, SkipValue(t, p) # 0
    PROVE  SkipValue(t, p) = e
  <1>0. m \in Nat \ {0} /\ Len(t) \in Nat /\ e \in Nat /\ p < e
    BY DEF Slipped, Round
  <1>2. \A q \in Nat : p <= q /\ q <= e => Depth(t, q) = Depth(u, q)
    BY <1>0, DepthSlipped
  <1>6. Round(t, p, e)
    <2>1. Depth(t, e) = Depth(t, p)  BY <1>0, <1>2 DEF Round
    <2>2. \A q \in Nat : p < q /\ q < e => Depth(t, q) > Depth(t, p)
      BY <1>0, <1>2 DEF Round
    <2> QED  BY ONLY <2>1, <2>2, <1>0 DEF Round
  <1>7. Round(t, p, SkipValue(t, p))  BY <1>0, ValueRound
  <1> QED  BY <1>6, <1>7, OneRound

(* A value that misses a token within: what skip_value makes of it depends   *)
(* on whether the token was a bracket, and of which kind.                    *)
LEMMA RoundAcross ==
    ASSUME NEW t, NEW u, NEW m, Slipped(t, u, m), NEW p \in Nat \ {0}, p <= m, NEW e, m < e,
           p + 1 < e, Round(u, p, e), SkipValue(t, p) # 0, p <= Len(t) + 1
    PROVE  LET after == SkipValue(t, p) IN
           /\ Lift(Peek(u, m)) = 0 => (p < m /\ after = e - 1) \/ p = m
           /\ Lift(Peek(u, m)) = 1 => /\ m <= after /\ p < after /\ after + 1 < e
                                      /\ Depth(u, after + 1) = Depth(u, p) + 1
  <1>0. m \in Nat \ {0} /\ Len(t) \in Nat /\ e \in Nat
    BY DEF Slipped, Round
  <1> DEFINE after == SkipValue(t, p)
             l == Lift(Peek(u, m))
  <1>1. l \in Int  BY Lifts
  <1>2. \A q \in Nat \ {0} :
           /\ Depth(u, q) \in Int
           /\ q <= m => Depth(t, q) = Depth(u, q)
           /\ m <= q => Depth(t, q) = Depth(u, q + 1) - l
    <2>1. ASSUME NEW q \in Nat \ {0}
          PROVE  /\ Depth(u, q) \in Int
                 /\ q <= m => Depth(t, q) = Depth(u, q)
                 /\ m <= q => Depth(t, q) = Depth(u, q + 1) - l
      <3>1. Depth(u, q) \in Int  BY DepthStep
      <3>2. q <= m => Depth(t, q) = Depth(u, q)  BY DepthSlipped
      <3>3. m <= q => Depth(t, q) = Depth(u, q + 1) - l  BY DepthSlipped
      <3> QED  BY <3>1, <3>2, <3>3
    <2> QED  BY <2>1
  <1>3. Round(t, p, after)  BY <1>0, ValueRound
  <1> HIDE DEF l, after
  <1>4. /\ Depth(t, p) = Depth(u, p) /\ Depth(u, e) = Depth(u, p) /\ Depth(u, p) \in Int
        /\ after \in Nat /\ p < after /\ Depth(t, after) = Depth(u, p)
    BY <1>2, <1>3 DEF Round
  <1>5. \A q \in Nat : p < q /\ q < e => Depth(u, q) > Depth(u, p)
    BY DEF Round
  <1>6. \A q \in Nat : p < q /\ q < after => Depth(t, q) > Depth(u, p)
    BY <1>3, <1>4 DEF Round
  <1>7. ASSUME l = 0, p < m  PROVE after = e - 1
    <2>1. e - 1 \in Nat \ {0} /\ m <= e - 1 /\ (e - 1) + 1 = e /\ p < e - 1  BY <1>0, <1>7
    <2>2. Depth(t, e - 1) = Depth(t, p)
      <3>1. Depth(t, e - 1) = Depth(u, (e - 1) + 1) - l  BY ONLY <2>1, <1>2
      <3> QED  BY ONLY <3>1, <2>1, <1>4, <1>7
    <2>3. ASSUME NEW q \in Nat, p < q, q < e - 1  PROVE Depth(t, q) > Depth(t, p)
      <3>1. q \in Nat \ {0} /\ q + 1 \in Nat \ {0} /\ q < e /\ p < q + 1 /\ q + 1 < e
        BY <2>3, <1>0
      <3>2. Depth(u, q) > Depth(u, p) /\ Depth(u, q + 1) > Depth(u, p)  BY <3>1, <1>5, <2>3
      <3>3. q <= m => Depth(t, q) = Depth(u, q)  BY <3>1, <1>2
      <3>4. m <= q => Depth(t, q) = Depth(u, q + 1) - l  BY <3>1, <1>2
      <3>5. Depth(u, q) \in Int /\ Depth(u, q + 1) \in Int  BY <3>1, <1>2
      <3> QED  BY ONLY <3>2, <3>3, <3>4, <3>5, <1>0, <1>4, <1>7
    <2>4. Round(t, p, e - 1)  BY ONLY <2>1, <2>2, <2>3 DEF Round
    <2> QED  BY <2>4, <1>3, OneRound
  <1>8. ASSUME l = 1  PROVE m <= after /\ after + 1 < e /\ Depth(u, after + 1) = Depth(u, p) + 1
    <2>1. m <= after
      <3>1. ASSUME after < m  PROVE FALSE
        <4>1. after \in Nat \ {0} /\ after < e /\ after <= m  BY <3>1, <1>0, <1>4
        <4>2. Depth(t, after) = Depth(u, after) /\ Depth(u, after) \in Int  BY <4>1, <1>2
        <4>3. Depth(u, after) > Depth(u, p)  BY <4>1, <1>4, <1>5
        <4> QED  BY ONLY <4>2, <4>3, <1>4
      <3> QED  BY <3>1, <1>0, <1>4
    <2>2. after \in Nat \ {0} /\ after + 1 \in Nat \ {0}  BY <1>4
    <2>3. Depth(t, after) = Depth(u, after + 1) - l /\ Depth(u, after + 1) \in Int
      BY <2>1, <2>2, <1>2
    <2>4. Depth(u, after + 1) = Depth(u, p) + 1  BY ONLY <2>3, <1>4, <1>8
    <2>5. ASSUME ~(after + 1 < e)  PROVE FALSE
      <3>1. e - 1 \in Nat \ {0} /\ m <= e - 1 /\ (e - 1) + 1 = e /\ p < e - 1 /\ e - 1 <= after
        BY <2>5, <2>2, <1>0
      <3>2. Depth(t, e - 1) = Depth(u, (e - 1) + 1) - l  BY ONLY <3>1, <1>2
      <3>3. Depth(t, e - 1) = Depth(u, p) - 1  BY ONLY <3>1, <3>2, <1>4, <1>8
      <3>4. e - 1 < after => Depth(t, e - 1) > Depth(u, p)  BY <3>1, <1>6
      <3>5. e - 1 = after => Depth(t, e - 1) = Depth(u, p)  BY <1>4
      <3> QED  BY ONLY <3>1, <3>3, <3>4, <3>5, <1>0, <1>4, <2>2
    <2> QED  BY ONLY <2>1, <2>2, <2>4, <2>5, <1>0
  <1>9. l = 0 => (p < m /\ after = e - 1) \/ p = m  BY <1>0, <1>7
  <1> QED  BY <1>4, <1>8, <1>9 DEF l, after

(* What stands around the rows of a reply, and in them.                      *)
RowTokens(u, r, k) ==
    LET p == RowAt(r, k)
        from == CellsFrom(r, k)
        to == CellsTo(r, k)
    IN  /\ p \in Nat \ {0} /\ Peek(u, p) = "lbrace"
        /\ from = p + (IF r.rowId = "first" THEN 8 ELSE 4) /\ to \in Nat /\ from <= to
        /\ Peek(u, from - 3) = "cells" /\ Peek(u, from - 2) = "colon"
        /\ Peek(u, from - 1) = "lbracket"
        /\ Peek(u, to) = "rbracket"
        /\ r.rowId = "first" => /\ Peek(u, p + 1) = "row_id" /\ Peek(u, p + 2) = "colon"
                                /\ Peek(u, p + 3) = "x" /\ Peek(u, p + 4) = "comma"
        /\ r.rowId # "last" => Peek(u, to + 1) = "rbrace" /\ RowEndAt(r, k) = to + 2
        /\ r.rowId = "last" => /\ Peek(u, to + 1) = "comma"
                               /\ Peek(u, to + 2) = "row_id" /\ Peek(u, to + 3) = "colon"
                               /\ Peek(u, to + 4) = "x" /\ Peek(u, to + 5) = "rbrace"
                               /\ RowEndAt(r, k) = to + 6
        /\ r.rowId \in {"first", "last", "none"} /\ Len(r.rows[k]) \in Nat
        /\ Len(r.rows[k]) = 0 => to = from
        /\ Len(r.rows[k]) # 0 => /\ Peek(u, from) \in DOMAIN Numbers
                                 /\ CellAt(from, r.rows[k], 1) = from
        /\ k < Len(r.rows) => /\ Peek(u, RowEndAt(r, k)) = "comma"
                              /\ RowAt(r, k + 1) = RowEndAt(r, k) + 1
                              /\ Peek(u, RowEndAt(r, k) + 1) = "lbrace"
        /\ k = Len(r.rows) => /\ Peek(u, RowEndAt(r, k)) = "rbracket"
                              /\ Peek(u, RowEndAt(r, k) + 1) \in {"rbrace", "comma"}
                              /\ Peek(u, RowEndAt(r, k) + 1) = "comma" =>
                                    Peek(u, RowEndAt(r, k) + 2) = "truncated"

LEMMA RowHolds ==
    ASSUME NEW u, Len(u) \in Nat, NEW r, IsReply(r), QueryLayout(u, r),
           NEW k \in 1..Len(r.rows)
    PROVE  RowTokens(u, r, k)
  <1> DEFINE p == RowAt(r, k)
             place == r.rowId
             c == RenderCells(r.rows[k])
             from == CellsFrom(r, k)
             to == CellsTo(r, k)
  <1>1. /\ p \in Nat \ {0} /\ RowLayout(u, p, r, k) /\ RowEndAt(r, k) \in Nat
        /\ RowEndAt(r, k) = CellsTo(r, k) + (IF place = "last" THEN 6 ELSE 2)
        /\ k < Len(r.rows) => /\ Peek(u, RowEndAt(r, k)) = "comma"
                              /\ RowAt(r, k + 1) = RowEndAt(r, k) + 1
        /\ k = Len(r.rows) => RowEndAt(r, k) = RowsTo(r)
    BY RowsStand
  <1>2. place \in {"first", "last", "none"} /\ Len(r.rows) \in Nat  BY DEF IsReply
  <1>3. IsRow(r.rows[k]) /\ Len(c) \in Nat  BY RowPart, CellPart, LenProperties DEF RowFacts
  <1>4. /\ ObjectLayout(u, p, "cells", c, place, "row_id", "x")
        /\ from = ArrayFrom(p, place) /\ to = ArrayTo(p, c, place) /\ to = from + Len(c)
    BY <1>1 DEF RowLayout, CellsFrom, CellsTo, ArrayTo
  <1>5. /\ Len(r.rows[k]) = 0 => to = from
        /\ Len(r.rows[k]) # 0 => /\ Peek(u, from) \in DOMAIN Numbers
                                 /\ CellAt(from, r.rows[k], 1) = from
    BY CellsStart
  <1>6. k < Len(r.rows) => Peek(u, RowEndAt(r, k) + 1) = "lbrace"
    <2> SUFFICES ASSUME k < Len(r.rows) PROVE Peek(u, RowAt(r, k + 1)) = "lbrace"  BY <1>1
    <2>1. k + 1 \in 1..Len(r.rows)  BY <1>2
    <2>2. RowLayout(u, RowAt(r, k + 1), r, k + 1)  BY <2>1, RowsStand
    <2> QED  BY <2>2 DEF RowLayout, ObjectLayout
  <1>7. /\ Peek(u, RowsTo(r)) = "rbracket"
        /\ Peek(u, RowsTo(r) + 1) \in {"rbrace", "comma"}
        /\ Peek(u, RowsTo(r) + 1) = "comma" => Peek(u, RowsTo(r) + 2) = "truncated"
    BY DEF QueryLayout, ObjectLayout, RowsTo, QueryPlace
  <1>8. from = p + (IF place = "first" THEN 8 ELSE 4)  BY <1>4 DEF ArrayFrom
  <1>9. Len(r.rows[k]) \in Nat  BY <1>3 DEF IsRow
  <1>10. /\ Peek(u, p) = "lbrace" /\ Peek(u, from - 3) = "cells" /\ Peek(u, from - 2) = "colon"
         /\ Peek(u, from - 1) = "lbracket" /\ Peek(u, to) = "rbracket"
         /\ place = "first" => /\ Peek(u, p + 1) = "row_id" /\ Peek(u, p + 2) = "colon"
                               /\ Peek(u, p + 3) = "x" /\ Peek(u, p + 4) = "comma"
         /\ place # "last" => Peek(u, to + 1) = "rbrace"
         /\ place = "last" => /\ Peek(u, to + 1) = "comma"
                              /\ Peek(u, to + 2) = "row_id" /\ Peek(u, to + 3) = "colon"
                              /\ Peek(u, to + 4) = "x" /\ Peek(u, to + 5) = "rbrace"
    <2> HIDE DEF p, place, c, from, to
    <2>1. ObjectLayout(u, p, "cells", c, place, "row_id", "x")  BY ONLY <1>4
    <2>2. /\ Peek(u, p) = "lbrace" /\ Peek(u, ArrayFrom(p, place) - 3) = "cells"
          /\ Peek(u, ArrayFrom(p, place) - 2) = "colon"
          /\ Peek(u, ArrayFrom(p, place) - 1) = "lbracket" /\ Peek(u, ArrayTo(p, c, place)) = "rbracket"
      BY ONLY <2>1 DEF ObjectLayout
    <2>3. place = "first" => /\ Peek(u, p + 1) = "row_id" /\ Peek(u, p + 2) = "colon"
                             /\ Peek(u, p + 3) = "x" /\ Peek(u, p + 4) = "comma"
      BY ONLY <2>1 DEF ObjectLayout
    <2>4. place # "last" => Peek(u, ArrayTo(p, c, place) + 1) = "rbrace"
      BY ONLY <2>1 DEF ObjectLayout
    <2>5. place = "last" => /\ Peek(u, ArrayTo(p, c, place) + 1) = "comma"
                            /\ Peek(u, ArrayTo(p, c, place) + 2) = "row_id"
                            /\ Peek(u, ArrayTo(p, c, place) + 3) = "colon"
                            /\ Peek(u, ArrayTo(p, c, place) + 4) = "x"
                            /\ Peek(u, ArrayTo(p, c, place) + 5) = "rbrace"
      BY ONLY <2>1 DEF ObjectLayout
    <2> QED  BY ONLY <1>4, <2>2, <2>3, <2>4, <2>5
  <1>11. to \in Nat /\ from <= to /\ from \in Nat
    <2>1. Len(c) \in Nat /\ to = from + Len(c) /\ p \in Nat  BY <1>1, <1>3, <1>4
    <2> HIDE DEF p, place, c, from, to
    <2>2. from \in Nat  BY ONLY <2>1, <1>8
    <2> QED  BY ONLY <2>1, <2>2
  <1>12. k = Len(r.rows) => /\ Peek(u, RowEndAt(r, k)) = "rbracket"
                            /\ Peek(u, RowEndAt(r, k) + 1) \in {"rbrace", "comma"}
                            /\ Peek(u, RowEndAt(r, k) + 1) = "comma" =>
                                  Peek(u, RowEndAt(r, k) + 2) = "truncated"
    BY ONLY <1>1, <1>7
  <1>13. /\ place # "last" => RowEndAt(r, k) = to + 2
         /\ place = "last" => RowEndAt(r, k) = to + 6
    BY ONLY <1>1
  <1> HIDE DEF c
  <1> QED  BY ONLY <1>1, <1>2, <1>5, <1>6, <1>8, <1>9, <1>10, <1>11, <1>12, <1>13 DEF RowTokens

(* What stands in a cell, and behind it.                                     *)
CellTokens(u, r, k, j) ==
    LET p == CellAt(CellsFrom(r, k), r.rows[k], j)
        e == CellEnd(CellsFrom(r, k), r.rows[k], j)
    IN  /\ p \in Nat \ {0} /\ e \in Nat /\ p + 3 <= e
        /\ Peek(u, p) = r.rows[k][j].column /\ Peek(u, p) \in DOMAIN Numbers
        /\ Peek(u, p + 1) = "comma" /\ Peek(u, p + 2) \in Scalars \cup Opening
        /\ Peek(u, p + 2) \in Scalars => e = p + 3
        /\ Len(r.rows[k][j].value) = e - (p + 2)
        /\ e = p + 3 => r.rows[k][j].value = <<Peek(u, p + 2)>>
        /\ Round(u, p + 2, e)
        /\ Len(r.rows[k]) \in Nat
        /\ j < Len(r.rows[k]) => /\ Peek(u, e) = "comma"
                                 /\ CellAt(CellsFrom(r, k), r.rows[k], j + 1) = e + 1
                                 /\ Peek(u, e + 1) \in DOMAIN Numbers
        /\ j = Len(r.rows[k]) => e = CellsTo(r, k) /\ Peek(u, e) = "rbracket"

LEMMA CellHolds ==
    ASSUME NEW u, Len(u) \in Nat, NEW r, IsReply(r), QueryLayout(u, r),
           NEW k \in 1..Len(r.rows), NEW j \in 1..Len(r.rows[k])
    PROVE  CellTokens(u, r, k, j)
  <1> DEFINE cells == r.rows[k]
             from == CellsFrom(r, k)
             p == CellAt(from, cells, j)
             e == CellEnd(from, cells, j)
             v == cells[j].value
  <1>1. /\ IsRow(cells) /\ from \in Nat \ {0} /\ CellsTo(r, k) = from + Len(RenderCells(cells))
        /\ Has(u, from, RenderCells(cells))
    BY CellsStart
  <1>2. \A i \in 1..Len(cells) :
           /\ CellAt(from, cells, i) \in Nat \ {0}
           /\ Peek(u, CellAt(from, cells, i)) = cells[i].column
           /\ Peek(u, CellAt(from, cells, i) + 1) = "comma"
           /\ Has(u, CellAt(from, cells, i) + 2, cells[i].value)
           /\ SkipValue(u, CellAt(from, cells, i) + 2) = CellEnd(from, cells, i)
           /\ CellEnd(from, cells, i) \in Nat
           /\ i < Len(cells) => /\ Peek(u, CellEnd(from, cells, i)) = "comma"
                                /\ CellAt(from, cells, i + 1) = CellEnd(from, cells, i) + 1
           /\ i = Len(cells) => CellEnd(from, cells, i) = from + Len(RenderCells(cells))
    <2> HIDE DEF from, cells
    <2> QED  BY <1>1, CellLayout
  <1>3. Len(cells) \in Nat /\ j \in 1..Len(cells) /\ IsCell(cells[j])  BY <1>1 DEF IsRow
  <1>4. v \in Seq(Tokens) /\ Len(v) \in Nat /\ SkipValue(v, 1) = Len(v) + 1
    BY <1>3, LenProperties DEF IsCell, IsJson
  <1>5. e = p + 2 + Len(v)  BY DEF CellEnd
  <1>6. /\ p \in Nat \ {0} /\ Peek(u, p) = cells[j].column /\ Peek(u, p + 1) = "comma"
        /\ Has(u, p + 2, v) /\ SkipValue(u, p + 2) = e /\ e \in Nat
        /\ j < Len(cells) => Peek(u, e) = "comma" /\ CellAt(from, cells, j + 1) = e + 1
        /\ j = Len(cells) => e = from + Len(RenderCells(cells))
    BY <1>2, <1>3
  <1>7. Peek(u, p) \in DOMAIN Numbers  BY <1>3, <1>6 DEF IsCell
  <1>8. j < Len(cells) => Peek(u, e + 1) \in DOMAIN Numbers
    <2> SUFFICES ASSUME j < Len(cells) PROVE Peek(u, e + 1) \in DOMAIN Numbers  OBVIOUS
    <2>1. j + 1 \in 1..Len(cells)  BY <1>3
    <2>2. Peek(u, e + 1) = cells[j + 1].column  BY <2>1, <1>2, <1>6
    <2>3. IsCell(cells[j + 1])  BY <2>1, <1>1 DEF IsRow
    <2> QED  BY <2>2, <2>3 DEF IsCell
  <1>9. j = Len(cells) => e = CellsTo(r, k) /\ Peek(u, e) = "rbracket"
    <2>1. Peek(u, CellsTo(r, k)) = "rbracket"  BY RowHolds DEF RowTokens
    <2> QED  BY <2>1, <1>1, <1>6
  <1> HIDE DEF p, e, v, cells, from
  <1>10. p + 2 \in Nat /\ p + 2 # 0 /\ e # 0 /\ p + 2 <= Len(u)
    <2>1. p + 2 <= Len(u) + 1
      <3>1. p + 1 \in 1..Len(u)
        <4>1. p + 1 \in Int /\ Peek(u, p + 1) # "nothing"  BY <1>6
        <4> QED  BY <4>1, PeekFacts
      <3> QED  BY <3>1, <1>6
    <2>2. e # 0 /\ p + 2 \in Nat  BY <1>4, <1>5, <1>6
    <2>3. p + 2 \in 0..Len(u) + 1  BY <2>1, <2>2
    <2>4. Behind(u, p + 2, e)  BY <1>6, <2>3, SkipValueBound
    <2> QED  BY <2>1, <2>2, <2>4, <1>6 DEF Behind
  <1>11. Round(u, p + 2, e)  BY <1>6, <1>10, ValueRound
  <1>12. p + 3 <= e
    <2>1. p + 2 < e  BY <1>11 DEF Round
    <2> QED  BY <2>1, <1>6
  <1>13. Peek(u, p + 2) \in Scalars \cup Opening
    <2>1. p + 2 \in 0..Len(u) + 1  BY <1>10
    <2>2. Peek(u, p + 2) \notin Scalars \cup {"lbrace", "lbracket"} => SkipValue(u, p + 2) = 0
      BY <2>1, SkipParts DEF SkipValue
    <2> QED  BY <2>2, <1>6, <1>10 DEF Opening
  <1>14. Peek(u, p + 2) \in Scalars => e = p + 3
    <2>1. p + 2 \in 0..Len(u) + 1  BY <1>10
    <2>2. Peek(u, p + 2) \in Scalars => SkipValue(u, p + 2) = (p + 2) + 1
      BY <2>1, SkipParts DEF SkipValue
    <2> QED  BY <2>2, <1>6
  <1>15. e = p + 3 => v = <<Peek(u, p + 2)>>
    <2>0. SUFFICES ASSUME e = p + 3 PROVE v = <<Peek(u, p + 2)>>  OBVIOUS
    <2>1. Len(v) = 1
      <3>1. p \in Int  BY <1>6
      <3>2. Len(v) = e - (p + 2)  BY <1>4, <1>5, <1>6
      <3> QED  BY ONLY <2>0, <3>1, <3>2
    <2>2. v[1] = Peek(u, p + 2)
      <3>1. Peek(u, (p + 2) + 1 - 1) = v[1]  BY <2>1, <1>6 DEF Has
      <3>2. (p + 2) + 1 - 1 = p + 2  BY <1>6
      <3> QED  BY <3>1, <3>2
    <2>3. v = <<v[1]>>  BY ONLY <1>4, <2>1
    <2> QED  BY <2>2, <2>3
  <1>16. Len(v) = e - (p + 2)  BY <1>4, <1>5, <1>6
  <1>17. CellTokens(u, r, k, j) <=>
         /\ p \in Nat \ {0} /\ e \in Nat /\ p + 3 <= e
         /\ Peek(u, p) = cells[j].column /\ Peek(u, p) \in DOMAIN Numbers
         /\ Peek(u, p + 1) = "comma" /\ Peek(u, p + 2) \in Scalars \cup Opening
         /\ Peek(u, p + 2) \in Scalars => e = p + 3
         /\ Len(v) = e - (p + 2)
         /\ e = p + 3 => v = <<Peek(u, p + 2)>>
         /\ Round(u, p + 2, e)
         /\ Len(cells) \in Nat
         /\ j < Len(cells) => /\ Peek(u, e) = "comma"
                              /\ CellAt(from, cells, j + 1) = e + 1
                              /\ Peek(u, e + 1) \in DOMAIN Numbers
         /\ j = Len(cells) => e = CellsTo(r, k) /\ Peek(u, e) = "rbracket"
    BY ONLY DEF CellTokens, p, e, v, cells, from
  <1> QED
    BY ONLY <1>3, <1>6, <1>7, <1>8, <1>9, <1>11, <1>12, <1>13, <1>14, <1>15, <1>16, <1>17

(* All the cells of a row are at one depth, one deeper than what follows.    *)
CellsLevel(u, r, k) ==
    /\ Depth(u, CellsFrom(r, k)) \in Int
    /\ \A q \in Nat : CellsFrom(r, k) <= q /\ q <= CellsTo(r, k) =>
          Depth(u, q) >= Depth(u, CellsFrom(r, k))
    /\ Depth(u, CellsTo(r, k) + 1) = Depth(u, CellsFrom(r, k)) - 1
    /\ \A j \in 1..Len(r.rows[k]) :
          Depth(u, CellAt(CellsFrom(r, k), r.rows[k], j) + 2) = Depth(u, CellsFrom(r, k))

LEMMA LevelCells ==
    ASSUME NEW u, Len(u) \in Nat, NEW r, IsReply(r), QueryLayout(u, r),
           NEW k \in 1..Len(r.rows)
    PROVE  CellsLevel(u, r, k)
  <1> DEFINE cells == r.rows[k]
             from == CellsFrom(r, k)
             to == CellsTo(r, k)
             ColumnAt(j) == CellAt(from, cells, j)
             base == Depth(u, from)
  <1>0. RowTokens(u, r, k)  BY RowHolds
  <1>1. /\ from \in Nat /\ 4 < from /\ to \in Nat /\ from <= to
        /\ Peek(u, from - 1) = "lbracket" /\ Peek(u, to) = "rbracket"
        /\ Len(cells) \in Nat /\ (Len(cells) # 0 => ColumnAt(1) = from)
    BY <1>0 DEF RowTokens
  <1>2. Round(u, from - 1, to + 1)
    <2>1. IsRow(cells) /\ Has(u, from, RenderCells(cells)) /\ to = from + Len(RenderCells(cells))
      BY CellsStart
    <2>2. SkipValue(u, from - 1) = from + Len(RenderCells(cells)) + 1
      <3> HIDE DEF from, to, cells
      <3> QED  BY <1>1, <2>1, CellsSkipped
    <2>3. SkipValue(u, from - 1) = to + 1 /\ to + 1 # 0  BY <2>1, <2>2, <1>1
    <2>4. from - 1 \in Nat /\ from - 1 <= Len(u) + 1
      <3> HIDE DEF from
      <3>1. from - 1 \in Int /\ Peek(u, from - 1) # "nothing"  BY <1>1
      <3>2. from - 1 \in 1..Len(u)  BY <3>1, PeekFacts
      <3> QED  BY <3>2
    <2> HIDE DEF from, to
    <2> QED  BY <2>3, <2>4, ValueRound
  <1>3. \A p \in Nat \ {0} : Depth(u, p) \in Int /\ Depth(u, p + 1) = Depth(u, p) + Lift(Peek(u, p))
    BY DepthStep
  <1>4. \A j \in 1..Len(cells) : CellTokens(u, r, k, j)  BY CellHolds
  <1>5. \A j \in 1..Len(cells) :
           /\ ColumnAt(j) \in Nat \ {0} /\ CellEnd(from, cells, j) \in Nat \ {0}
           /\ Depth(u, ColumnAt(j) + 2) = Depth(u, ColumnAt(j))
           /\ Depth(u, CellEnd(from, cells, j)) = Depth(u, ColumnAt(j))
           /\ j < Len(cells) => Depth(u, ColumnAt(j + 1)) = Depth(u, ColumnAt(j))
    <2> SUFFICES ASSUME NEW j \in 1..Len(cells)
                 PROVE  /\ ColumnAt(j) \in Nat \ {0} /\ CellEnd(from, cells, j) \in Nat \ {0}
                        /\ Depth(u, ColumnAt(j) + 2) = Depth(u, ColumnAt(j))
                        /\ Depth(u, CellEnd(from, cells, j)) = Depth(u, ColumnAt(j))
                        /\ j < Len(cells) => Depth(u, ColumnAt(j + 1)) = Depth(u, ColumnAt(j))
      OBVIOUS
    <2> DEFINE p == ColumnAt(j)
               e == CellEnd(from, cells, j)
               next == ColumnAt(j + 1)
    <2>1. /\ p \in Nat \ {0} /\ e \in Nat /\ p + 3 <= e /\ Peek(u, p) \in Scalars
          /\ Peek(u, p + 1) = "comma" /\ Round(u, p + 2, e)
          /\ j < Len(cells) => Peek(u, e) = "comma" /\ next = e + 1
      BY <1>4 DEF CellTokens, Scalars
    <2> HIDE DEF p, e, next
    <2>2. Lift(Peek(u, p)) = 0 /\ Lift("comma") = 0  BY <2>1, Lifts
    <2>3. Depth(u, p + 1) = Depth(u, p) + Lift(Peek(u, p)) /\ Depth(u, p) \in Int  BY <2>1, <1>3
    <2>4. Depth(u, p + 2) = Depth(u, p + 1) + Lift(Peek(u, p + 1))
      <3>1. p + 1 \in Nat \ {0} /\ (p + 1) + 1 = p + 2  BY <2>1
      <3> QED  BY ONLY <3>1, <1>3
    <2>5. Depth(u, p + 2) = Depth(u, p)  BY ONLY <2>1, <2>2, <2>3, <2>4
    <2>6. e \in Nat \ {0} /\ Depth(u, e) = Depth(u, p)  BY <2>1, <2>5 DEF Round
    <2>7. j < Len(cells) => Depth(u, next) = Depth(u, p)
      <3>1. Depth(u, e + 1) = Depth(u, e) + Lift(Peek(u, e))  BY <2>6, <1>3
      <3> QED  BY ONLY <3>1, <2>1, <2>2, <2>3, <2>6
    <2> QED  BY <2>1, <2>5, <2>6, <2>7 DEF p, e, next
  <1> HIDE DEF ColumnAt, base
  <1> DEFINE S == {n \in Nat : n + 1 <= Len(cells) => Depth(u, ColumnAt(n + 1)) = base}
  <1>6. 0 \in S
    <2>1. Len(cells) # 0 => Depth(u, ColumnAt(1)) = base  BY <1>1 DEF base
    <2> QED  BY <2>1, <1>1
  <1>7. ASSUME NEW n \in Nat, n \in S PROVE n + 1 \in S
    <2> HIDE DEF cells
    <2>1. ASSUME n + 1 + 1 <= Len(cells)  PROVE Depth(u, ColumnAt(n + 1 + 1)) = base
      <3>1. n + 1 \in 1..Len(cells) /\ n + 1 < Len(cells)  BY <2>1, <1>1
      <3>2. Depth(u, ColumnAt(n + 1)) = base  BY <1>7, <3>1
      <3> QED  BY <3>1, <3>2, <1>5
    <2> QED  BY <2>1
  <1>8. Nat \subseteq S  BY <1>6, <1>7, Induct
  <1>9. \A j \in 1..Len(cells) : Depth(u, ColumnAt(j) + 2) = base
    <2> SUFFICES ASSUME NEW j \in 1..Len(cells) PROVE Depth(u, ColumnAt(j) + 2) = base  OBVIOUS
    <2>1. j - 1 \in Nat /\ (j - 1) + 1 = j /\ j <= Len(cells)  BY <1>1
    <2>2. j - 1 \in S  BY <2>1, <1>8
    <2>3. Depth(u, ColumnAt(j)) = base  BY <2>1, <2>2
    <2> QED  BY <2>3, <1>5
  <1>10. Depth(u, from) = Depth(u, from - 1) + 1 /\ Depth(u, from - 1) \in Int /\ Depth(u, from) \in Int
    <2>1. from - 1 \in Nat \ {0} /\ (from - 1) + 1 = from /\ from \in Nat \ {0}  BY <1>1
    <2>2. Lift("lbracket") = 1  BY Lifts
    <2> HIDE DEF from
    <2> QED  BY <2>1, <2>2, <1>1, <1>3
  <1>11. \A q \in Nat : from <= q /\ q <= to => Depth(u, q) >= Depth(u, from)
    <2> SUFFICES ASSUME NEW q \in Nat, from <= q, q <= to PROVE Depth(u, q) >= Depth(u, from)
      OBVIOUS
    <2>1. Depth(u, q) > Depth(u, from - 1)
      <3>1. from - 1 < q /\ q < to + 1  BY <1>1
      <3> QED  BY <3>1, <1>2 DEF Round
    <2>2. Depth(u, q) \in Int
      <3>1. q \in Nat \ {0}  BY <1>1
      <3> QED  BY <3>1, <1>3
    <2> QED  BY ONLY <2>1, <2>2, <1>10
  <1>12. Depth(u, to + 1) = Depth(u, from) - 1
    <2>1. Depth(u, to + 1) = Depth(u, from - 1)  BY <1>2 DEF Round
    <2> QED  BY ONLY <2>1, <1>10
  <1> QED  BY <1>9, <1>10, <1>11, <1>12 DEF CellsLevel, ColumnAt, base

(* What the reply says before its rows.                                      *)
HeadTokens(u, r) ==
    LET q == RowsFrom(r) - 3
    IN  /\ Peek(u, 1) = "lbrace" /\ q = (IF r.first THEN 6 ELSE 2)
        /\ Peek(u, q) = "rows" /\ Peek(u, q + 1) = "colon" /\ Peek(u, q + 2) = "lbracket"
        /\ r.first => /\ Peek(u, 2) = "truncated" /\ Peek(u, 3) = "colon"
                      /\ Peek(u, 4) \in {"true", "false"} /\ Peek(u, 5) = "comma"
        /\ Len(r.rows) \in Nat
        /\ Len(r.rows) = 0 => /\ Peek(u, q + 3) = "rbracket"
                              /\ Peek(u, q + 4) \in {"rbrace", "comma"}
        /\ Len(r.rows) # 0 => /\ Peek(u, q + 3) = "lbrace" /\ RowAt(r, 1) = q + 3
                              /\ Peek(u, q + 4) \in {"cells", "row_id"}

LEMMA HeadHolds ==
    ASSUME NEW u, Len(u) \in Nat, NEW r, IsReply(r), QueryLayout(u, r)
    PROVE  HeadTokens(u, r)
  <1>1. /\ Len(r.rows) = 0 => Peek(u, RowsFrom(r)) = "rbracket"
        /\ Len(r.rows) # 0 => Peek(u, RowsFrom(r)) = "lbrace" /\ RowAt(r, 1) = RowsFrom(r)
    BY RowsStart
  <1>2. Len(r.rows) \in Nat /\ r.first \in BOOLEAN  BY DEF IsReply
  <1>3. RowsFrom(r) = IF r.first THEN 9 ELSE 5  BY <1>2 DEF RowsFrom, ArrayFrom, QueryPlace
  <1>4. /\ Peek(u, 1) = "lbrace" /\ Peek(u, RowsFrom(r) - 3) = "rows"
        /\ Peek(u, RowsFrom(r) - 2) = "colon" /\ Peek(u, RowsFrom(r) - 1) = "lbracket"
        /\ r.first => /\ Peek(u, 2) = "truncated" /\ Peek(u, 3) = "colon"
                      /\ Peek(u, 4) \in {"true", "false"} /\ Peek(u, 5) = "comma"
        /\ Peek(u, RowsTo(r) + 1) \in {"rbrace", "comma"}
    BY <1>2 DEF QueryLayout, ObjectLayout, RowsFrom, RowsTo, QueryPlace, QueryFlag
  <1>5. Len(r.rows) = 0 => RowsTo(r) = RowsFrom(r)
    <2> SUFFICES ASSUME Len(r.rows) = 0 PROVE RowsTo(r) = RowsFrom(r)  OBVIOUS
    <2>1. Rows(r) = << >>  BY RowPart, SeparatedIsJoined DEF Rows
    <2>2. RowsTo(r) = RowsFrom(r) + 0  BY <2>1, QueryText
    <2> QED  BY <2>2, <1>3
  <1>6. Len(r.rows) # 0 => Peek(u, RowAt(r, 1) + 1) \in {"cells", "row_id"}
    <2> SUFFICES ASSUME Len(r.rows) # 0 PROVE Peek(u, RowAt(r, 1) + 1) \in {"cells", "row_id"}
      OBVIOUS
    <2>1. 1 \in 1..Len(r.rows)  BY <1>2
    <2>2. RowTokens(u, r, 1)  BY <2>1, RowHolds
    <2>3. /\ RowAt(r, 1) \in Nat
          /\ r.rowId = "first" => Peek(u, RowAt(r, 1) + 1) = "row_id"
          /\ r.rowId # "first" => /\ Peek(u, CellsFrom(r, 1) - 3) = "cells"
                                  /\ CellsFrom(r, 1) = RowAt(r, 1) + 4
      BY <2>2 DEF RowTokens
    <2>4. r.rowId # "first" => CellsFrom(r, 1) - 3 = RowAt(r, 1) + 1  BY <2>3
    <2> QED  BY ONLY <2>3, <2>4
  <1> DEFINE q == RowsFrom(r) - 3
  <1>7. q = (IF r.first THEN 6 ELSE 2) /\ RowsFrom(r) = q + 3 /\ q \in Nat
    BY <1>3
  <1>8. RowsFrom(r) - 2 = q + 1 /\ RowsFrom(r) - 1 = q + 2 /\ RowsFrom(r) + 1 = q + 4
    BY <1>7
  <1>9. /\ Peek(u, q + 1) = "colon" /\ Peek(u, q + 2) = "lbracket"  BY <1>4, <1>8
  <1>10. Len(r.rows) = 0 => Peek(u, q + 3) = "rbracket" /\ Peek(u, q + 4) \in {"rbrace", "comma"}
    BY <1>1, <1>4, <1>5, <1>7, <1>8
  <1>11. Len(r.rows) # 0 => /\ Peek(u, q + 3) = "lbrace" /\ RowAt(r, 1) = q + 3
                            /\ Peek(u, q + 4) \in {"cells", "row_id"}
    BY <1>1, <1>6, <1>7, <1>8
  <1> QED  BY <1>2, <1>4, <1>7, <1>9, <1>10, <1>11 DEF HeadTokens

LEMMA NoValue ==
    ASSUME NEW t, Len(t) \in Nat, NEW p \in Nat, p <= Len(t) + 1,
           Peek(t, p) \notin Scalars \cup Opening
    PROVE  SkipValue(t, p) = 0
  <1>1. p \in 0..Len(t) + 1  OBVIOUS
  <1> QED  BY <1>1, SkipParts DEF SkipValue, Opening

LEMMA StructureIsNot ==
    /\ \A token \in Structure : token \notin Scalars /\ token \notin Strings
                                /\ token \notin DOMAIN Numbers
    /\ \A token \in DOMAIN Numbers : token \notin Strings
    /\ {"lbrace", "rbrace", "lbracket", "rbracket", "colon", "comma"} \subseteq Structure
    /\ "nothing" \notin Scalars /\ "nothing" \notin Strings
  BY TokenAssumption DEF Structure, Scalars, Tokens

(* The turns: what a turn of each loop finds, before the missing token,      *)
(* across it and behind it, and where it goes from there.                    *)

LEMMA SlidCall ==
    ASSUME NEW c \in {"query", "table_names"}, NEW r \in Replies, Call(c, r), NEW m
    PROVE  Slid(m)'
  BY DEF Call, Slid, Loops, InArray

LEMMA SlidDiscard ==
    ASSUME Discard, NEW m
    PROVE  Slid(m)'
  BY DEF Discard, Slid, Loops, InArray

LEMMA SlidStartQuery ==
    ASSUME Typed, Walking, NEW u, u = Rendered(call, sent), NEW m, Slipped(text, u, m), StartQuery
    PROVE  Slid(m)'
  <1>1. at = "start" /\ call = "query" /\ pos = 1 /\ result' = result /\ result = << >>
        /\ UNCHANGED <<call, sent, text>>
    BY DEF StartQuery, Walking
  <1>2. CASE Token = "lbrace"
    <2>1. at' = "members" /\ pos' = 2 /\ outcome' = outcome  BY <1>2 DEF StartQuery, Go
    <2>2. 2 <= m
      <3>1. /\ m \in Nat \ {0} /\ (m <= 1 => Peek(text, 1) = Peek(u, 2))
        <4>1. m \in Nat \ {0}  BY DEF Slipped
        <4> QED  BY <4>1, SlippedPeek
      <3>2. HeadTokens(u, sent)  BY <1>1, QueryReply, HeadHolds
      <3>3. Peek(u, 2) \in {"rows", "truncated"}  BY <3>2 DEF HeadTokens
      <3> QED  BY <3>1, <3>3, <1>1, <1>2 DEF Token
    <2>3. GoesAlong(m)
      BY <1>1, <2>1, <2>2 DEF GoesAlong, Placed, StandsBefore, Loops
    <2> QED  BY <1>1, <2>3, SlidOn
  <1>3. CASE Token # "lbrace"
    <2>1. GivesBack  BY <1>1, <1>3 DEF StartQuery, End, GivesBack
    <2> QED  BY <1>1, <2>1, SlidOn
  <1> QED  BY <1>2, <1>3

LEMMA SlidFindRows ==
    ASSUME Typed, Walking, NEW u, u = Rendered(call, sent), NEW m, Slipped(text, u, m),
           Slid(m), FindRows
    PROVE  Slid(m)'
  <1> DEFINE value == AfterKey(text, pos)
             after == SkipValue(text, value)
  <1>1. /\ at = "members" /\ result' = result /\ result = << >>
        /\ UNCHANGED <<call, sent, text>>
    BY DEF FindRows, Walking, Reading
  <1>2. \/ value = 0
        \/ pos <= m /\ call = "query" /\ (pos = 2 \/ (sent.first /\ pos = 6))
    BY <1>1 DEF Slid, Placed, StandsBefore, StandsIn, StandsInRow, Lost, Loops, InArray
  <1>3. at' = "done" /\ outcome' = "returned" => Slid(m)'
    <2> SUFFICES ASSUME at' = "done", outcome' = "returned" PROVE Slid(m)'  OBVIOUS
    <2>1. GivesBack  BY <1>1 DEF GivesBack
    <2> QED  BY <2>1, <1>1, SlidOn
  <1>4. CASE value = 0
    <2>1. at' = "done" /\ outcome' = "returned"  BY <1>4 DEF FindRows, End
    <2> QED  BY <2>1, <1>3
  <1>5. CASE value # 0
    <2>1. pos <= m /\ call = "query" /\ (pos = 2 \/ (sent.first /\ pos = 6))  BY <1>2, <1>5
    <2>0. pos \in Nat /\ Len(text) \in Nat  BY DEF Typed
    <2>2. /\ value = pos + 2 /\ pos + 2 <= Len(text) + 1 /\ Peek(text, pos) \in Strings
          /\ Peek(text, pos + 1) = "colon"
      BY <1>5, <2>0, AfterKeyBound
    <2>5. m \in Nat \ {0}  BY DEF Slipped
    <2>3. \A p \in Int : /\ p < m => Peek(text, p) = Peek(u, p)
                         /\ m <= p => Peek(text, p) = Peek(u, p + 1)
      BY SlippedPeek
    <2>4. IsReply(sent) /\ QueryLayout(u, sent) /\ Len(u) \in Nat /\ HeadTokens(u, sent)
      BY <2>1, QueryReply, HeadHolds
    <2>6. Peek(text, 0) = "nothing"  BY DEF Peek
    <2> HIDE DEF value
    <2>7. ASSUME sent.first, pos = 2  PROVE Slid(m)'
      <3>1. /\ Peek(u, 2) = "truncated" /\ Peek(u, 3) = "colon" /\ Peek(u, 5) = "comma"
            /\ Peek(u, 4) \in Scalars /\ Peek(u, 6) = "rows"
        BY <2>4, <2>7, Literals, TokenAssumption DEF HeadTokens, Scalars
      <3>2. 4 <= m
        <4>1. Peek(u, 3) \notin Strings /\ Peek(u, 4) # "colon"  BY <3>1, StructureIsNot
        <4> QED  BY ONLY <4>1, <2>1, <2>2, <2>3, <2>5, <2>7
      <3>3. Peek(text, pos) # "rows" /\ value = 4  BY <3>1, <3>2, <2>2, <2>3, <2>5, <2>7
      <3>4. m = 4 => after = 0
        <4> SUFFICES ASSUME m = 4 PROVE after = 0  OBVIOUS
        <4>1. Peek(text, 4) = "comma"  BY <2>3, <3>1
        <4>2. "comma" \notin Scalars \cup Opening  BY StructureIsNot DEF Opening
        <4> QED  BY <4>1, <4>2, <3>3, <2>0, <2>2, <2>7, NoValue
      <3>5. 5 <= m => after = 5
        <4> SUFFICES ASSUME 5 <= m PROVE after = 5  OBVIOUS
        <4>1. Peek(text, 4) \in Scalars  BY <2>3, <2>5, <3>1
        <4> QED  BY <4>1, <3>3, <2>0, OpeningSkipped
      <3> HIDE DEF after
      <3>6. Peek(text, after) = "comma" => after = 5 /\ 6 <= m
        <4>1. m = 4 \/ m = 5 \/ 6 <= m  BY <3>2, <2>5
        <4>2. m = 5 => Peek(text, 5) = "rows"  BY <2>3, <3>1
        <4>3. m = 4 => Peek(text, after) = "nothing"  BY ONLY <3>4, <2>6
        <4>4. m = 5 => Peek(text, after) = "rows"  BY ONLY <3>5, <4>2
        <4>5. 6 <= m => after = 5  BY ONLY <3>5, <2>5
        <4> QED  BY ONLY <4>1, <4>3, <4>4, <4>5
      <3>7. IF Peek(text, after) = "comma" THEN Go("members", after + 1) ELSE End("returned")
        BY <1>5, <3>3 DEF FindRows, Token, value, after
      <3>8. CASE Peek(text, after) = "comma"
        <4>1. at' = "members" /\ pos' = 6 /\ outcome' = outcome  BY <3>6, <3>7, <3>8 DEF Go
        <4>2. GoesAlong(m)
          BY <1>1, <2>1, <2>7, <3>6, <3>8, <4>1 DEF GoesAlong, Placed, StandsBefore, Loops
        <4> QED  BY <1>1, <4>2, SlidOn
      <3>9. CASE Peek(text, after) # "comma"
        BY <3>7, <3>9, <1>3 DEF End
      <3> QED  BY <3>8, <3>9
    <2> DEFINE q == RowsFrom(sent) - 3
    <2>8. ASSUME pos = q  PROVE Slid(m)'
      <3>1. /\ q \in Nat \ {0} /\ Peek(u, q) = "rows" /\ Peek(u, q + 1) = "colon"
            /\ Peek(u, q + 2) = "lbracket" /\ Len(sent.rows) \in Nat
            /\ Len(sent.rows) = 0 => /\ Peek(u, q + 3) = "rbracket"
                                     /\ Peek(u, q + 4) \in {"rbrace", "comma"}
            /\ Len(sent.rows) # 0 => /\ Peek(u, q + 3) = "lbrace" /\ RowAt(sent, 1) = q + 3
                                     /\ Peek(u, q + 4) \in {"cells", "row_id"}
        BY <2>4 DEF HeadTokens
      <3> HIDE DEF q
      <3>2. q + 2 <= m
        <4>1. "colon" \notin Strings  BY StructureIsNot
        <4> QED  BY ONLY <4>1, <3>1, <2>1, <2>2, <2>3, <2>5, <2>8
      <3>3. Token = "rows" /\ value = q + 2
        BY <3>1, <3>2, <2>2, <2>3, <2>5, <2>8 DEF Token
      <3>4. CASE m = q + 2
        <4>1. Peek(text, q + 2) = Peek(u, q + 3)
          BY ONLY <3>1, <3>4, <2>3, q + 2 \in Int, (q + 2) + 1 = q + 3
        <4>2. Peek(text, value) # "lbracket"  BY <3>1, <3>3, <4>1
        <4>3. IF Peek(text, after) = "comma" THEN Go("members", after + 1) ELSE End("returned")
          BY <1>5, <4>2 DEF FindRows, value, after
        <4>4. Peek(text, after) = "comma" => AfterKey(text, after + 1) = 0
          <5>1. CASE Len(sent.rows) = 0
            <6>1. "rbracket" \notin Scalars \cup Opening  BY StructureIsNot DEF Opening
            <6>2. after = 0  BY <5>1, <6>1, <3>1, <3>3, <4>1, <2>0, <2>2, <2>8, NoValue
            <6> QED  BY <6>2, <2>6
          <5>2. CASE Len(sent.rows) # 0
            <6> DEFINE e == RowEndAt(sent, 1)
            <6>1. 1 \in 1..Len(sent.rows)  BY <5>2, <3>1
            <6>2. RowTokens(u, sent, 1) /\ SkipValue(u, RowAt(sent, 1)) = e /\ e \in Nat
              BY <6>1, <2>4, RowHolds, RowSkipped, RowsStand
            <6>3. RowAt(sent, 1) = q + 3 /\ q + 3 \in Nat /\ q + 3 <= Len(u) + 1
              <7>1. q + 3 \in Int /\ Peek(u, q + 3) # "nothing"  BY <3>1, <5>2
              <7>2. q + 3 \in 1..Len(u)  BY <7>1, <2>4, PeekFacts
              <7> QED  BY <7>2, <3>1, <5>2
            <6>4. e # 0
              <7>1. e = CellsTo(sent, 1) + (IF sent.rowId = "last" THEN 6 ELSE 2) /\ CellsTo(sent, 1) \in Nat
                BY <6>1, <6>2, <2>4, RowsStand DEF RowTokens
              <7> HIDE DEF e
              <7> QED  BY <7>1
            <6>5. Round(u, q + 3, e)
              <7> HIDE DEF e
              <7> QED  BY <6>2, <6>3, <6>4, <2>4, ValueRound
            <6>6. /\ Peek(u, e) \in {"comma", "rbracket"}
                  /\ Peek(u, e) = "comma" => Peek(u, e + 1) = "lbrace"
              <7>0. Len(sent.rows) \in Nat  BY <3>1
              <7>2. \A n \in Nat : n # 0 => 1 < n \/ 1 = n  OBVIOUS
              <7>1. 1 < Len(sent.rows) \/ 1 = Len(sent.rows)  BY ONLY <7>0, <7>2, <5>2
              <7> QED  BY ONLY <7>1, <6>2 DEF RowTokens, e
            <6> HIDE DEF e
            <6>7. after # 0 => after = e - 1
              <7>1. q + 2 \in Nat /\ (q + 2) + 1 = q + 3 /\ q + 2 <= Len(text) + 1 /\ m <= q + 2
                BY <3>1, <3>4, <2>2, <2>8
              <7>2. Round(u, (q + 2) + 1, e)  BY <6>5, <7>1
              <7>3. SkipValue(text, q + 2) # 0 => SkipValue(text, q + 2) = e - 1
                BY <7>1, <7>2, RoundBehind
              <7> QED  BY <7>3, <3>3
            <6> HIDE DEF after
            <6>8. after # 0 => Peek(text, after) = Peek(u, e) /\ Peek(text, after + 1) = Peek(u, e + 1)
              <7>1. q + 3 < e  BY <6>5 DEF Round
              <7>2. e - 1 \in Int /\ (e - 1) + 1 = e /\ m <= e - 1 /\ e \in Int /\ m <= e
                BY <7>1, <3>1, <3>4, <6>2
              <7> QED  BY <6>7, <7>2, <2>3
            <6>9. "lbrace" \notin Strings  BY StructureIsNot
            <6> QED  BY <6>6, <6>8, <6>9, <2>6 DEF AfterKey
          <5> QED  BY <5>1, <5>2
        <4> HIDE DEF after
        <4>5. CASE Peek(text, after) = "comma"
          <5>1. at' = "members" /\ pos' = after + 1 /\ outcome' = outcome  BY <4>3, <4>5 DEF Go
          <5>2. GoesAlong(m)  BY <4>4, <4>5, <5>1 DEF GoesAlong, Placed, Lost, Loops
          <5> QED  BY <1>1, <5>2, SlidOn
        <4>6. CASE Peek(text, after) # "comma"  BY <4>3, <4>6, <1>3 DEF End
        <4> QED  BY <4>5, <4>6
      <3>5. CASE q + 3 <= m
        <4>1. Peek(text, value) = "lbracket"  BY <3>1, <3>3, <3>5, <2>3, <2>5
        <4>2. IF Peek(text, value + 1) = "rbracket" THEN End("returned") ELSE Go("rows", value + 1)
          BY <1>5, <3>3, <4>1 DEF FindRows, value
        <4>3. CASE Peek(text, value + 1) = "rbracket"  BY <4>2, <4>3, <1>3 DEF End
        <4>4. CASE Peek(text, value + 1) # "rbracket"
          <5>1. at' = "rows" /\ pos' = q + 3 /\ outcome' = outcome
            BY <4>2, <4>4, <3>1, <3>3 DEF Go
          <5>2. CASE Len(sent.rows) = 0
            <6>1. value + 1 = q + 3 /\ q + 3 \in Int /\ (q + 3) + 1 = q + 4  BY <3>1, <3>3
            <6>2. m <= q + 3  BY <6>1, <4>4, <5>2, <3>1, <2>3, <2>5
            <6>3. Peek(text, q + 3) # "lbrace"  BY <6>1, <6>2, <5>2, <3>1, <2>3
            <6>4. GoesAlong(m)  BY <5>1, <6>3 DEF GoesAlong, Placed, Lost, Loops, InArray
            <6> QED  BY <1>1, <6>4, SlidOn
          <5>3. CASE Len(sent.rows) # 0
            <6>1. AlikeRows(sent, << >>) /\ Len(<< >>) = 0  BY DEF AlikeRows
            <6>2. StandsIn(call, sent, "rows", q + 3, row', result')
              BY <6>1, <5>3, <3>1, <2>1, <1>1 DEF StandsIn
            <6>3. GoesAlong(m)
              BY <6>2, <5>1, <3>5 DEF GoesAlong, Placed, Loops, InArray
            <6> QED  BY <1>1, <6>3, SlidOn
          <5> QED  BY <5>2, <5>3
        <4> QED  BY <4>3, <4>4
      <3> QED  BY <3>1, <3>2, <3>4, <3>5, <2>5
    <2>9. pos = q \/ (sent.first /\ pos = 2)
      BY <2>1, <2>4 DEF HeadTokens
    <2> QED  BY <2>7, <2>8, <2>9
  <1> QED  BY <1>4, <1>5

(* The walk stands at p in the reply: before the missing token or behind it. *)
Seat(p, m) ==
    /\ StandsIn(call, sent, at, p, row, result)
    /\ (p = pos /\ pos <= m) \/ (p = pos + 1 /\ m <= pos)

(* What it then reads, i tokens on.                                          *)
LEMMA SeatRead ==
    ASSUME Typed, NEW u, NEW m, Slipped(text, u, m), NEW p, Seat(p, m), NEW i \in Nat
    PROVE  /\ p \in Nat /\ m \in Nat \ {0}
           /\ p # pos \/ pos + i < m => Peek(text, pos + i) = Peek(u, p + i)
           /\ p = pos /\ m <= pos + i => Peek(text, pos + i) = Peek(u, p + i + 1)
  <1>1. pos \in Nat  BY DEF Typed
  <1>2. m \in Nat \ {0}  BY DEF Slipped
  <1>3. (p = pos /\ pos <= m) \/ (p = pos + 1 /\ m <= pos)  BY DEF Seat
  <1>4. /\ pos + i < m => Peek(text, pos + i) = Peek(u, pos + i)
        /\ m <= pos + i => Peek(text, pos + i) = Peek(u, pos + i + 1)
    <2>1. pos + i \in Int  BY <1>1
    <2> QED  BY <2>1, SlippedPeek
  <1>5. p = pos + 1 => m <= pos + i /\ p + i = pos + i + 1 /\ p # pos  BY ONLY <1>1, <1>2, <1>3, i \in Nat
  <1>6. p = pos => p + i + 1 = pos + i + 1  OBVIOUS
  <1> QED  BY ONLY <1>1, <1>2, <1>3, <1>4, <1>5, <1>6

LEMMA SeatRow ==
    ASSUME Typed, NEW u, u = Rendered(call, sent), NEW m, NEW p, Seat(p, m)
    PROVE  LET k == Len(result) + 1 IN
           /\ call = "query" /\ k \in 1..Len(sent.rows) /\ RowTokens(u, sent, k)
           /\ IsReply(sent) /\ QueryLayout(u, sent) /\ Len(u) \in Nat /\ u = RenderQuery(sent)
           /\ AlikeRows(sent, result) /\ Len(result) \in Nat /\ Len(sent.rows) \in Nat
           /\ Len(result) < Len(sent.rows)
  <1>1. call = "query" /\ Len(result) < Len(sent.rows) /\ AlikeRows(sent, result)
    BY DEF Seat, StandsIn
  <1>2. IsReply(sent) /\ QueryLayout(u, sent) /\ Len(u) \in Nat /\ u = RenderQuery(sent)
    BY <1>1, QueryReply
  <1>3. Len(sent.rows) \in Nat  BY <1>2 DEF IsReply
  <1>4. Len(result) \in Nat  BY LenProperties DEF Typed
  <1>5. Len(result) + 1 \in 1..Len(sent.rows)  BY ONLY <1>1, <1>3, <1>4
  <1>6. RowTokens(u, sent, Len(result) + 1)  BY <1>2, <1>5, RowHolds
  <1> QED  BY <1>1, <1>2, <1>3, <1>4, <1>5, <1>6

(* Where a turn of the loops over the rows begins.                           *)
LEMMA RowPlaces ==
    ASSUME NEW m, Slid(m), at \in {"rows", "row", "cells", "memberEnd", "rowEnd"}
    PROVE  (\E p : Seat(p, m)) \/ Lost(text, Rendered(call, sent), sent, at, pos, m)
  <1>1. Placed(call, sent, text, at, pos, row, result, m)  BY DEF Slid, Loops, InArray
  <1>2. CASE pos <= m /\ StandsIn(call, sent, at, pos, row, result)
    <2>1. Seat(pos, m)  BY <1>2 DEF Seat
    <2> QED  BY <2>1
  <1>3. CASE m <= pos /\ StandsIn(call, sent, at, pos + 1, row, result)
    <2>1. Seat(pos + 1, m)  BY <1>3 DEF Seat
    <2> QED  BY <2>1
  <1>4. ~StandsBefore(call, sent, at, pos, result)  BY DEF StandsBefore
  <1> QED  BY <1>1, <1>2, <1>3, <1>4 DEF Placed

(* A turn that goes on in the same row, i tokens on.                         *)
LEMMA StaysInRow ==
    ASSUME Typed, NEW m, Slipped(text, Rendered(call, sent), m), NEW p, Seat(p, m), NEW i \in Nat,
           p # pos \/ pos + i <= m,
           at' \in {"row", "cells", "memberEnd", "rowEnd"}, pos' = pos + i,
           outcome' = outcome, result' = result,
           StandsInRow(sent, Len(result) + 1, at', p + i, row')
    PROVE  GoesAlong(m)
  <1>1. StandsIn(call, sent, at', p + i, row', result')
    <2>1. call = "query" /\ AlikeRows(sent, result) /\ Len(result) < Len(sent.rows)
      BY DEF Seat, StandsIn
    <2> QED  BY <2>1 DEF StandsIn
  <1>2. at' \in Loops  BY DEF Loops, InArray
  <1>3. pos \in Nat /\ m \in Nat /\ i \in Nat  BY DEF Typed, Slipped
  <1>4. (p = pos /\ pos <= m) \/ (p = pos + 1 /\ m <= pos)  BY DEF Seat
  <1>5. (pos' <= m /\ p + i = pos') \/ (m <= pos' /\ p + i = pos' + 1)
    BY <1>3, <1>4
  <1> QED  BY <1>1, <1>2, <1>5 DEF GoesAlong, Placed

LEMMA SlidNextRow ==
    ASSUME Typed, Walking, NEW u, u = Rendered(call, sent), NEW m, Slipped(text, u, m),
           Slid(m), NextRow
    PROVE  Slid(m)'
  <1>1. at = "rows" /\ row' = << >> /\ result' = result /\ UNCHANGED <<call, sent, text>>
    BY DEF NextRow, Reading
  <1>2. CASE Token # "lbrace"
    <2>1. Throws  BY <1>2 DEF NextRow, End, Throws
    <2> QED  BY <1>1, <2>1, SlidOn
  <1>3. CASE Token = "lbrace"
    <2>1. PICK p : Seat(p, m)  BY <1>1, <1>3, RowPlaces DEF Lost, Token
    <2> DEFINE k == Len(result) + 1
    <2>2. RowTokens(u, sent, k)  BY <2>1, SeatRow
    <2>3. p = RowAt(sent, k)  BY <2>1, <1>1 DEF Seat, StandsIn, StandsInRow
    <2>4. /\ Peek(u, p + 1) \in {"cells", "row_id"} /\ Peek(u, p + 2) = "colon"
      <3>1. /\ p \in Nat /\ sent.rowId \in {"first", "last", "none"}
            /\ sent.rowId = "first" => Peek(u, p + 1) = "row_id" /\ Peek(u, p + 2) = "colon"
            /\ CellsFrom(sent, k) = p + (IF sent.rowId = "first" THEN 8 ELSE 4)
            /\ Peek(u, CellsFrom(sent, k) - 3) = "cells" /\ Peek(u, CellsFrom(sent, k) - 2) = "colon"
        BY <2>2, <2>3 DEF RowTokens
      <3>2. sent.rowId # "first" => CellsFrom(sent, k) - 3 = p + 1 /\ CellsFrom(sent, k) - 2 = p + 2
        BY ONLY <3>1
      <3> QED  BY ONLY <3>1, <3>2
    <2> HIDE DEF k
    <2>5. pos \in Nat /\ p \in Nat /\ m \in Nat  BY <2>1, SeatRead DEF Typed
    <2>6. /\ p # pos \/ pos + 0 < m => Peek(text, pos + 0) = Peek(u, p + 0)
          /\ p = pos /\ m <= pos + 0 => Peek(text, pos + 0) = Peek(u, p + 0 + 1)
          /\ p # pos \/ pos + 1 < m => Peek(text, pos + 1) = Peek(u, p + 1)
          /\ p = pos /\ m <= pos + 1 => Peek(text, pos + 1) = Peek(u, p + 1 + 1)
      BY <2>1, SeatRead
    <2>7. p # pos \/ pos + 1 <= m
      <3>1. Token = Peek(text, pos + 0) /\ p + 0 + 1 = p + 1  BY <2>5 DEF Token
      <3> QED  BY ONLY <3>1, <2>4, <2>5, <2>6, <1>3
    <2>8. Peek(text, pos + 1) # "rbrace"
      <3>1. p + 1 + 1 = p + 2  BY <2>5
      <3> QED  BY ONLY <3>1, <2>4, <2>5, <2>6
    <2>9. at' = "row" /\ pos' = pos + 1 /\ outcome' = outcome
      BY <2>8, <1>3 DEF NextRow, Go
    <2>10. StandsInRow(sent, Len(result) + 1, at', p + 1, row')
      BY <2>3, <2>9, <1>1 DEF StandsInRow, k
    <2>11. GoesAlong(m)  BY <2>1, <2>7, <2>9, <2>10, <1>1, StaysInRow
    <2> QED  BY <1>1, <2>11, SlidOn
  <1> QED  BY <1>2, <1>3

(* The separator behind a member or a row.                                   *)
LEMMA SlidMemberEnd ==
    ASSUME Typed, Walking, NEW u, u = Rendered(call, sent), NEW m, Slipped(text, u, m),
           Slid(m), MemberEnd
    PROVE  Slid(m)'
  <1>1. /\ at = "memberEnd" /\ row' = row /\ result' = result /\ UNCHANGED <<call, sent, text>>
        /\ Separator(pos, "row", "rbrace", "rowEnd", "thrown")
    BY DEF MemberEnd, Reading
  <1>2. pos \in Nat /\ m \in Nat \ {0}  BY DEF Typed, Slipped
  <1>3. CASE Token \notin {"comma", "rbrace"}
    <2>1. Throws  BY <1>1, <1>3 DEF Separator, End, Throws, Token
    <2> QED  BY <1>1, <2>1, SlidOn
  <1>4. CASE Token = "comma" /\ AfterKey(text, pos + 1) = 0
    <2>1. at' = "row" /\ pos' = pos + 1 /\ outcome' = outcome
      BY <1>1, <1>4 DEF Separator, Go, Token
    <2>2. GoesAlong(m)  BY <1>4, <2>1 DEF GoesAlong, Placed, Lost, Loops, InArray
    <2> QED  BY <1>1, <2>2, SlidOn
  <1>5. CASE Token \in {"comma", "rbrace"} /\ ~(Token = "comma" /\ AfterKey(text, pos + 1) = 0)
    <2>1. PICK p : Seat(p, m)  BY <1>1, <1>5, RowPlaces DEF Lost, Token
    <2> DEFINE k == Len(result) + 1
               to == CellsTo(sent, k)
               end == RowEndAt(sent, k)
    <2>2. RowTokens(u, sent, k) /\ k \in 1..Len(sent.rows) /\ Len(sent.rows) \in Nat
      BY <2>1, SeatRow
    <2>3. \/ sent.rowId = "first" /\ p = RowAt(sent, k) + 4 /\ row = << >>
          \/ p = to + 1 /\ AlikeRow(sent, k, row)
          \/ sent.rowId = "last" /\ p = to + 5 /\ AlikeRow(sent, k, row)
      BY <2>1, <1>1 DEF Seat, StandsIn, StandsInRow
    <2>4. p \in Nat  BY <2>1, SeatRead
    <2>5. /\ p # pos \/ pos + 0 < m => Peek(text, pos + 0) = Peek(u, p + 0)
          /\ p = pos /\ m <= pos + 0 => Peek(text, pos + 0) = Peek(u, p + 0 + 1)
          /\ p # pos \/ pos + 1 < m => Peek(text, pos + 1) = Peek(u, p + 1)
          /\ p = pos /\ m <= pos + 1 => Peek(text, pos + 1) = Peek(u, p + 1 + 1)
      BY <2>1, SeatRead
    <2>6. Token = Peek(text, pos + 0) /\ p + 0 + 1 = p + 1 /\ p + 0 = p /\ p + 1 + 1 = p + 2
      BY <1>2, <2>4 DEF Token
    <2>7. /\ RowAt(sent, k) \in Nat /\ to \in Nat /\ end \in Nat
          /\ sent.rowId # "last" => Peek(u, to + 1) = "rbrace" /\ end = to + 2
          /\ sent.rowId = "last" => /\ Peek(u, to + 1) = "comma" /\ Peek(u, to + 2) = "row_id"
                                    /\ Peek(u, to + 5) = "rbrace" /\ end = to + 6
          /\ Peek(u, end) = "comma" => Peek(u, end + 1) = "lbrace"
          /\ Peek(u, end) \in {"comma", "rbracket"}
          /\ sent.rowId = "first" => /\ Peek(u, RowAt(sent, k) + 4) = "comma"
                                     /\ Peek(u, RowAt(sent, k) + 5) = "cells"
      <3>1. k < Len(sent.rows) \/ k = Len(sent.rows)  BY ONLY <2>2
      <3>2. /\ RowAt(sent, k) \in Nat /\ CellsFrom(sent, k) \in Nat /\ Peek(u, CellsFrom(sent, k) - 3) = "cells"
            /\ sent.rowId = "first" => CellsFrom(sent, k) = RowAt(sent, k) + 8
        BY <2>2 DEF RowTokens
      <3>3. sent.rowId = "first" => CellsFrom(sent, k) - 3 = RowAt(sent, k) + 5  BY <3>2
      <3> HIDE DEF k
      <3>4. /\ to \in Nat
            /\ sent.rowId # "last" => Peek(u, to + 1) = "rbrace" /\ end = to + 2
            /\ sent.rowId = "last" => /\ Peek(u, to + 1) = "comma" /\ Peek(u, to + 2) = "row_id"
                                      /\ Peek(u, to + 5) = "rbrace" /\ end = to + 6
            /\ sent.rowId = "first" => Peek(u, RowAt(sent, k) + 4) = "comma"
        BY ONLY <2>2 DEF RowTokens
      <3>5. /\ Peek(u, end) = "comma" => Peek(u, end + 1) = "lbrace"
            /\ Peek(u, end) \in {"comma", "rbracket"}
        BY ONLY <2>2, <3>1 DEF RowTokens
      <3> HIDE DEF to, end
      <3>6. end \in Nat  BY ONLY <3>4
      <3> QED  BY ONLY <3>2, <3>3, <3>4, <3>5, <3>6
    <2> HIDE DEF k, to, end
    (* The separator itself is there: the token that would stand in its place  *)
    (* ends the walk.                                                          *)
    <2>8. p # pos \/ pos + 1 <= m
      <3> SUFFICES ASSUME p = pos, ~(pos + 1 <= m) PROVE FALSE  OBVIOUS
      <3>1. Token = Peek(u, p + 1) /\ Peek(text, pos + 1) = Peek(u, p + 2)  BY <2>5, <2>6, <1>2
      <3>2. Token = "comma" => Peek(u, p + 2) \in Strings
        BY <1>5, <3>1 DEF AfterKey
      <3>3. Token # "rbrace" => Token = "comma"  BY <1>5
      <3>4. "lbrace" \notin Strings  BY StructureIsNot
      <3>5. CASE sent.rowId = "first" /\ p = RowAt(sent, k) + 4
        <4>1. p + 1 = RowAt(sent, k) + 5  BY ONLY <3>5, <2>7
        <4> QED  BY ONLY <4>1, <3>1, <3>3, <3>5, <2>7
      <3>6. CASE p = to + 1 /\ sent.rowId = "last"
        <4>1. p + 1 = to + 2  BY ONLY <3>6, <2>7
        <4> QED  BY ONLY <4>1, <3>1, <3>3, <3>6, <2>7
      <3>7. CASE p + 1 = end
        <4>1. p + 2 = end + 1  BY ONLY <3>7, <2>4, <2>7
        <4> QED  BY ONLY <4>1, <3>1, <3>2, <3>3, <3>4, <3>7, <2>7
      <3>8. CASE p = to + 1 /\ sent.rowId # "last"
        <4>1. p + 1 = end  BY ONLY <3>8, <2>7
        <4> QED  BY <4>1, <3>7
      <3>9. CASE sent.rowId = "last" /\ p = to + 5
        <4>1. p + 1 = end  BY ONLY <3>9, <2>7
        <4> QED  BY <4>1, <3>7
      <3> QED  BY <2>3, <3>5, <3>6, <3>8, <3>9
    <2>9. Token = Peek(u, p)  BY <2>5, <2>6, <2>8, <1>2
    <2>10. /\ at' \in {"row", "rowEnd"} /\ pos' = pos + 1 /\ outcome' = outcome
           /\ StandsInRow(sent, k, at', p + 1, row')
      <3>1. /\ Token = "comma" => at' = "row" /\ pos' = pos + 1 /\ outcome' = outcome
            /\ Token = "rbrace" => at' = "rowEnd" /\ pos' = pos + 1 /\ outcome' = outcome
        BY <1>1 DEF Separator, Go, Token
      <3>2. CASE sent.rowId = "first" /\ p = RowAt(sent, k) + 4 /\ row = << >>
        <4>1. p + 1 = RowAt(sent, k) + 5 /\ Token = "comma"  BY <3>2, <2>7, <2>9
        <4> QED  BY <4>1, <3>1, <3>2, <1>1 DEF StandsInRow
      <3>3. CASE p = to + 1 /\ AlikeRow(sent, k, row) /\ sent.rowId = "last"
        <4>1. p + 1 = to + 2 /\ Token = "comma"  BY <3>3, <2>7, <2>9
        <4> QED  BY <4>1, <3>1, <3>3, <1>1 DEF StandsInRow, to
      <3>4. ASSUME p + 1 = end, AlikeRow(sent, k, row), Token = "rbrace"
            PROVE  /\ at' \in {"row", "rowEnd"} /\ pos' = pos + 1 /\ outcome' = outcome
                   /\ StandsInRow(sent, k, at', p + 1, row')
        BY <3>1, <3>4, <1>1 DEF StandsInRow, end
      <3>5. CASE p = to + 1 /\ AlikeRow(sent, k, row) /\ sent.rowId # "last"
        <4>1. p + 1 = end /\ Token = "rbrace"  BY <3>5, <2>7, <2>9
        <4> QED  BY <4>1, <3>4, <3>5
      <3>6. CASE sent.rowId = "last" /\ p = to + 5 /\ AlikeRow(sent, k, row)
        <4>1. p + 1 = end /\ Token = "rbrace"  BY <3>6, <2>7, <2>9
        <4> QED  BY <4>1, <3>4, <3>6
      <3> QED  BY <2>3, <3>2, <3>3, <3>5, <3>6
    <2>11. GoesAlong(m)  BY <2>1, <2>8, <2>10, <1>1, StaysInRow DEF k
    <2> QED  BY <1>1, <2>11, SlidOn
  <1> QED  BY <1>3, <1>4, <1>5

LEMMA AlikeAppended ==
    ASSUME Typed, NEW r, AlikeRows(r, result), AlikeRow(r, Len(result) + 1, row),
           NEW more, more = Append(result, row)
    PROVE  AlikeRows(r, more) /\ Len(more) = Len(result) + 1 /\ Len(result) \in Nat
  <1> DEFINE n == Len(result)
  <1>1. n \in Nat /\ result \in Seq(Seq(CellsRead) \cup Strings) /\ row \in Seq(CellsRead) \cup Strings
    BY LenProperties DEF Typed
  <1>2. /\ Len(more) = n + 1 /\ more[n + 1] = row /\ \A i \in 1..n : more[i] = result[i]
    BY <1>1, AppendProperties
  <1> HIDE DEF n
  <1>3. ASSUME NEW i \in 1..n + 1  PROVE AlikeRow(r, i, more[i])
    <2>1. CASE i = n + 1  BY <2>1, <1>2 DEF n
    <2>2. CASE i # n + 1
      <3>1. i \in 1..n  BY <2>2, <1>1
      <3> QED  BY <3>1, <1>2 DEF AlikeRows, n
    <2> QED  BY <2>1, <2>2
  <1>4. AlikeRows(r, more)  BY <1>2, <1>3 DEF AlikeRows
  <1> QED  BY <1>1, <1>2, <1>4 DEF n

LEMMA SlidRowEnd ==
    ASSUME Typed, Walking, NEW u, u = Rendered(call, sent), NEW m, Slipped(text, u, m),
           Slid(m), RowEnd
    PROVE  Slid(m)'
  <1>1. at = "rowEnd" /\ result' = Append(result, row) /\ UNCHANGED <<call, sent, text>>
    BY DEF RowEnd, Reading
  <1>2. CASE Token \notin {"comma", "rbracket"}
    <2>1. Throws  BY <1>2 DEF RowEnd, End, Throws
    <2> QED  BY <1>1, <2>1, SlidOn
  <1>3. CASE Token \in {"comma", "rbracket"}
    <2>1. PICK p : Seat(p, m)  BY <1>1, RowPlaces DEF Lost
    <2> DEFINE k == Len(result) + 1
               end == RowEndAt(sent, k)
               n == Len(sent.rows)
    <2>2. RowTokens(u, sent, k) /\ k \in 1..n /\ n \in Nat /\ AlikeRows(sent, result) /\ call = "query"
      BY <2>1, SeatRow
    <2>3. p = end /\ AlikeRow(sent, k, row)  BY <2>1, <1>1 DEF Seat, StandsIn, StandsInRow
    <2>4. pos \in Nat /\ p \in Nat /\ m \in Nat \ {0}  BY <2>1, SeatRead DEF Typed
    <2>5. /\ p # pos \/ pos + 0 < m => Peek(text, pos + 0) = Peek(u, p + 0)
          /\ p = pos /\ m <= pos + 0 => Peek(text, pos + 0) = Peek(u, p + 0 + 1)
          /\ p # pos \/ pos + 1 < m => Peek(text, pos + 1) = Peek(u, p + 1)
          /\ p = pos /\ m <= pos + 1 => Peek(text, pos + 1) = Peek(u, p + 1 + 1)
      BY <2>1, SeatRead
    <2>6. Token = Peek(text, pos + 0) /\ p + 0 + 1 = p + 1 /\ p + 0 = p /\ p + 1 + 1 = p + 2
      BY <2>4 DEF Token
    <2>7. (p = pos /\ pos <= m) \/ (p = pos + 1 /\ m <= pos)  BY <2>1 DEF Seat
    <2>8. AlikeRows(sent, result') /\ Len(result') = k
      BY <2>2, <2>3, <1>1, AlikeAppended
    <2>9. /\ k < n => /\ Peek(u, p) = "comma" /\ RowAt(sent, k + 1) = p + 1
                      /\ Peek(u, p + 1) = "lbrace"
          /\ k = n => /\ Peek(u, p) = "rbracket" /\ Peek(u, p + 1) \in {"rbrace", "comma"}
                      /\ Peek(u, p + 1) = "comma" => Peek(u, p + 2) = "truncated"
      <3> HIDE DEF k
      <3> QED  BY ONLY <2>2, <2>3 DEF RowTokens, end, n
    <2>10. k < n \/ k = n  BY ONLY <2>2
    <2>11. /\ Token = "comma" => at' = "rows" /\ pos' = pos + 1 /\ outcome' = outcome
           /\ Token = "rbracket" => at' = "done" /\ outcome' = "returned"
      BY DEF RowEnd, Go, End
    <2> HIDE DEF k, end, n
    <2>12. CASE p # pos \/ pos + 1 <= m
      <3>1. Token = Peek(u, p)  BY <2>4, <2>5, <2>6, <2>12
      <3>2. CASE k < n
        <4>1. at' = "rows" /\ pos' = pos + 1 /\ outcome' = outcome  BY <3>1, <3>2, <2>9, <2>11
        <4>2. StandsIn(call, sent, at', p + 1, row', result')
          BY <4>1, <3>2, <2>2, <2>8, <2>9 DEF StandsIn, n
        <4>3. (pos' <= m /\ p + 1 = pos') \/ (m <= pos' /\ p + 1 = pos' + 1)
          BY ONLY <4>1, <2>4, <2>7, <2>12
        <4>4. GoesAlong(m)
          BY <4>1, <4>2, <4>3 DEF GoesAlong, Placed, Loops, InArray
        <4> QED  BY <1>1, <4>4, SlidOn
      <3>3. CASE k = n
        <4>1. at' = "done" /\ outcome' = "returned"  BY <3>1, <3>3, <2>9, <2>11
        <4>2. GivesBack  BY <4>1, <3>3, <2>2, <2>8 DEF GivesBack, Complete, n
        <4> QED  BY <1>1, <4>2, SlidOn
      <3> QED  BY <2>10, <3>2, <3>3
    <2>13. CASE p = pos /\ ~(pos + 1 <= m)
      <3>1. Token = Peek(u, p + 1) /\ Peek(text, pos + 1) = Peek(u, p + 2)
        BY <2>4, <2>5, <2>6, <2>13
      <3>2. Token = "comma" /\ Peek(text, pos + 1) # "lbrace"
        BY ONLY <3>1, <1>3, <2>9, <2>10
      <3>3. at' = "rows" /\ pos' = pos + 1 /\ outcome' = outcome  BY <3>2, <2>11
      <3>4. GoesAlong(m)  BY <3>2, <3>3 DEF GoesAlong, Placed, Lost, Loops, InArray
      <3> QED  BY <1>1, <3>4, SlidOn
    <2> QED  BY <2>12, <2>13
  <1> QED  BY <1>2, <1>3

(* A member that is not the cells: either its three tokens are there, or the *)
(* walk ends.                                                                *)
LEMMA OtherMember ==
    ASSUME Typed, Walking, NEW u, u = Rendered(call, sent), NEW m, Slipped(text, u, m),
           RowMember, NEW p, Seat(p, m), Peek(u, p) = "row_id", Peek(u, p + 1) = "colon",
           Peek(u, p + 2) = "x", Peek(u, p + 3) \in {"comma", "rbrace"}
    PROVE  \/ Throws
           \/ /\ at' = "memberEnd" /\ pos' = pos + 3 /\ outcome' = outcome
              /\ p # pos \/ pos + 3 <= m
  <1> DEFINE value == AfterKey(text, pos)
             after == SkipValue(text, value)
  <1>1. CASE value = 0  BY <1>1 DEF RowMember, End, Throws
  <1>2. CASE value # 0
    <2>1. pos \in Nat /\ p \in Nat /\ m \in Nat \ {0} /\ Len(text) \in Nat
      BY SeatRead DEF Typed
    <2>2. /\ value = pos + 2 /\ pos + 2 \in Nat /\ pos + 2 <= Len(text) + 1
          /\ Peek(text, pos) \in Strings /\ Peek(text, pos + 1) = "colon"
      BY <1>2, <2>1, AfterKeyBound
    <2>3. /\ p # pos \/ pos + 0 < m => Peek(text, pos + 0) = Peek(u, p + 0)
          /\ p = pos /\ m <= pos + 0 => Peek(text, pos + 0) = Peek(u, p + 0 + 1)
          /\ p # pos \/ pos + 1 < m => Peek(text, pos + 1) = Peek(u, p + 1)
          /\ p = pos /\ m <= pos + 1 => Peek(text, pos + 1) = Peek(u, p + 1 + 1)
          /\ p # pos \/ pos + 2 < m => Peek(text, pos + 2) = Peek(u, p + 2)
          /\ p = pos /\ m <= pos + 2 => Peek(text, pos + 2) = Peek(u, p + 2 + 1)
      BY SeatRead
    <2>4. pos + 0 = pos /\ p + 0 = p /\ p + 0 + 1 = p + 1 /\ p + 1 + 1 = p + 2 /\ p + 2 + 1 = p + 3
      BY <2>1
    <2>5. "colon" \notin Strings  BY StructureIsNot
    <2>6. p # pos \/ pos + 2 <= m  BY ONLY <2>1, <2>2, <2>3, <2>4, <2>5, Peek(u, p + 1) = "colon", Peek(u, p + 2) = "x"
    <2>7. Token # "cells"
      <3>1. Peek(text, pos) = "row_id"
        BY ONLY <2>1, <2>3, <2>4, <2>6, Peek(u, p) = "row_id"
      <3> QED  BY <3>1 DEF Token
    <2>8. IF after = 0 THEN End("thrown") ELSE Go("memberEnd", after)
      BY <1>2, <2>7 DEF RowMember
    <2>9. CASE p # pos \/ pos + 3 <= m
      <3>1. Peek(text, pos + 2) = "x"  BY ONLY <2>1, <2>3, <2>9, Peek(u, p + 2) = "x"
      <3>2. "x" \in Scalars  BY Literals DEF Scalars
      <3>3. after = pos + 3  BY <3>1, <3>2, <2>1, <2>2, OpeningSkipped
      <3> HIDE DEF after
      <3>4. after # 0  BY <3>3, <2>1
      <3> QED  BY <3>3, <3>4, <2>8, <2>9 DEF Go
    <2>10. CASE p = pos /\ ~(pos + 3 <= m)
      <3>1. Peek(text, pos + 2) \in {"comma", "rbrace"}
        BY ONLY <2>1, <2>3, <2>4, <2>6, <2>10, Peek(u, p + 3) \in {"comma", "rbrace"}
      <3>2. Peek(text, pos + 2) \notin Scalars \cup Opening  BY <3>1, StructureIsNot DEF Opening
      <3>3. after = 0  BY <3>2, <2>1, <2>2, NoValue
      <3> QED  BY <3>3, <2>8 DEF End, Throws
    <2> QED  BY <2>9, <2>10
  <1> QED  BY <1>1, <1>2

(* The member that is the cells, in a row of which nothing has been read.    *)
LEMMA CellsMember ==
    ASSUME Typed, Walking, NEW u, u = Rendered(call, sent), NEW m, Slipped(text, u, m),
           RowMember, NEW p, Seat(p, m), p = CellsFrom(sent, Len(result) + 1) - 3, row = << >>
    PROVE  Throws \/ GoesAlong(m)
  <1> DEFINE value == AfterKey(text, pos)
             after == SkipValue(text, value)
             k == Len(result) + 1
             cells == sent.rows[k]
  <1>0. at = "row" /\ row' = row /\ result' = result /\ UNCHANGED <<call, sent, text>>
    BY DEF RowMember, Reading
  <1>1. CASE value = 0  BY <1>1 DEF RowMember, End, Throws
  <1>2. CASE value # 0
    <2>1. pos \in Nat /\ p \in Nat /\ m \in Nat \ {0} /\ Len(text) \in Nat
      BY SeatRead DEF Typed
    <2>2. /\ value = pos + 2 /\ pos + 2 \in Nat /\ pos + 2 <= Len(text) + 1
          /\ Peek(text, pos) \in Strings /\ Peek(text, pos + 1) = "colon"
      BY <1>2, <2>1, AfterKeyBound
    <2>3. \A i \in Nat : /\ p # pos \/ pos + i < m => Peek(text, pos + i) = Peek(u, p + i)
                         /\ p = pos /\ m <= pos + i => Peek(text, pos + i) = Peek(u, p + i + 1)
      BY SeatRead
    <2>4. /\ p # pos \/ pos + 0 < m => Peek(text, pos + 0) = Peek(u, p + 0)
          /\ p = pos /\ m <= pos + 0 => Peek(text, pos + 0) = Peek(u, p + 0 + 1)
          /\ p # pos \/ pos + 1 < m => Peek(text, pos + 1) = Peek(u, p + 1)
          /\ p = pos /\ m <= pos + 1 => Peek(text, pos + 1) = Peek(u, p + 1 + 1)
          /\ p # pos \/ pos + 2 < m => Peek(text, pos + 2) = Peek(u, p + 2)
          /\ p = pos /\ m <= pos + 2 => Peek(text, pos + 2) = Peek(u, p + 2 + 1)
          /\ p # pos \/ pos + 3 < m => Peek(text, pos + 3) = Peek(u, p + 3)
          /\ p = pos /\ m <= pos + 3 => Peek(text, pos + 3) = Peek(u, p + 3 + 1)
          /\ p = pos /\ m <= pos + 4 => Peek(text, pos + 4) = Peek(u, p + 4 + 1)
          /\ p = pos /\ m <= pos + 5 => Peek(text, pos + 5) = Peek(u, p + 5 + 1)
      BY <2>3
    <2>5. /\ pos + 0 = pos /\ p + 0 = p /\ p + 0 + 1 = p + 1 /\ p + 1 + 1 = p + 2
          /\ p + 2 + 1 = p + 3 /\ p + 3 + 1 = p + 4 /\ p + 4 + 1 = p + 5 /\ p + 5 + 1 = p + 6
      BY <2>1
    <2>6. /\ k \in 1..Len(sent.rows) /\ RowTokens(u, sent, k) /\ IsReply(sent)
          /\ QueryLayout(u, sent) /\ Len(u) \in Nat /\ k = Len(result) + 1
      BY SeatRow
    <2>7. /\ CellsFrom(sent, k) = p + 3 /\ Peek(u, p) = "cells" /\ Peek(u, p + 1) = "colon"
          /\ Peek(u, p + 2) = "lbracket"
          /\ Len(cells) \in Nat
          /\ Len(cells) = 0 => /\ Peek(u, p + 3) = "rbracket" /\ CellsTo(sent, k) = p + 3
                               /\ Peek(u, p + 4) \in {"rbrace", "comma"}
          /\ Len(cells) # 0 => /\ Peek(u, p + 3) \in DOMAIN Numbers
                               /\ CellAt(p + 3, cells, 1) = p + 3
      <3> DEFINE from == CellsFrom(sent, k)
      <3> HIDE DEF k
      <3>4. /\ RowAt(sent, k) \in Nat
            /\ from = RowAt(sent, k) + (IF sent.rowId = "first" THEN 8 ELSE 4)
        BY ONLY <2>6 DEF RowTokens, from
      <3>5. from \in Nat  BY ONLY <3>4
      <3>1. /\ Peek(u, from - 3) = "cells" /\ Peek(u, from - 2) = "colon"
            /\ Peek(u, from - 1) = "lbracket" /\ Len(cells) \in Nat
            /\ Len(cells) = 0 => CellsTo(sent, k) = from
            /\ Len(cells) # 0 => Peek(u, from) \in DOMAIN Numbers /\ CellAt(from, cells, 1) = from
            /\ Peek(u, CellsTo(sent, k)) = "rbracket"
            /\ Peek(u, CellsTo(sent, k) + 1) \in {"rbrace", "comma"}
        BY ONLY <2>6 DEF RowTokens, from, cells
      <3>2. p = from - 3  BY <2>6
      <3> HIDE DEF from, cells
      <3>3. from = p + 3 /\ from - 3 = p /\ from - 2 = p + 1 /\ from - 1 = p + 2 /\ from + 1 = p + 4
        BY ONLY <3>5, <3>2
      <3> QED  BY ONLY <3>1, <3>3 DEF from
    <2> HIDE DEF k, cells
    <2>8. p # pos \/ pos + 2 <= m
      <3>1. "colon" \notin Strings  BY StructureIsNot
      <3> QED  BY ONLY <2>1, <2>2, <2>4, <2>5, <2>7, <3>1
    <2>9. Token = "cells"
      <3>1. Peek(text, pos) = "cells"  BY ONLY <2>1, <2>4, <2>5, <2>7, <2>8
      <3> QED  BY <3>1 DEF Token
    (* The array opens.                                                        *)
    <2>10. CASE p # pos \/ pos + 3 <= m
      <3>1. Peek(text, pos + 2) = "lbracket"  BY ONLY <2>1, <2>4, <2>7, <2>10
      <3>2. /\ value + 1 = pos + 3 /\ value + 2 = pos + 4  BY <2>1, <2>2
      <3>3. IF Peek(text, pos + 3) = "rbracket" THEN Go("memberEnd", pos + 4) ELSE Go("cells", pos + 3)
        BY <1>2, <2>2, <2>9, <3>1, <3>2 DEF RowMember
      <3>4. CASE Len(cells) # 0
        <4>1. Peek(text, pos + 3) # "rbracket"
          <5>1. Peek(u, p + 4) = "comma"
            <6>1. 1 \in 1..Len(sent.rows[k])  BY <2>7, <3>4 DEF cells
            <6>2. CellTokens(u, sent, k, 1)  BY <6>1, <2>6, CellHolds
            <6>3. CellAt(CellsFrom(sent, k), cells, 1) = p + 3  BY <2>7, <3>4
            <6>4. Peek(u, p + 3 + 1) = "comma"  BY <6>2, <6>3 DEF CellTokens, cells
            <6> QED  BY <6>4, <2>5
          <5>2. "rbracket" \notin DOMAIN Numbers  BY StructureIsNot
          <5> QED  BY ONLY <5>1, <5>2, <2>1, <2>4, <2>5, <2>7, <3>4
        <4>2. at' = "cells" /\ pos' = pos + 3 /\ outcome' = outcome  BY <3>3, <4>1 DEF Go
        <4>3. StandsInRow(sent, k, at', p + 3, row')
          <5>1. row' = << >> /\ Len(row') = 0 /\ Len(row') + 1 = 1  BY <1>0
          <5>2. 0 < Len(cells)  BY <2>7, <3>4
          <5>3. AlikeCells(sent, k, row')  BY <5>1 DEF AlikeCells
          <5>4. p + 3 = CellAt(CellsFrom(sent, k), cells, Len(row') + 1)
            BY <5>1, <2>7, <3>4
          <5> QED  BY ONLY <5>1, <5>2, <5>3, <5>4, <4>2 DEF StandsInRow, cells
        <4> QED  BY <4>2, <4>3, <2>10, <1>0, StaysInRow DEF k
      <3>5. CASE Len(cells) = 0 /\ (p # pos \/ pos + 4 <= m)
        <4>1. Peek(text, pos + 3) = "rbracket"  BY ONLY <2>1, <2>4, <2>7, <3>5
        <4>2. at' = "memberEnd" /\ pos' = pos + 4 /\ outcome' = outcome  BY <3>3, <4>1 DEF Go
        <4>3. StandsInRow(sent, k, at', p + 4, row')
          <5>1. row' = << >> /\ Len(row') = 0  BY <1>0
          <5>2. AlikeRow(sent, k, row')  BY <5>1, <3>5 DEF AlikeRow, AlikeCells, cells
          <5>3. p + 4 = CellsTo(sent, k) + 1  BY ONLY <2>1, <2>7, <3>5
          <5> QED  BY ONLY <5>2, <5>3, <4>2 DEF StandsInRow
        <4> QED  BY <4>2, <4>3, <3>5, <1>0, StaysInRow DEF k
      <3>6. CASE Len(cells) = 0 /\ p = pos /\ ~(pos + 4 <= m)
        <4>1. Peek(text, pos + 3) \in {"rbrace", "comma"}
          BY ONLY <2>1, <2>4, <2>5, <2>7, <2>10, <3>6
        <4>2. Peek(text, pos + 3) \notin DOMAIN Numbers  BY <4>1, StructureIsNot
        <4>3. at' = "cells" /\ pos' = pos + 3 /\ outcome' = outcome  BY <3>3, <4>1 DEF Go
        <4> QED  BY <4>2, <4>3 DEF GoesAlong, Placed, Lost, Loops, InArray
      <3> QED  BY <3>4, <3>5, <3>6
    (* It has lost its opening bracket, and the first column is skipped.       *)
    <2>11. CASE p = pos /\ ~(pos + 3 <= m)
      <3>1. /\ Peek(text, pos + 2) = Peek(u, p + 3) /\ Peek(text, pos + 3) = Peek(u, p + 4)
            /\ Peek(text, pos + 4) = Peek(u, p + 5) /\ Peek(text, pos + 5) = Peek(u, p + 6)
        BY ONLY <2>1, <2>4, <2>5, <2>8, <2>11
      <3>2. Peek(text, pos + 2) # "lbracket"
        <4>1. "lbracket" \notin DOMAIN Numbers  BY StructureIsNot
        <4> QED  BY ONLY <3>1, <4>1, <2>7
      <3>3. IF after = 0 THEN End("thrown") ELSE Go("memberEnd", after)
        BY <1>2, <2>2, <3>2 DEF RowMember
      <3>4. CASE Len(cells) = 0
        <4>1. Peek(text, pos + 2) \notin Scalars \cup Opening
          BY <3>1, <3>4, <2>7, StructureIsNot DEF Opening
        <4>2. after = 0  BY <4>1, <2>1, <2>2, NoValue
        <4> QED  BY <4>2, <3>3 DEF End, Throws
      <3>5. CASE Len(cells) # 0
        <4>1. Peek(text, pos + 2) \in Scalars  BY <3>1, <3>5, <2>7 DEF Scalars
        <4>2. after = pos + 3  BY <4>1, <2>1, <2>2, OpeningSkipped
        <4> HIDE DEF after
        <4>3. at' = "memberEnd" /\ pos' = pos + 3 /\ outcome' = outcome
          BY <4>2, <3>3, <2>1 DEF Go
        <4>4. /\ Peek(u, p + 4) = "comma"
              /\ Peek(u, p + 5) \in Strings => Peek(u, p + 6) # "colon"
          <5> DEFINE e == CellEnd(CellsFrom(sent, k), cells, 1)
          <5>1. 1 \in 1..Len(sent.rows[k])  BY <2>7, <3>5 DEF cells
          <5>2. CellTokens(u, sent, k, 1)  BY <5>1, <2>6, CellHolds
          <5>3. CellAt(CellsFrom(sent, k), cells, 1) = p + 3  BY <2>7, <3>5
          <5>4. /\ Peek(u, p + 3 + 1) = "comma"
                /\ Peek(u, p + 3 + 2) \in Scalars => e = p + 3 + 3
                /\ Peek(u, e) \in {"comma", "rbracket"}
            <6>1. 1 < Len(cells) \/ 1 = Len(cells)
              <7>1. \A n \in Nat : n # 0 => 1 < n \/ 1 = n  OBVIOUS
              <7> QED  BY ONLY <7>1, <2>7, <3>5
            <6> QED  BY ONLY <5>2, <5>3, <6>1 DEF CellTokens, cells, e
          <5> HIDE DEF e
          <5>5. p + 3 + 1 = p + 4 /\ p + 3 + 2 = p + 5 /\ p + 3 + 3 = p + 6  BY <2>1
          <5>6. Strings \subseteq Scalars  BY DEF Scalars
          <5> QED  BY ONLY <5>4, <5>5, <5>6
        <4>5. AfterKey(text, pos + 4) = 0
          <5>1. pos + 4 + 1 = pos + 5  BY <2>1
          <5> QED  BY <3>1, <4>4, <5>1 DEF AfterKey
        <4>6. Peek(text, pos') = "comma" /\ AfterKey(text, pos' + 1) = 0
          <5>1. pos' + 1 = pos + 4  BY <4>3, <2>1
          <5> QED  BY ONLY <5>1, <4>3, <4>4, <4>5, <3>1
        <4> QED  BY <4>3, <4>6 DEF GoesAlong, Placed, Lost, Loops, InArray
      <3> QED  BY <3>4, <3>5
    <2> QED  BY <2>10, <2>11
  <1> QED  BY <1>1, <1>2

LEMMA SlidRowMember ==
    ASSUME Typed, Walking, NEW u, u = Rendered(call, sent), NEW m, Slipped(text, u, m),
           Slid(m), RowMember
    PROVE  Slid(m)'
  <1>1. at = "row" /\ row' = row /\ result' = result /\ UNCHANGED <<call, sent, text>>
    BY DEF RowMember, Reading
  <1>2. CASE AfterKey(text, pos) = 0
    <2>1. Throws  BY <1>2 DEF RowMember, End, Throws
    <2> QED  BY <1>1, <2>1, SlidOn
  <1>3. CASE AfterKey(text, pos) # 0
    <2>1. PICK p : Seat(p, m)  BY <1>1, <1>3, RowPlaces DEF Lost
    <2> DEFINE k == Len(result) + 1
               to == CellsTo(sent, k)
    <2>2. RowTokens(u, sent, k)  BY <2>1, SeatRow
    <2>3. \/ p = RowAt(sent, k) + 1 /\ row = << >>
          \/ sent.rowId = "first" /\ p = RowAt(sent, k) + 5 /\ row = << >>
          \/ sent.rowId = "last" /\ p = to + 2 /\ AlikeRow(sent, k, row)
      BY <2>1, <1>1 DEF Seat, StandsIn, StandsInRow
    <2>4. /\ RowAt(sent, k) \in Nat /\ to \in Nat
          /\ CellsFrom(sent, k) = RowAt(sent, k) + (IF sent.rowId = "first" THEN 8 ELSE 4)
          /\ sent.rowId = "first" => /\ Peek(u, RowAt(sent, k) + 1) = "row_id"
                                     /\ Peek(u, RowAt(sent, k) + 2) = "colon"
                                     /\ Peek(u, RowAt(sent, k) + 3) = "x"
                                     /\ Peek(u, RowAt(sent, k) + 4) = "comma"
          /\ sent.rowId = "last" => /\ Peek(u, to + 2) = "row_id" /\ Peek(u, to + 3) = "colon"
                                    /\ Peek(u, to + 4) = "x" /\ Peek(u, to + 5) = "rbrace"
      <3> HIDE DEF k
      <3> QED  BY ONLY <2>2 DEF RowTokens, to
    <2> HIDE DEF k, to
    <2>5. CASE p = RowAt(sent, k) + 1 /\ row = << >> /\ sent.rowId = "first"
      <3>1. /\ p + 1 = RowAt(sent, k) + 2 /\ p + 2 = RowAt(sent, k) + 3 /\ p + 3 = RowAt(sent, k) + 4
        BY <2>4, <2>5
      <3>2. /\ Peek(u, p) = "row_id" /\ Peek(u, p + 1) = "colon" /\ Peek(u, p + 2) = "x"
            /\ Peek(u, p + 3) \in {"comma", "rbrace"}
        BY ONLY <2>4, <2>5, <3>1
      <3>3. \/ Throws
            \/ /\ at' = "memberEnd" /\ pos' = pos + 3 /\ outcome' = outcome
               /\ p # pos \/ pos + 3 <= m
        BY <2>1, <3>2, OtherMember
      <3>4. at' = "memberEnd" => StandsInRow(sent, k, at', p + 3, row')
        BY <3>1, <2>5, <1>1 DEF StandsInRow
      <3>5. Throws \/ GoesAlong(m)  BY <2>1, <3>3, <3>4, <1>1, StaysInRow DEF k
      <3> QED  BY <1>1, <3>5, SlidOn
    <2>6. CASE sent.rowId = "last" /\ p = to + 2 /\ AlikeRow(sent, k, row)
      <3>1. /\ p + 1 = to + 3 /\ p + 2 = to + 4 /\ p + 3 = to + 5  BY <2>4, <2>6
      <3>2. /\ Peek(u, p) = "row_id" /\ Peek(u, p + 1) = "colon" /\ Peek(u, p + 2) = "x"
            /\ Peek(u, p + 3) \in {"comma", "rbrace"}
        BY ONLY <2>4, <2>6, <3>1
      <3>3. \/ Throws
            \/ /\ at' = "memberEnd" /\ pos' = pos + 3 /\ outcome' = outcome
               /\ p # pos \/ pos + 3 <= m
        BY <2>1, <3>2, OtherMember
      <3>4. at' = "memberEnd" => StandsInRow(sent, k, at', p + 3, row')
        BY <3>1, <2>6, <1>1 DEF StandsInRow, to
      <3>5. Throws \/ GoesAlong(m)  BY <2>1, <3>3, <3>4, <1>1, StaysInRow DEF k
      <3> QED  BY <1>1, <3>5, SlidOn
    <2>7. CASE p = CellsFrom(sent, k) - 3 /\ row = << >>
      <3>1. Throws \/ GoesAlong(m)  BY <2>1, <2>7, CellsMember DEF k
      <3> QED  BY <1>1, <3>1, SlidOn
    <2>8. \/ p = RowAt(sent, k) + 1 /\ row = << >> /\ sent.rowId = "first"
          \/ sent.rowId = "last" /\ p = to + 2 /\ AlikeRow(sent, k, row)
          \/ p = CellsFrom(sent, k) - 3 /\ row = << >>
      BY ONLY <2>3, <2>4
    <2> QED  BY <2>5, <2>6, <2>7, <2>8
  <1> QED  BY <1>2, <1>3

(* The cells of a row lie between its brackets.                              *)
LEMMA CellsWithin ==
    ASSUME NEW u, Len(u) \in Nat, NEW r, IsReply(r), QueryLayout(u, r),
           NEW k \in 1..Len(r.rows), NEW j \in 1..Len(r.rows[k])
    PROVE  /\ CellsFrom(r, k) <= CellAt(CellsFrom(r, k), r.rows[k], j)
           /\ CellEnd(CellsFrom(r, k), r.rows[k], j) <= CellsTo(r, k)
           /\ CellsFrom(r, k) \in Nat /\ CellsTo(r, k) \in Nat
  <1> DEFINE cells == r.rows[k]
             from == CellsFrom(r, k)
             to == CellsTo(r, k)
             n == Len(cells)
  <1>1. from \in Nat \ {0} /\ IsRow(cells)  BY CellsStart
  <1>2. to \in Nat /\ n \in Nat  BY RowHolds DEF RowTokens
  <1>3. from <= CellAt(from, cells, j)
    <2>1. Parts(CellParts(cells)) /\ Len(CellParts(cells)) = n  BY <1>1, CellPart
    <2>2. j \in 1..Len(CellParts(cells))  BY <2>1
    <2>3. Offset(CellParts(cells), j) \in Nat  BY ONLY <2>1, <2>2, OffsetFacts
    <2>4. CellAt(from, cells, j) = from + Offset(CellParts(cells), j)  BY DEF CellAt
    <2> HIDE DEF from
    <2> QED  BY ONLY <1>1, <2>3, <2>4
  <1> DEFINE last(i) == CellEnd(from, cells, i)
             S == {i \in 0..n : i # 0 => last(i) <= to}
  <1>4. \A i \in 1..n :
           /\ last(i) \in Nat /\ (i = n => last(i) = to)
           /\ i < n => last(i) + 1 + 3 <= last(i + 1)
    <2>1. ASSUME NEW i \in 1..n
          PROVE  /\ last(i) \in Nat /\ (i = n => last(i) = to)
                 /\ i < n => last(i) + 1 + 3 <= last(i + 1)
      <3>1. CellTokens(u, r, k, i)  BY <2>1, CellHolds
      <3>2. last(i) \in Nat /\ (i = n => last(i) = to) /\ (i < n => CellAt(from, cells, i + 1) = last(i) + 1)
        BY <3>1 DEF CellTokens
      <3>3. i < n => CellAt(from, cells, i + 1) + 3 <= last(i + 1)
        <4> SUFFICES ASSUME i < n PROVE CellAt(from, cells, i + 1) + 3 <= last(i + 1)  OBVIOUS
        <4>1. i + 1 \in 1..n  BY <1>2
        <4>2. CellTokens(u, r, k, i + 1)  BY <4>1, CellHolds
        <4> QED  BY <4>2 DEF CellTokens
      <3> HIDE DEF last
      <3> QED  BY ONLY <3>2, <3>3
    <2> QED  BY <2>1
  <1> HIDE DEF last, to, n
  <1>5. ASSUME NEW i \in 0..n, \A q \in 0..n : i < q => q \in S  PROVE i \in S
    <2>1. CASE i = 0 \/ i = n  BY <2>1, <1>2, <1>4
    <2>2. CASE i # 0 /\ i # n
      <3>1. i \in 1..n /\ i < n /\ i + 1 \in 1..n /\ i + 1 \in 0..n /\ i < i + 1 /\ i + 1 # 0
        BY <2>2, <1>2
      <3>2. last(i + 1) <= to  BY <3>1, <1>5
      <3>3. last(i) \in Nat /\ last(i + 1) \in Nat /\ last(i) + 1 + 3 <= last(i + 1)  BY <3>1, <1>4
      <3>4. last(i) <= to  BY ONLY <3>2, <3>3, <1>2
      <3> QED  BY <3>4
    <2> QED  BY <2>1, <2>2
  <1>6. 0..n \subseteq S
    <2> HIDE DEF S
    <2> QED  BY <1>2, <1>5, InductBack
  <1>7. j \in 0..n /\ j # 0  BY <1>2 DEF n
  <1>8. last(j) <= to  BY <1>6, <1>7
  <1> QED  BY <1>1, <1>2, <1>3, <1>8 DEF last, to

(* A turn that reads a cell and goes on.                                     *)
CellTurn(value, after) ==
    /\ Token \in DOMAIN Numbers /\ value = (IF Peek(text, pos + 1) = "comma" THEN pos + 2 ELSE pos + 1)
    /\ after = SkipValue(text, value) /\ after # 0 /\ value \in Nat \ {0} /\ value <= Len(text) + 1
    /\ after \in Nat /\ value < after
    /\ row' = Append(row, [column |-> Numbers[Token], value |-> SubSeq(text, value, after - 1)])
    /\ outcome' = outcome /\ pos' = after + 1
    /\ \/ Peek(text, after) = "comma" /\ at' = "cells"
       \/ Peek(text, after) = "rbracket" /\ at' = "memberEnd"

LEMMA CellTurns ==
    ASSUME Typed, NextCell
    PROVE  Throws \/ \E value, after : CellTurn(value, after)
  <1> DEFINE value == IF Peek(text, pos + 1) = "comma" THEN pos + 2 ELSE pos + 1
             after == SkipValue(text, value)
  <1>1. CASE Token \notin DOMAIN Numbers \/ after = 0
    BY <1>1 DEF NextCell, End, Throws
  <1>2. CASE Token \in DOMAIN Numbers /\ after # 0
    <2>1. /\ row' = Append(row, [column |-> Numbers[Token], value |-> SubSeq(text, value, after - 1)])
          /\ Separator(after, "cells", "rbracket", "memberEnd", "thrown")
      BY <1>2 DEF NextCell
    <2>2. pos \in Nat /\ Len(text) \in Nat  BY DEF Typed
    <2>3. value \in Nat \ {0} /\ value <= Len(text) + 1
      <3>1. Token # "nothing"
        <4>1. "nothing" \notin DOMAIN Numbers  BY TokenAssumption DEF Tokens, Scalars
        <4> QED  BY <4>1, <1>2
      <3>2. pos \in 1..Len(text)  BY <2>2, <3>1, PeekFacts DEF Token
      <3>3. Peek(text, pos + 1) = "comma" => pos + 1 \in 1..Len(text)  BY <2>2, PeekFacts
      <3> QED  BY ONLY <2>2, <3>2, <3>3
    <2>4. after \in Nat /\ value < after
      <3>1. Behind(text, value, after)  BY <2>2, <2>3, SkipValueBound
      <3> HIDE DEF value, after
      <3> QED  BY ONLY <3>1, <1>2, <2>2, <2>3 DEF Behind
    <2>5. Throws \/ CellTurn(value, after)
      <3>0. value = (IF Peek(text, pos + 1) = "comma" THEN pos + 2 ELSE pos + 1) /\ after = SkipValue(text, value)
        OBVIOUS
      <3> HIDE DEF value, after
      <3>1. CASE Peek(text, after) = "comma"
        <4>1. at' = "cells" /\ pos' = after + 1 /\ outcome' = outcome  BY <2>1, <3>1 DEF Separator, Go
        <4> QED  BY ONLY <4>1, <3>0, <3>1, <1>2, <2>1, <2>3, <2>4 DEF CellTurn
      <3>2. CASE Peek(text, after) = "rbracket"
        <4>1. at' = "memberEnd" /\ pos' = after + 1 /\ outcome' = outcome  BY <2>1, <3>2 DEF Separator, Go
        <4> QED  BY ONLY <4>1, <3>0, <3>2, <1>2, <2>1, <2>3, <2>4 DEF CellTurn
      <3>3. CASE Peek(text, after) \notin {"comma", "rbracket"}
        BY <2>1, <3>3 DEF Separator, End, Throws
      <3> QED  BY <3>1, <3>2, <3>3
    <2> QED  BY <2>5
  <1> QED  BY <1>1, <1>2

(* The value ends inside a cell, one deeper than the cell.                   *)
LEMMA LooseTurn ==
    ASSUME Typed, NEW u, u = Rendered(call, sent), u = RenderQuery(sent), NEW m, Slipped(text, u, m),
           NEW k \in 1..Len(sent.rows), NEW j \in 1..Len(sent.rows[k]), CellTokens(u, sent, k, j),
           NEW value, NEW after, CellTurn(value, after), m <= after,
           InCell(u, sent, k, j, after + 1), result' = result
    PROVE  GoesAlong(m)
  <1> DEFINE p == CellAt(CellsFrom(sent, k), sent.rows[k], j)
             e == CellEnd(CellsFrom(sent, k), sent.rows[k], j)
  <1>1. /\ p \in Nat /\ e \in Nat /\ Round(u, p + 2, e) /\ Len(sent.rows[k]) \in Nat
        /\ Peek(u, e) = "comma" => Peek(u, e + 1) \in DOMAIN Numbers
        /\ Peek(u, e) \in {"comma", "rbracket"}
    <2>1. j < Len(sent.rows[k]) \/ j = Len(sent.rows[k])  BY DEF CellTokens
    <2> QED  BY <2>1 DEF CellTokens
  <1>2. p + 2 < after + 1 /\ after + 1 < e /\ Depth(u, after + 1) = Depth(u, p + 2) + 1
    BY DEF InCell
  <1>3. after \in Nat /\ after \in Int /\ m \in Nat \ {0}  BY DEF CellTurn, Slipped
  <1> HIDE DEF p, e
  <1>4. /\ Depth(u, after + 2) = Depth(u, after + 1) + Lift(Peek(u, after + 1))
        /\ Depth(u, p + 2) \in Int
    <2>1. after + 1 \in Nat \ {0} /\ (after + 1) + 1 = after + 2 /\ p + 2 \in Nat \ {0}
      BY <1>1, <1>3
    <2> QED  BY <2>1, DepthStep
  <1>5. \A q \in Nat : p + 2 < q /\ q < e => Depth(u, q) > Depth(u, p + 2)  BY <1>1 DEF Round
  <1>6. Depth(u, e) = Depth(u, p + 2)  BY <1>1 DEF Round
  <1>7. Peek(text, after) = Peek(u, after + 1) /\ Peek(text, after + 1) = Peek(u, after + 2)
        /\ Peek(text, after + 2) = Peek(u, after + 3)
    <2>1. \A q \in Int : m <= q => Peek(text, q) = Peek(u, q + 1)  BY SlippedPeek
    <2>2. /\ m <= after + 1 /\ after + 1 \in Int /\ (after + 1) + 1 = after + 2
          /\ m <= after + 2 /\ after + 2 \in Int /\ (after + 2) + 1 = after + 3
      BY <1>3
    <2> QED  BY ONLY <1>3, <2>1, <2>2, m <= after
  <1>8. CASE Peek(text, after) = "comma"
    <2>1. at' = "cells" /\ pos' = after + 1 /\ outcome' = outcome  BY <1>8 DEF CellTurn
    <2>2. Depth(u, after + 2) = Depth(u, p + 2) + 1
      BY <1>2, <1>4, <1>7, <1>8, Lifts
    <2>3. p + 2 < after + 2 /\ after + 2 < e
      <3>1. after + 2 # e  BY ONLY <2>2, <1>4, <1>6
      <3> QED  BY ONLY <3>1, <1>1, <1>2, <1>3
    <2>4. InCell(u, sent, k, j, after + 2)  BY <2>2, <2>3 DEF InCell, p, e
    <2>5. pos' + 1 = after + 2 /\ m <= pos'  BY <2>1, <1>3
    <2>6. Loose(u, sent, pos' + 1)  BY <2>4, <2>5 DEF Loose
    <2>7. Lost(text, u, sent, at', pos', m)  BY <2>1, <2>5, <2>6 DEF Lost
    <2> QED  BY <2>1, <2>7 DEF GoesAlong, Placed, Loops, InArray
  <1>9. CASE Peek(text, after) = "rbracket"
    <2>1. at' = "memberEnd" /\ pos' = after + 1 /\ outcome' = outcome  BY <1>9 DEF CellTurn
    <2>2. Depth(u, after + 2) = Depth(u, p + 2)
      <3>1. Lift(Peek(u, after + 1)) = 0 - 1  BY <1>7, <1>9, Lifts
      <3> QED  BY ONLY <3>1, <1>2, <1>4
    <2>3. after + 2 = e
      <3>1. after + 2 \in Nat /\ p + 2 < after + 2 /\ after + 2 <= e  BY ONLY <1>1, <1>2, <1>3
      <3>2. after + 2 < e => Depth(u, after + 2) > Depth(u, p + 2)  BY ONLY <1>5, <3>1
      <3> QED  BY ONLY <3>1, <3>2, <2>2, <1>4, <1>1
    <2>4. Peek(text, pos') = Peek(u, e) /\ Peek(text, pos' + 1) = Peek(u, e + 1)
      <3>1. pos' + 1 = after + 2 /\ e + 1 = after + 3  BY <2>1, <2>3, <1>3
      <3> QED  BY ONLY <3>1, <2>1, <2>3, <1>7
    <2>5. Peek(text, pos') = "comma" => AfterKey(text, pos' + 1) = 0
      <3>1. \A token \in DOMAIN Numbers : token \notin Strings  BY StructureIsNot
      <3> QED  BY <3>1, <2>4, <1>1 DEF AfterKey
    <2>6. Lost(text, u, sent, at', pos', m)  BY <2>1, <2>4, <2>5, <1>1 DEF Lost
    <2> QED  BY <2>1, <2>6 DEF GoesAlong, Placed, Loops, InArray
  <1> QED  BY <1>8, <1>9 DEF CellTurn

LEMMA NumbersAre ==
    ASSUME NEW token \in DOMAIN Numbers
    PROVE  token \notin {"lbrace", "rbrace", "lbracket", "rbracket", "colon", "comma", "row_id"}
  <1>1. token \notin {"lbrace", "rbrace", "lbracket", "rbracket", "colon", "comma"}
    BY StructureIsNot
  <1>2. token # "row_id"  BY StructureIsNot, Literals
  <1> QED  BY <1>1, <1>2

(* A walk that is in the middle of a value, and takes what stands there for  *)
(* a cell, is in the middle of it afterwards, or takes the bracket that ends *)
(* the value for the end of the row; nothing fits behind that.               *)
LEMMA LooseStays ==
    ASSUME Typed, NEW u, u = Rendered(call, sent), NEW m, Slipped(text, u, m),
           m <= pos, Loose(u, sent, pos + 1), NextCell
    PROVE  Throws \/ GoesAlong(m)
  <1>1. PICK k \in 1..Len(sent.rows) : \E j \in 1..Len(sent.rows[k]) : InCell(u, sent, k, j, pos + 1)
    BY DEF Loose
  <1>2. PICK j \in 1..Len(sent.rows[k]) : InCell(u, sent, k, j, pos + 1)  BY <1>1
  <1>3. u = RenderQuery(sent) /\ IsReply(sent) /\ result' = result  BY DEF Loose, Typed, NextCell
  <1>4. QueryLayout(u, sent) /\ Len(u) \in Nat  BY <1>3, QueryText
  <1>5. CellTokens(u, sent, k, j)  BY <1>3, <1>4, CellHolds
  <1>6. SUFFICES ASSUME NEW value, NEW after, CellTurn(value, after)  PROVE GoesAlong(m)
    BY CellTurns
  <1> DEFINE v == CellAt(CellsFrom(sent, k), sent.rows[k], j) + 2
             e == CellEnd(CellsFrom(sent, k), sent.rows[k], j)
  <1>7. Round(u, v, e) /\ e \in Nat /\ v \in Nat \ {0}
    <2>1. /\ CellAt(CellsFrom(sent, k), sent.rows[k], j) \in Nat /\ e \in Nat
          /\ Round(u, CellAt(CellsFrom(sent, k), sent.rows[k], j) + 2, e)
      BY <1>5 DEF CellTokens
    <2> QED  BY <2>1
  <1>8. v < pos + 1 /\ pos + 1 < e /\ Depth(u, pos + 1) = Depth(u, v) + 1  BY <1>2 DEF InCell
  <1> HIDE DEF v, e
  <1>9. /\ pos \in Nat /\ m \in Nat \ {0} /\ value \in Nat \ {0} /\ after \in Nat /\ value < after
        /\ Token \in DOMAIN Numbers /\ value = (IF Peek(text, pos + 1) = "comma" THEN pos + 2 ELSE pos + 1)
        /\ Len(text) \in Nat /\ value <= Len(text) + 1 /\ after = SkipValue(text, value)
    <2>1. pos \in Nat /\ m \in Nat \ {0} /\ Len(text) \in Nat  BY DEF Typed, Slipped
    <2>2. /\ value \in Nat \ {0} /\ after \in Nat /\ value < after /\ Token \in DOMAIN Numbers
          /\ value = (IF Peek(text, pos + 1) = "comma" THEN pos + 2 ELSE pos + 1)
          /\ value <= Len(text) + 1 /\ after = SkipValue(text, value)
      BY <1>6 DEF CellTurn
    <2> QED  BY ONLY <2>1, <2>2
  <1>10. \A q \in Nat : m <= q => Peek(text, q) = Peek(u, q + 1)
    <2>1. Nat \subseteq Int  OBVIOUS
    <2> QED  BY <2>1, SlippedPeek
  <1>11. \A q \in Nat \ {0} : Depth(u, q) \in Int /\ Depth(u, q + 1) = Depth(u, q) + Lift(Peek(u, q))
    BY DepthStep
  <1>12. Depth(u, e) = Depth(u, v) /\ Depth(u, v) \in Int  BY <1>7, <1>11 DEF Round
  (* A token that is no bracket does not bring it to the end of the value.   *)
  <1>13. ASSUME NEW q \in Nat, v < q, q < e, Depth(u, q) = Depth(u, v) + 1, Lift(Peek(u, q)) = 0
         PROVE  q + 1 < e /\ Depth(u, q + 1) = Depth(u, v) + 1
    <2>1. q \in Nat \ {0}  BY <1>7, <1>13
    <2>2. Depth(u, q + 1) = Depth(u, v) + 1  BY <2>1, <1>11, <1>12, <1>13
    <2>3. q + 1 # e  BY ONLY <2>2, <1>12
    <2> QED  BY ONLY <2>2, <2>3, <1>7, <1>13
  <1>14. v < value + 1 /\ value + 1 < e /\ Depth(u, value + 1) = Depth(u, v) + 1 /\ m <= value
    <2>1. Lift(Peek(u, pos + 1)) = 0
      <3>1. Token = Peek(u, pos + 1)  BY <1>9, <1>10 DEF Token
      <3> QED  BY <3>1, <1>9, Lifts DEF Scalars
    <2>2. pos + 1 \in Nat /\ (pos + 1) + 1 = pos + 2  BY <1>9
    <2>3. pos + 2 < e /\ Depth(u, pos + 2) = Depth(u, v) + 1  BY <2>1, <2>2, <1>8, <1>13
    <2>4. CASE Peek(text, pos + 1) # "comma"
      <3>1. value = pos + 1 /\ value + 1 = pos + 2  BY <2>4, <1>9
      <3> QED  BY ONLY <3>1, <2>3, <1>8, <1>9, <1>7, m <= pos
    <2>5. CASE Peek(text, pos + 1) = "comma"
      <3>1. value = pos + 2 /\ value + 1 = pos + 3 /\ pos + 2 \in Nat /\ (pos + 2) + 1 = pos + 3 /\ v < pos + 2
        BY <2>5, <1>9, <1>8, <1>7
      <3>2. Lift(Peek(u, pos + 2)) = 0
        <4>1. m <= pos + 1  BY <1>9
        <4>2. Peek(u, pos + 2) = "comma"  BY <2>2, <2>5, <1>10, <4>1
        <4> QED  BY <4>2, Lifts
      <3>3. pos + 3 < e /\ Depth(u, pos + 3) = Depth(u, v) + 1  BY <3>1, <3>2, <2>3, <1>13
      <3> QED  BY ONLY <3>1, <3>3, <1>8, <1>9, <1>7, m <= pos
    <2> QED  BY <2>4, <2>5
  <1>15. Round(text, value, after)  BY <1>9, ValueRound
  <1> DEFINE l == Lift(Peek(u, m))
  <1>16. l \in Int  BY Lifts
  <1>17. \A q \in Nat \ {0} : m <= q => Depth(text, q) = Depth(u, q + 1) - l  BY DepthSlipped
  <1> HIDE DEF l
  <1>18. \A q \in Nat \ {0} : m <= q => Depth(u, q + 1) \in Int
    <2>1. \A q \in Nat \ {0} : q + 1 \in Nat \ {0}  OBVIOUS
    <2> QED  BY <2>1, <1>11
  <1>19. Depth(text, after) = Depth(text, value) /\ m <= after /\ after \in Nat \ {0}
    BY <1>9, <1>14, <1>15 DEF Round
  <1>20. Depth(u, after + 1) = Depth(u, v) + 1
    <2>1. Depth(text, after) = Depth(u, after + 1) - l /\ Depth(u, after + 1) \in Int  BY <1>17, <1>18, <1>19
    <2>2. Depth(text, value) = Depth(u, value + 1) - l /\ Depth(u, value + 1) \in Int
      BY <1>9, <1>14, <1>17, <1>18
    <2> QED  BY ONLY <2>1, <2>2, <1>14, <1>16, <1>19
  <1>21. after + 1 < e
    <2> SUFFICES ASSUME e <= after + 1 PROVE FALSE  BY <1>7, <1>9
    <2>1. e - 1 \in Nat \ {0} /\ m <= e - 1 /\ (e - 1) + 1 = e /\ value < e - 1 /\ e - 1 <= after
      BY ONLY <1>7, <1>9, <1>14, e <= after + 1
    <2>2. Depth(text, e - 1) = Depth(u, e) - l  BY <2>1, <1>17
    <2>3. Depth(text, value) = Depth(u, value + 1) - l  BY <1>9, <1>14, <1>17
    <2>4. e - 1 < after => Depth(text, e - 1) > Depth(text, value)  BY <2>1, <1>15 DEF Round
    <2>5. e - 1 = after => Depth(text, e - 1) = Depth(text, value)  BY <1>19
    <2>6. Depth(text, e - 1) = Depth(u, v) - l /\ Depth(text, value) = (Depth(u, v) + 1) - l
      <3>1. Depth(u, e) = Depth(u, v) /\ Depth(u, value + 1) = Depth(u, v) + 1  BY <1>12, <1>14
      <3> QED  BY ONLY <2>2, <2>3, <3>1
    <2> QED  BY ONLY <2>1, <2>4, <2>5, <2>6, <1>9, <1>12, <1>16
  <1>22. InCell(u, sent, k, j, after + 1)
    <2>1. v < after + 1  BY ONLY <1>7, <1>9, <1>14
    <2> QED  BY <2>1, <1>20, <1>21 DEF InCell, v, e
  <1> QED  BY <1>3, <1>5, <1>6, <1>19, <1>22, LooseTurn

(* Behind the cells of the row the walk reads on as if another cell stood    *)
(* there, and finds none.                                                    *)
LEMMA PastCells ==
    ASSUME Typed, NEW u, u = Rendered(call, sent), NEW m, Slipped(text, u, m),
           NEW k \in 1..Len(sent.rows), RowTokens(u, sent, k), NEW value, NEW after,
           CellTurn(value, after), after = CellsTo(sent, k), m <= after
    PROVE  GoesAlong(m)
  <1> DEFINE to == CellsTo(sent, k)
  <1>1. /\ to \in Nat /\ Peek(u, to + 1) \in {"rbrace", "comma"}
        /\ Peek(u, to + 1) = "comma" => Peek(u, to + 2) = "row_id"
    BY DEF RowTokens
  <1> HIDE DEF to
  <1>2. after = to  BY DEF to
  <1>3. \A q \in Int : m <= q => Peek(text, q) = Peek(u, q + 1)  BY SlippedPeek
  <1>4. m \in Nat  BY DEF Slipped
  <1>5. Peek(text, after) = Peek(u, to + 1) /\ Peek(text, after + 1) = Peek(u, to + 2)
    <2>1. m <= to + 1 /\ to + 1 \in Int /\ (to + 1) + 1 = to + 2 /\ to \in Int /\ m <= to
      BY ONLY <1>1, <1>2, <1>4, m <= after
    <2> QED  BY ONLY <1>2, <1>3, <2>1
  <1>6. Peek(text, after) = "comma" /\ at' = "cells" /\ pos' = after + 1 /\ outcome' = outcome
    BY <1>1, <1>5 DEF CellTurn
  <1>7. Peek(text, pos') \notin DOMAIN Numbers
    <2>1. Peek(text, pos') = "row_id"  BY <1>1, <1>5, <1>6
    <2> QED  BY <2>1, NumbersAre
  <1> QED  BY <1>6, <1>7 DEF GoesAlong, Placed, Lost, Loops, InArray

(* Where a cell is read.                                                     *)
CellSeat(u, m, p, k, j) ==
    /\ at = "cells" /\ Seat(p, m) /\ k = Len(result) + 1 /\ j = Len(row) + 1
    /\ k \in 1..Len(sent.rows) /\ j \in 1..Len(sent.rows[k]) /\ Len(row) \in Nat
    /\ RowTokens(u, sent, k) /\ CellTokens(u, sent, k, j) /\ CellsLevel(u, sent, k)
    /\ p = CellAt(CellsFrom(sent, k), sent.rows[k], j) /\ AlikeCells(sent, k, row)
    /\ CellsFrom(sent, k) <= p /\ CellEnd(CellsFrom(sent, k), sent.rows[k], j) <= CellsTo(sent, k)
    /\ CellsFrom(sent, k) \in Nat /\ CellsTo(sent, k) \in Nat

LEMMA CellSeats ==
    ASSUME Typed, NEW u, u = Rendered(call, sent), NEW m, NEW p, Seat(p, m), at = "cells"
    PROVE  \E k, j : CellSeat(u, m, p, k, j)
  <1> DEFINE k == Len(result) + 1
             j == Len(row) + 1
  <1>1. /\ k \in 1..Len(sent.rows) /\ RowTokens(u, sent, k) /\ IsReply(sent)
        /\ QueryLayout(u, sent) /\ Len(u) \in Nat
    BY SeatRow
  <1>2. /\ Len(row) < Len(sent.rows[k]) /\ AlikeCells(sent, k, row)
        /\ p = CellAt(CellsFrom(sent, k), sent.rows[k], j)
    BY DEF Seat, StandsIn, StandsInRow
  <1>3. Len(row) \in Nat /\ Len(sent.rows[k]) \in Nat
    <2>1. Len(row) \in Nat  BY LenProperties DEF Typed
    <2>2. Len(sent.rows[k]) \in Nat  BY <1>1 DEF RowTokens
    <2> QED  BY <2>1, <2>2
  <1>4. j \in 1..Len(sent.rows[k])  BY ONLY <1>2, <1>3
  <1> HIDE DEF k, j
  <1>5. CellTokens(u, sent, k, j) /\ CellsLevel(u, sent, k)  BY <1>1, <1>4, CellHolds, LevelCells
  <1>6. /\ CellsFrom(sent, k) <= p /\ CellEnd(CellsFrom(sent, k), sent.rows[k], j) <= CellsTo(sent, k)
        /\ CellsFrom(sent, k) \in Nat /\ CellsTo(sent, k) \in Nat
    BY <1>1, <1>2, <1>4, CellsWithin
  <1>7. k = Len(result) + 1 /\ j = Len(row) + 1  BY DEF k, j
  <1>8. CellSeat(u, m, p, k, j)
    BY ONLY <1>1, <1>2, <1>3, <1>4, <1>5, <1>6, <1>7, at = "cells", Seat(p, m) DEF CellSeat
  <1> QED  BY <1>8

(* A cell whose value was found where it stands, is read alike.              *)
LEMMA CellKept ==
    ASSUME Typed, NEW u, u = Rendered(call, sent), NEW m, Slipped(text, u, m), NEW p, NEW k, NEW j,
           CellSeat(u, m, p, k, j), NEW value, NEW after, CellTurn(value, after), result' = result,
           Token = Peek(u, p), NEW e, e = CellEnd(CellsFrom(sent, k), sent.rows[k], j),
           (after = e - 1 /\ m <= after) \/ (after = e /\ e < m),
           e = p + 3 => after = value + 1 /\ Peek(text, value) = Peek(u, p + 2)
    PROVE  GoesAlong(m)
  <1> DEFINE cells == sent.rows[k]
             v == cells[j].value
             cell == [column |-> Numbers[Token], value |-> SubSeq(text, value, after - 1)]
  <1>1. /\ p \in Nat /\ e \in Nat /\ p + 3 <= e /\ Peek(u, p) = cells[j].column
        /\ Len(v) = e - (p + 2) /\ (e = p + 3 => v = <<Peek(u, p + 2)>>)
        /\ Len(cells) \in Nat
        /\ j < Len(cells) => /\ Peek(u, e) = "comma" /\ CellAt(CellsFrom(sent, k), cells, j + 1) = e + 1
        /\ j = Len(cells) => e = CellsTo(sent, k) /\ Peek(u, e) = "rbracket"
    <2>1. CellTokens(u, sent, k, j) /\ p = CellAt(CellsFrom(sent, k), sent.rows[k], j)  BY DEF CellSeat
    <2> QED  BY <2>1 DEF CellTokens
  <1>2. /\ k = Len(result) + 1 /\ j = Len(row) + 1 /\ j \in 1..Len(cells) /\ Len(row) \in Nat
        /\ AlikeCells(sent, k, row) /\ call = "query" /\ AlikeRows(sent, result)
        /\ Len(result) < Len(sent.rows)
    BY DEF CellSeat, Seat, StandsIn
  <1>3. /\ after \in Nat /\ value \in Nat \ {0} /\ value < after /\ pos' = after + 1 /\ outcome' = outcome
        /\ row' = Append(row, cell)
        /\ \/ Peek(text, after) = "comma" /\ at' = "cells"
           \/ Peek(text, after) = "rbracket" /\ at' = "memberEnd"
    BY DEF CellTurn
  <1>4. m \in Nat /\ Len(text) \in Nat /\ row \in Seq(CellsRead)  BY DEF Slipped, Typed
  <1>14. p \in Nat /\ e \in Nat /\ p + 3 <= e  BY <1>1
  <1>15. after \in Nat /\ pos' = after + 1  BY <1>3
  <1>16. m \in Nat  BY <1>4
  <1>17. (after = e - 1 /\ m <= after) \/ (after = e /\ e < m)  OBVIOUS
  <1>18. Len(v) = 1 => e = p + 3
    <2> SUFFICES ASSUME Len(v) = 1 PROVE e = p + 3  OBVIOUS
    <2>1. e - (p + 2) = 1  BY <1>1
    <2> QED  BY ONLY <2>1, <1>14
  <1>5. Peek(text, after) = Peek(u, e)
    <2>1. /\ after < m => Peek(text, after) = Peek(u, after)
          /\ m <= after => Peek(text, after) = Peek(u, after + 1)
      BY <1>3, SlippedPeek
    <2>2. after = e - 1 => after + 1 = e  BY ONLY <1>14, <1>15
    <2> QED  BY ONLY <2>1, <2>2, <1>14, <1>15, <1>16, <1>17
  <1>6. Len(v) = 1 => SubSeq(text, value, after - 1) = v
    <2> SUFFICES ASSUME Len(v) = 1 PROVE SubSeq(text, value, after - 1) = v  OBVIOUS
    <2> HIDE DEF v
    <2>1. e = p + 3  BY <1>18
    <2>2. after - 1 = value /\ Peek(text, value) = Peek(u, p + 2)  BY <2>1, <1>3
    <2>3. value \in 1..Len(text) /\ Peek(text, value) = text[value]
      <3>1. CellTokens(u, sent, k, j) /\ p = CellAt(CellsFrom(sent, k), sent.rows[k], j)
        BY DEF CellSeat
      <3>2. Peek(u, p + 2) \in Scalars \cup Opening  BY <3>1 DEF CellTokens
      <3>3. "nothing" \notin Scalars \cup Opening  BY StructureIsNot DEF Opening
      <3>4. Peek(text, value) # "nothing"  BY <2>2, <3>2, <3>3
      <3> QED  BY <3>4, <1>3, <1>4, PeekFacts
    <2>4. text \in Seq(Arrivable)  BY DEF Typed
    <2>5. SubSeq(text, value, value) = <<text[value]>>
      <3>1. value \in value..Len(text)  BY <2>3, <1>4
      <3>2. SubSeq(text, value, value) = <<text[value]>> \o SubSeq(text, value + 1, value)
        BY <2>3, <2>4, <3>1, SubSeqRecursiveFirst
      <3>3. SubSeq(text, value + 1, value) = << >>
        <4>1. value + 1 \in Int /\ value \in Int /\ value < value + 1  BY <1>3
        <4> QED  BY <4>1, SubSeqEmpty
      <3>4. <<text[value]>> \in Seq(Arrivable)
        <4>1. text[value] \in Arrivable  BY <2>3, <2>4, ElementOfSeq
        <4> QED  BY <4>1
      <3>5. <<text[value]>> \o << >> = <<text[value]>>  BY <3>4, ConcatEmptySeq
      <3> QED  BY ONLY <3>2, <3>3, <3>5
    <2> QED  BY <2>1, <2>2, <2>3, <2>5, <1>1
  <1>7. AlikeCell(sent, k, j, cell)
    <2>1. MeantRow(sent, k)[j] = [column |-> Numbers[cells[j].column], value |-> v]
      BY <1>2 DEF MeantRow
    <2>2. Token = cells[j].column  BY <1>1
    <2> QED  BY <1>6, <2>1, <2>2 DEF AlikeCell
  <1>8. cell \in CellsRead
    <2>1. text \in Seq(Arrivable) /\ Token \in DOMAIN Numbers  BY DEF Typed, CellTurn
    <2>2. after <= Len(text) + 1
      <3>1. after = SkipValue(text, value) /\ value <= Len(text) + 1  BY DEF CellTurn
      <3>2. value \in 0..Len(text) + 1  BY <3>1, <1>3, <1>4
      <3> QED  BY <3>1, <3>2, <1>4, SkipValueBound DEF Behind
    <2>3. SubSeq(text, value, after - 1) \in Seq(Arrivable)
      <3>1. \A i \in value..(after - 1) : text[i] \in Arrivable
        <4>1. \A i \in value..(after - 1) : i \in 1..Len(text)  BY <2>2, <1>3, <1>4
        <4> QED  BY <4>1, <2>1, ElementOfSeq
      <3>2. value \in Int /\ after - 1 \in Int  BY <1>3
      <3> QED  BY <3>1, <3>2, SubSeqProperties
    <2> QED  BY <2>1, <2>3 DEF CellsRead
  <1> HIDE DEF cell, v, cells
  <1>9. /\ Len(row') = j /\ row'[j] = cell /\ \A i \in 1..Len(row) : row'[i] = row[i]
    BY <1>2, <1>3, <1>4, <1>8, AppendProperties
  <1>10. AlikeCells(sent, k, row')
    <2>1. ASSUME NEW i \in 1..j  PROVE AlikeCell(sent, k, i, row'[i])
      <3>1. i = j \/ i \in 1..Len(row)  BY <1>2
      <3> QED  BY <3>1, <1>2, <1>7, <1>9 DEF AlikeCells
    <2> QED  BY <1>9, <2>1 DEF AlikeCells
  <1>11. at' \in {"cells", "memberEnd"} /\ StandsInRow(sent, k, at', e + 1, row')
    <2>1. j < Len(cells) \/ j = Len(cells)  BY ONLY <1>1, <1>2
    <2>2. CASE j < Len(cells)
      <3>1. at' = "cells"  BY <2>2, <1>1, <1>3, <1>5
      <3>2. e + 1 = CellAt(CellsFrom(sent, k), cells, Len(row') + 1)  BY <2>2, <1>1, <1>9
      <3> QED  BY ONLY <3>1, <3>2, <2>2, <1>9, <1>10 DEF StandsInRow, cells
    <2>3. CASE j = Len(cells)
      <3>1. at' = "memberEnd"  BY <2>3, <1>1, <1>3, <1>5
      <3>2. AlikeRow(sent, k, row')  BY <2>3, <1>9, <1>10 DEF AlikeRow, cells
      <3>3. e + 1 = CellsTo(sent, k) + 1  BY <2>3, <1>1
      <3> QED  BY ONLY <3>1, <3>2, <3>3 DEF StandsInRow
    <2> QED  BY <2>1, <2>2, <2>3
  <1>12. StandsIn(call, sent, at', e + 1, row', result')
    BY <1>2, <1>11 DEF StandsIn
  <1>13. (pos' <= m /\ e + 1 = pos') \/ (m <= pos' /\ e + 1 = pos' + 1)
    BY ONLY <1>14, <1>15, <1>16, <1>17
  <1> QED  BY <1>3, <1>11, <1>12, <1>13 DEF GoesAlong, Placed, Loops, InArray

(* A value that stands behind the missing token.                             *)
LEMMA CellBehind ==
    ASSUME Typed, NEW u, u = Rendered(call, sent), NEW m, Slipped(text, u, m), NEW p, NEW k, NEW j,
           CellSeat(u, m, p, k, j), NEW value, NEW after, CellTurn(value, after), result' = result,
           Token = Peek(u, p), value + 1 = p + 2, m <= value
    PROVE  GoesAlong(m)
  <1> DEFINE e == CellEnd(CellsFrom(sent, k), sent.rows[k], j)
  <1>1. /\ p \in Nat /\ e \in Nat /\ p + 3 <= e /\ Round(u, p + 2, e)
    <2>1. CellTokens(u, sent, k, j) /\ p = CellAt(CellsFrom(sent, k), sent.rows[k], j)  BY DEF CellSeat
    <2> QED  BY <2>1 DEF CellTokens
  <1>2. /\ after = SkipValue(text, value) /\ after # 0 /\ value \in Nat \ {0} /\ value <= Len(text) + 1
    BY DEF CellTurn
  <1>3. e = CellEnd(CellsFrom(sent, k), sent.rows[k], j)  OBVIOUS
  <1> HIDE DEF e
  <1>4. after = e - 1
    <2>1. value \in Nat /\ Round(u, value + 1, e)  BY <1>1, <1>2
    <2> QED  BY <2>1, <1>2, RoundBehind
  <1>5. m \in Nat  BY DEF Slipped
  <1>6. m <= after /\ (e = p + 3 => after = value + 1)
    BY ONLY <1>1, <1>2, <1>4, <1>5, value + 1 = p + 2, m <= value
  <1>7. Peek(text, value) = Peek(u, p + 2)
    <2>1. value \in Int  BY <1>2
    <2> QED  BY <2>1, SlippedPeek
  <1> QED  BY <1>3, <1>4, <1>6, <1>7, CellKept

(* The closing bracket that is missing ends a value within this one: it goes *)
(* on through the cells behind, up to the bracket that ends them all.        *)
LEMMA RoundUnclosed ==
    ASSUME Typed, NEW u, u = Rendered(call, sent), NEW m, Slipped(text, u, m), NEW p, NEW k, NEW j,
           CellSeat(u, m, p, k, j), NEW e, e = CellEnd(CellsFrom(sent, k), sent.rows[k], j),
           p + 2 < m, m < e, Lift(Peek(u, m)) = 0 - 1, p + 2 <= Len(text) + 1,
           SkipValue(text, p + 2) # 0
    PROVE  SkipValue(text, p + 2) = CellsTo(sent, k)
  <1> DEFINE to == CellsTo(sent, k)
             from == CellsFrom(sent, k)
             base == Depth(u, from)
  <1>1. /\ p \in Nat /\ e \in Nat /\ p + 3 <= e /\ Round(u, p + 2, e)
    <2>1. CellTokens(u, sent, k, j) /\ p = CellAt(CellsFrom(sent, k), sent.rows[k], j)  BY DEF CellSeat
    <2> QED  BY <2>1 DEF CellTokens
  <1>2. from <= p /\ e <= to /\ from \in Nat /\ to \in Nat /\ m \in Nat \ {0} /\ Len(text) \in Nat
    BY DEF CellSeat, Slipped
  <1>3. /\ base \in Int /\ Depth(u, to + 1) = base - 1 /\ Depth(u, p + 2) = base
        /\ \A q \in Nat : from <= q /\ q <= to => Depth(u, q) >= base
    <2>1. CellsLevel(u, sent, k) /\ p = CellAt(from, sent.rows[k], j) /\ j \in 1..Len(sent.rows[k])
      BY DEF CellSeat
    <2>2. /\ base \in Int /\ Depth(u, to + 1) = base - 1
          /\ \A q \in Nat : from <= q /\ q <= to => Depth(u, q) >= base
          /\ \A i \in 1..Len(sent.rows[k]) : Depth(u, CellAt(from, sent.rows[k], i) + 2) = base
      BY ONLY <2>1 DEF CellsLevel
    <2> HIDE DEF base, to, from
    <2>3. Depth(u, p + 2) = base  BY ONLY <2>1, <2>2
    <2> QED  BY ONLY <2>2, <2>3
  <1> HIDE DEF to, from, base
  <1>4. \A q \in Nat \ {0} : /\ q <= m => Depth(text, q) = Depth(u, q)
                             /\ m <= q => Depth(text, q) = Depth(u, q + 1) - (0 - 1)
    BY DepthSlipped
  <1>5. \A q \in Nat \ {0} : Depth(u, q) \in Int  BY DepthStep
  <1>6. p + 2 \in Nat \ {0} /\ to \in Nat \ {0} /\ p + 2 < to /\ m <= to /\ p + 2 <= m
    BY ONLY <1>1, <1>2, p + 2 < m, m < e
  <1>7. Depth(text, p + 2) = base  BY ONLY <1>3, <1>4, <1>6
  <1>8. Depth(text, to) = base
    <2>1. Depth(text, to) = Depth(u, to + 1) - (0 - 1)  BY ONLY <1>4, <1>6
    <2> QED  BY ONLY <2>1, <1>3
  <1>9. ASSUME NEW q \in Nat, p + 2 < q, q < to  PROVE Depth(text, q) > base
    <2>1. CASE q <= m
      <3>1. q \in Nat \ {0} /\ q < e  BY <2>1, <1>9, <1>1, <1>2
      <3>2. Depth(u, q) > Depth(u, p + 2)  BY <3>1, <1>1, <1>9 DEF Round
      <3>3. Depth(text, q) = Depth(u, q)  BY <2>1, <3>1, <1>4
      <3> QED  BY ONLY <3>2, <3>3, <1>3
    <2>2. CASE ~(q <= m)
      <3>1. q \in Nat \ {0} /\ m <= q /\ q + 1 \in Nat \ {0} /\ from <= q + 1 /\ q + 1 <= to
        BY <2>2, <1>9, <1>1, <1>2
      <3>2. Depth(u, q + 1) >= base /\ Depth(u, q + 1) \in Int  BY <3>1, <1>3, <1>5
      <3>3. Depth(text, q) = Depth(u, q + 1) - (0 - 1)  BY <3>1, <1>4
      <3> QED  BY ONLY <3>2, <3>3, <1>3
    <2> QED  BY <2>1, <2>2
  <1>10. Round(text, p + 2, to)  BY ONLY <1>6, <1>7, <1>8, <1>9 DEF Round
  <1>11. Round(text, p + 2, SkipValue(text, p + 2))  BY <1>2, <1>6, ValueRound
  <1>12. SkipValue(text, p + 2) = to  BY <1>6, <1>10, <1>11, OneRound
  <1> QED  BY <1>12 DEF to

(* A cell whose column and comma are there and whose value misses a token.   *)
LEMMA CellAcross ==
    ASSUME Typed, NEW u, u = Rendered(call, sent), NEW m, Slipped(text, u, m), NEW p, NEW k, NEW j,
           CellSeat(u, m, p, k, j), NEW value, NEW after, CellTurn(value, after), result' = result,
           Token = Peek(u, p), value = p + 2, NEW e, e = CellEnd(CellsFrom(sent, k), sent.rows[k], j),
           value <= m, m < e
    PROVE  GoesAlong(m)
  <1>1. /\ p \in Nat /\ e \in Nat /\ p + 3 <= e /\ Round(u, p + 2, e)
        /\ Peek(u, p + 2) \in Scalars \cup Opening
        /\ Peek(u, p + 2) \in Scalars => e = p + 3
        /\ Peek(u, e) \in {"comma", "rbracket"}
    <2>1. CellTokens(u, sent, k, j) /\ p = CellAt(CellsFrom(sent, k), sent.rows[k], j)  BY DEF CellSeat
    <2>2. j < Len(sent.rows[k]) \/ j = Len(sent.rows[k])
      <3>1. j \in 1..Len(sent.rows[k]) /\ Len(sent.rows[k]) \in Nat  BY <2>1 DEF CellSeat, CellTokens
      <3> QED  BY ONLY <3>1
    <2> QED  BY <2>1, <2>2 DEF CellTokens
  <1>2. /\ after = SkipValue(text, value) /\ after # 0 /\ value \in Nat \ {0} /\ value <= Len(text) + 1
        /\ after \in Nat /\ value < after
    BY DEF CellTurn
  <1>3. m \in Nat \ {0} /\ Len(text) \in Nat  BY DEF Slipped
  <1>4. \A q \in Int : /\ q < m => Peek(text, q) = Peek(u, q)
                       /\ m <= q => Peek(text, q) = Peek(u, q + 1)
    BY SlippedPeek
  <1>5. CASE e = p + 3
    <2>1. p + 2 \in Int /\ m <= p + 2 /\ (p + 2) + 1 = e  BY ONLY <1>1, <1>3, <1>5, m < e
    <2>2. Peek(text, p + 2) = Peek(u, e)  BY ONLY <1>4, <2>1
    <2>3. Peek(text, p + 2) \notin Scalars \cup Opening
      BY <1>1, <2>2, StructureIsNot DEF Opening
    <2>4. SkipValue(text, p + 2) = 0  BY <1>1, <1>2, <1>3, <2>3, NoValue
    <2> QED  BY <1>2, <2>4
  <1>6. CASE e # p + 3
    <2>1. Peek(u, p + 2) \in Opening  BY <1>1, <1>6
    <2>2. p + 2 \in Nat \ {0} /\ p + 2 <= m /\ p + 3 < e /\ (p + 2) + 1 < e /\ p + 2 <= Len(text) + 1
      BY ONLY <1>1, <1>2, <1>3, <1>6, value = p + 2, value <= m
    <2>3. SkipValue(text, p + 2) # 0 /\ after = SkipValue(text, p + 2)  BY ONLY <1>2, value = p + 2
    <2>4. /\ Lift(Peek(u, m)) = 0 => (p + 2 < m /\ after = e - 1) \/ p + 2 = m
          /\ Lift(Peek(u, m)) = 1 => /\ m <= after /\ p + 2 < after /\ after + 1 < e
                                     /\ Depth(u, after + 1) = Depth(u, p + 2) + 1
      BY <2>2, <2>3, <1>1, RoundAcross
    <2>5. Lift(Peek(u, m)) \in {0, 1, 0 - 1}  BY DEF Lift
    <2>6. p + 2 = m => Lift(Peek(u, m)) = 1  BY <2>1 DEF Lift
    <2>7. CASE Lift(Peek(u, m)) = 0
      <3>1. after = e - 1  BY <2>4, <2>6, <2>7
      <3>2. m <= after  BY ONLY <3>1, <1>1, <1>3, m < e
      <3> QED  BY <1>6, <3>1, <3>2, CellKept
    <2>8. CASE Lift(Peek(u, m)) = 1
      <3>1. /\ CellTokens(u, sent, k, j) /\ p = CellAt(CellsFrom(sent, k), sent.rows[k], j)
            /\ k \in 1..Len(sent.rows) /\ j \in 1..Len(sent.rows[k]) /\ call = "query"
        BY DEF CellSeat, Seat, StandsIn
      <3>2. p + 2 < after + 1  BY <2>4, <2>8, <1>1, <1>2
      <3>3. InCell(u, sent, k, j, after + 1)
        <4>1. p + 2 < after + 1 /\ after + 1 < e /\ Depth(u, after + 1) = Depth(u, p + 2) + 1
          BY <2>4, <2>8, <3>2
        <4> QED  BY <4>1, <3>1 DEF InCell
      <3>4. u = RenderQuery(sent)  BY <3>1 DEF Rendered
      <3>5. m <= after  BY <2>4, <2>8
      <3> QED  BY <3>1, <3>3, <3>4, <3>5, LooseTurn
    <2>9. CASE Lift(Peek(u, m)) = 0 - 1
      <3>1. p + 2 < m
        <4>1. p + 2 # m  BY ONLY <2>6, <2>9, 1 # 0 - 1
        <4> QED  BY ONLY <4>1, <2>2, <1>3
      <3>2. after = CellsTo(sent, k)  BY <2>2, <2>3, <2>9, <3>1, RoundUnclosed
      <3>3. e <= CellsTo(sent, k) /\ CellsTo(sent, k) \in Nat /\ k \in 1..Len(sent.rows)
            /\ RowTokens(u, sent, k)
        BY DEF CellSeat
      <3>4. m <= after  BY ONLY <3>2, <3>3, <1>1, <1>3, m < e
      <3> QED  BY <3>2, <3>3, <3>4, PastCells
    <2> QED  BY <2>5, <2>7, <2>8, <2>9
  <1> QED  BY <1>5, <1>6

(* A cell that stands before the missing token.                              *)
LEMMA CellBefore ==
    ASSUME Typed, NEW u, u = Rendered(call, sent), NEW m, Slipped(text, u, m), NEW p, NEW k, NEW j,
           CellSeat(u, m, p, k, j), NEW value, NEW after, CellTurn(value, after), result' = result,
           Token = Peek(u, p), value = p + 2, NEW e, e = CellEnd(CellsFrom(sent, k), sent.rows[k], j),
           e <= m
    PROVE  GoesAlong(m)
  <1>1. /\ p \in Nat /\ e \in Nat /\ p + 3 <= e /\ Round(u, p + 2, e) /\ Len(sent.rows[k]) \in Nat
        /\ j < Len(sent.rows[k]) => Peek(u, e + 1) \in DOMAIN Numbers
        /\ j = Len(sent.rows[k]) => e = CellsTo(sent, k)
    <2>1. CellTokens(u, sent, k, j) /\ p = CellAt(CellsFrom(sent, k), sent.rows[k], j)  BY DEF CellSeat
    <2> QED  BY <2>1 DEF CellTokens
  <1>2. /\ after = SkipValue(text, value) /\ after # 0 /\ value \in Nat \ {0} /\ value <= Len(text) + 1
        /\ Peek(text, after) \in {"comma", "rbracket"}
    BY DEF CellTurn
  <1>3. m \in Nat \ {0}  BY DEF Slipped
  <1>4. after = e
    <2>1. p + 2 \in Nat \ {0} /\ p + 2 <= Len(text) + 1 /\ SkipValue(text, p + 2) # 0
      BY ONLY <1>1, <1>2, value = p + 2
    <2>2. SkipValue(text, p + 2) = e  BY <2>1, <1>1, RoundBefore
    <2> QED  BY ONLY <2>2, <1>2, value = p + 2
  <1>5. CASE e < m
    <2>1. e = p + 3 => after = value + 1  BY ONLY <1>1, <1>4, value = p + 2
    <2>2. Peek(text, value) = Peek(u, p + 2)
      <3>1. p + 2 \in Int /\ p + 2 < m  BY ONLY <1>1, <1>3, <1>5
      <3> QED  BY <3>1, SlippedPeek
    <2> QED  BY <1>4, <1>5, <2>1, <2>2, CellKept
  <1>6. CASE e = m
    <2>1. Peek(text, after) = Peek(u, e + 1)
      <3>1. e \in Int /\ m <= e  BY ONLY <1>1, <1>6
      <3> QED  BY <3>1, <1>4, SlippedPeek
    <2>2. ~(j < Len(sent.rows[k]))  BY <1>1, <1>2, <2>1, NumbersAre
    <2>3. j \in 1..Len(sent.rows[k]) /\ k \in 1..Len(sent.rows) /\ RowTokens(u, sent, k)  BY DEF CellSeat
    <2>4. j = Len(sent.rows[k])  BY ONLY <2>2, <2>3, <1>1
    <2>5. after = CellsTo(sent, k)  BY ONLY <2>4, <1>1, <1>4
    <2>6. m <= after  BY ONLY <1>4, <1>6, <1>3
    <2> QED  BY <2>3, <2>5, <2>6, PastCells
  <1>7. e < m \/ e = m  BY ONLY <1>1, <1>3, e <= m
  <1> QED  BY <1>5, <1>6, <1>7

LEMMA SlidNextCell ==
    ASSUME Typed, Walking, NEW u, u = Rendered(call, sent), NEW m, Slipped(text, u, m),
           Slid(m), NextCell
    PROVE  Slid(m)'
  <1>1. at = "cells" /\ result' = result /\ UNCHANGED <<call, sent, text>>
    BY DEF NextCell, Reading
  <1>2. CASE Token \notin DOMAIN Numbers
    <2>1. Throws  BY <1>2 DEF NextCell, End, Throws
    <2> QED  BY <1>1, <2>1, SlidOn
  <1>3. CASE m <= pos /\ Loose(u, sent, pos + 1)
    <2>1. Throws \/ GoesAlong(m)  BY <1>3, LooseStays
    <2> QED  BY <1>1, <2>1, SlidOn
  <1>4. CASE Token \in DOMAIN Numbers /\ ~(m <= pos /\ Loose(u, sent, pos + 1))
    <2>1. PICK p : Seat(p, m)  BY <1>1, <1>4, RowPlaces DEF Lost, Token
    <2>2. PICK k, j : CellSeat(u, m, p, k, j)  BY <2>1, <1>1, CellSeats
    <2>3. ASSUME NEW value, NEW after, CellTurn(value, after)  PROVE GoesAlong(m)
      <3> DEFINE e == CellEnd(CellsFrom(sent, k), sent.rows[k], j)
      <3>1. /\ p \in Nat /\ e \in Nat /\ p + 3 <= e
            /\ Peek(u, p + 1) = "comma" /\ Peek(u, p + 2) \in Scalars \cup Opening
        <4>1. CellTokens(u, sent, k, j) /\ p = CellAt(CellsFrom(sent, k), sent.rows[k], j)
          BY <2>2 DEF CellSeat
        <4> QED  BY <4>1 DEF CellTokens
      <3>2. /\ p # pos \/ pos + 0 < m => Peek(text, pos + 0) = Peek(u, p + 0)
            /\ p = pos /\ m <= pos + 0 => Peek(text, pos + 0) = Peek(u, p + 0 + 1)
            /\ p # pos \/ pos + 1 < m => Peek(text, pos + 1) = Peek(u, p + 1)
            /\ p = pos /\ m <= pos + 1 => Peek(text, pos + 1) = Peek(u, p + 1 + 1)
        BY <2>1, SeatRead
      <3>3. pos \in Nat /\ m \in Nat \ {0}  BY DEF Typed, Slipped
      <3>4. (p = pos /\ pos <= m) \/ (p = pos + 1 /\ m <= pos)  BY <2>1 DEF Seat
      <3>5. Token = Peek(text, pos + 0) /\ p + 0 = p /\ p + 0 + 1 = p + 1 /\ p + 1 + 1 = p + 2
        BY <3>1, <3>3 DEF Token
      <3>6. value = (IF Peek(text, pos + 1) = "comma" THEN pos + 2 ELSE pos + 1)
        BY <2>3 DEF CellTurn
      <3>7. "comma" \notin DOMAIN Numbers /\ "comma" \notin Scalars \cup Opening
        BY StructureIsNot DEF Opening
      <3> HIDE DEF e
      <3>8. CASE p = pos + 1 /\ m <= pos
        <4>1. Token = Peek(u, p) /\ Peek(text, pos + 1) = "comma"
          BY ONLY <3>1, <3>2, <3>3, <3>5, <3>8
        <4>2. value + 1 = p + 2 /\ m <= value  BY ONLY <4>1, <3>3, <3>6, <3>8
        <4> QED  BY <1>1, <2>2, <2>3, <4>1, <4>2, CellBehind
      <3>9. CASE p = pos /\ pos <= m
        <4>1. m # p
          <5> SUFFICES ASSUME m = p PROVE FALSE  OBVIOUS
          <5>1. Token = "comma"  BY ONLY <3>1, <3>2, <3>3, <3>5, <3>9, m = p
          <5> QED  BY ONLY <5>1, <3>7, <1>4
        <4>2. Token = Peek(u, p)  BY ONLY <4>1, <3>2, <3>3, <3>5, <3>9
        <4>3. CASE m = p + 1
          <5>1. Peek(text, pos + 1) = Peek(u, p + 2)
            BY ONLY <3>1, <3>2, <3>3, <3>5, <3>9, <4>3
          <5>2. value = p + 1  BY ONLY <5>1, <3>1, <3>6, <3>7, <3>9
          <5>3. value + 1 = p + 2 /\ m <= value  BY ONLY <5>2, <3>1, <4>3
          <5> QED  BY <1>1, <2>2, <2>3, <4>2, <5>3, CellBehind
        <4>4. CASE p + 2 <= m
          <5>1. Peek(text, pos + 1) = "comma"  BY ONLY <3>1, <3>2, <3>3, <3>9, <4>4
          <5>2. value = p + 2  BY ONLY <5>1, <3>6, <3>9
          <5>3. m < e \/ e <= m  BY ONLY <3>1, <3>3
          <5>4. e = CellEnd(CellsFrom(sent, k), sent.rows[k], j)  BY DEF e
          <5>5. CASE m < e
            <6>1. value <= m  BY ONLY <5>2, <4>4
            <6> QED  BY <1>1, <2>2, <2>3, <4>2, <5>2, <5>4, <5>5, <6>1, CellAcross
          <5>6. CASE e <= m
            BY <1>1, <2>2, <2>3, <4>2, <5>2, <5>4, <5>6, CellBefore
          <5> QED  BY <5>3, <5>5, <5>6
        <4> QED  BY ONLY <3>1, <3>3, <3>9, <4>1, <4>3, <4>4
      <3> QED  BY <3>4, <3>8, <3>9
    <2>4. Throws \/ GoesAlong(m)  BY <2>3, CellTurns
    <2> QED  BY <1>1, <2>4, SlidOn
  <1> QED  BY <1>2, <1>3, <1>4

(* A list of names ends with its closing bracket.                            *)
LEMMA NamesEnd ==
    ASSUME NEW r, IsReply(r)
    PROVE  LET u == RenderNames(r) IN
           /\ Len(r.names) = 0 => Peek(u, 3) = "nothing"
           /\ Len(r.names) # 0 => Peek(u, NameAt(r, Len(r.names)) + 2) = "nothing"
  <1> DEFINE u == RenderNames(r)
             parts == NameParts(r)
             middle == Separated(parts)
             n == Len(r.names)
  <1>1. /\ Parts(parts) /\ Len(parts) = n /\ n \in Nat
        /\ \A k \in 1..n : parts[k] = <<r.names[k]>>
    BY NamePart, NamesStand DEF NameFacts
  <1>2. middle \in Seq(Tokens) /\ Len(middle) \in Nat  BY <1>1, SeparatedIsJoined, LenProperties
  <1>3. Len(u) = Len(middle) + 2
    <2>1. <<"lbracket">> \in Seq(Tokens) /\ <<"rbracket">> \in Seq(Tokens)  BY Literals
    <2>2. Glued(u, <<"lbracket">>, middle, <<"rbracket">>)  BY DEF RenderNames, NameParts, Glued
    <2> HIDE DEF u, middle
    <2>3. LongAsAll(u, <<"lbracket">>, middle, <<"rbracket">>)  BY <1>2, <2>1, <2>2, GluedText
    <2>4. Len(<<"lbracket">>) = 1 /\ Len(<<"rbracket">>) = 1  OBVIOUS
    <2> QED  BY <1>2, <2>3, <2>4 DEF LongAsAll
  <1>4. n = 0 => Len(middle) = 0  BY <1>1, SeparatedIsJoined
  <1>5. n # 0 => NameAt(r, n) + 2 = Len(middle) + 3 /\ NameAt(r, n) \in Nat
    <2> SUFFICES ASSUME n # 0 PROVE NameAt(r, n) + 2 = Len(middle) + 3 /\ NameAt(r, n) \in Nat
      OBVIOUS
    <2>1. n \in 1..Len(parts)
      <3> HIDE DEF n, parts
      <3> QED  BY ONLY <1>1, n # 0
    <2>2. Len(parts[n]) = 1
      <3> DEFINE name == r.names[n]
      <3>1. parts[n] = <<name>>
        <4>1. n \in 1..n
          <5> HIDE DEF n, parts
          <5> QED  BY ONLY <1>1, <2>1
        <4> HIDE DEF parts, n
        <4> QED  BY ONLY <1>1, <4>1
      <3> HIDE DEF parts, name
      <3>2. Len(<<name>>) = 1  OBVIOUS
      <3> QED  BY ONLY <3>1, <3>2
    <2>3. Offset(parts, n) \in Nat /\ Offset(parts, n) + Len(parts[n]) = Len(middle)
      <3> HIDE DEF parts, n
      <3> QED  BY <1>1, <2>1, OffsetFacts
    <2>4. NameAt(r, n) = 2 + Offset(parts, n)  BY DEF NameAt
    <2> HIDE DEF parts, n, middle
    <2> QED  BY <2>2, <2>3, <2>4
  <1>6. /\ n = 0 => 3 \notin 1..Len(u)
        /\ n # 0 => (NameAt(r, n) + 2) \notin 1..Len(u)
    <2> HIDE DEF u, n, middle
    <2> QED  BY <1>2, <1>3, <1>4, <1>5
  <1> QED  BY <1>6 DEF Peek

LEMMA SlidStartNames ==
    ASSUME Typed, Walking, NEW u, u = Rendered(call, sent), NEW m, Slipped(text, u, m), StartNames
    PROVE  Slid(m)'
  <1> DEFINE n == Len(sent.names)
  <1>1. at = "start" /\ call = "table_names" /\ pos = 1 /\ result' = result /\ result = << >>
        /\ UNCHANGED <<call, sent, text>>
    BY DEF StartNames, Walking, Reading
  <1>2. CASE Token # "lbracket" \/ Peek(text, 2) = "rbracket"
    <2>1. GivesBack  BY <1>1, <1>2 DEF StartNames, End, GivesBack
    <2> QED  BY <1>1, <2>1, SlidOn
  <1>3. CASE Token = "lbracket" /\ Peek(text, 2) # "rbracket"
    <2>1. at' = "names" /\ pos' = 2 /\ outcome' = outcome  BY <1>3 DEF StartNames, Go
    <2>2. u = RenderNames(sent) /\ IsReply(sent)  BY <1>1 DEF Typed, Rendered
    <2>3. m \in Nat \ {0}  BY DEF Slipped
    <2>4. /\ 1 < m => Peek(text, 1) = Peek(u, 1)
          /\ m <= 1 => Peek(text, 1) = Peek(u, 2)
          /\ 2 < m => Peek(text, 2) = Peek(u, 2)
          /\ m <= 2 => Peek(text, 2) = Peek(u, 3)
      <3>1. 1 \in Int /\ 2 \in Int /\ 1 + 1 = 2 /\ 2 + 1 = 3  OBVIOUS
      <3> QED  BY <3>1, SlippedPeek
    <2>5. /\ n \in Nat /\ (n = 0 => Peek(u, 2) = "rbracket" /\ Peek(u, 3) = "nothing")
          /\ n # 0 => Peek(u, 2) \in Strings /\ NameAt(sent, 1) = 2
      <3>1. n \in Nat  BY <2>2, NamesStand
      <3>2. n # 0 => 1 \in 1..n  BY <3>1
      <3>3. n # 0 => NameStands(sent, 1)  BY <2>2, <3>2, NamesStand
      <3>4. n # 0 => Peek(u, 2) \in Strings /\ NameAt(sent, 1) = 2  BY <2>2, <3>3 DEF NameStands
      <3>5. n = 0 => Peek(u, 2) = "rbracket" /\ Peek(u, 3) = "nothing"  BY <2>2, NamesStand, NamesEnd
      <3> QED  BY <3>1, <3>4, <3>5
    <2> HIDE DEF n
    <2>6. "lbracket" \notin Strings /\ "nothing" \notin Strings  BY StructureIsNot
    <2>7. 2 <= m
      <3>1. Token = Peek(text, 1)  BY <1>1 DEF Token
      <3>2. m <= 1 => FALSE  BY ONLY <3>1, <2>4, <2>5, <2>6, <1>3, "rbracket" # "lbracket"
      <3> QED  BY ONLY <3>2, <2>3
    <2>8. CASE n = 0
      <3>1. m <= 2  BY ONLY <2>3, <2>4, <2>5, <2>8, <1>3
      <3>2. Peek(text, 2) \notin Strings  BY <3>1, <2>4, <2>5, <2>6, <2>8
      <3>3. GoesAlong(m)  BY <2>1, <3>2 DEF GoesAlong, Placed, Lost, Loops, InArray
      <3> QED  BY <1>1, <3>3, SlidOn
    <2>9. CASE n # 0
      <3>1. ReadNames(sent, result') /\ Len(result') = 0 /\ Len(result') + 1 = 1
        <4>1. Len(result') = 0  BY <1>1
        <4> QED  BY <4>1, <2>5 DEF ReadNames, n
      <3>2. Len(result') < Len(sent.names)
        <4>1. 0 < n  BY ONLY <2>5, <2>9
        <4> QED  BY <3>1, <4>1 DEF n
      <3>3. StandsBefore(call, sent, at', pos', result')
        <4>1. pos' = NameAt(sent, Len(result') + 1)  BY <2>1, <2>5, <2>9, <3>1
        <4> QED  BY <4>1, <3>1, <3>2, <2>1, <1>1 DEF StandsBefore
      <3>4. GoesAlong(m)  BY <2>1, <2>7, <3>3, <1>1 DEF GoesAlong, Placed, Loops, InArray
      <3> QED  BY <1>1, <3>4, SlidOn
    <2> QED  BY <2>8, <2>9
  <1> QED  BY <1>2, <1>3

LEMMA SlidNextName ==
    ASSUME Typed, Walking, NEW u, u = Rendered(call, sent), NEW m, Slipped(text, u, m),
           Slid(m), NextName
    PROVE  Slid(m)'
  <1> DEFINE r == sent
             n == Len(r.names)
             k == Len(result) + 1
             p == NameAt(r, k)
  <1>1. at = "names" /\ UNCHANGED <<call, sent, text>>
    BY DEF NextName, Reading
  <1>2. CASE Token \notin Strings
    <2>1. Throws  BY <1>2 DEF NextName, End, Throws
    <2> QED  BY <1>1, <2>1, SlidOn
  <1>3. CASE Token \in Strings
    <2>1. /\ pos <= m /\ call = "table_names" /\ ReadNames(r, result) /\ Len(result) < n /\ pos = p
      <3>1. Placed(call, sent, text, at, pos, row, result, m)  BY <1>1 DEF Slid, Loops, InArray
      <3>2. ~StandsIn(call, sent, at, pos, row, result) /\ ~StandsIn(call, sent, at, pos + 1, row, result)
        BY <1>1 DEF StandsIn, StandsInRow
      <3>3. ~Lost(text, Rendered(call, sent), sent, at, pos, m)  BY <1>1, <1>3 DEF Lost, Token
      <3>4. pos <= m /\ StandsBefore(call, sent, at, pos, result)  BY ONLY <3>1, <3>2, <3>3 DEF Placed
      <3> QED  BY <3>4, <1>1 DEF StandsBefore
    <2>2. /\ u = RenderNames(r) /\ IsReply(r) /\ Len(result) \in Nat /\ n \in Nat
      <3>1. Len(result) \in Nat  BY LenProperties DEF Typed
      <3> QED  BY <2>1, <3>1, NamesStand DEF Typed, Rendered
    <2>3. k \in 1..n /\ Len(result) # n
      <3> HIDE DEF n
      <3> QED  BY ONLY <2>1, <2>2
    <2>4. NameStands(r, k) /\ (k < n => NameStands(r, k + 1))
      <3>1. k < n => k + 1 \in 1..n  BY <2>2, <2>3
      <3> QED  BY <2>2, <2>3, <3>1, NamesStand
    <2>5. /\ p \in Nat \ {0} /\ Peek(u, p) = r.names[k] /\ r.names[k] \in Strings
          /\ k < n => /\ Peek(u, p + 1) = "comma" /\ NameAt(r, k + 1) = p + 2
                      /\ Peek(u, p + 2) \in Strings
          /\ k = n => Peek(u, p + 1) = "rbracket" /\ Peek(u, p + 2) = "nothing"
      <3>1. k = n => n # 0  BY <2>3
      <3>2. k = n => Peek(u, p + 2) = "nothing"  BY <2>2, <3>1, NamesEnd
      <3>3. k < n => NameAt(r, k + 1) = p + 2 /\ Peek(u, NameAt(r, k + 1)) \in Strings
        BY <2>2, <2>4 DEF NameStands
      <3>4. k < n => Peek(u, p + 2) \in Strings  BY ONLY <3>3
      <3> QED  BY <2>2, <2>4, <3>2, <3>3, <3>4 DEF NameStands
    <2>6. k < n \/ k = n  BY ONLY <2>2, <2>3
    <2>7. /\ p < m => Peek(text, p) = Peek(u, p)
          /\ m <= p => Peek(text, p) = Peek(u, p + 1)
          /\ p + 1 < m => Peek(text, p + 1) = Peek(u, p + 1)
          /\ m <= p + 1 => Peek(text, p + 1) = Peek(u, p + 2)
      <3> HIDE DEF p
      <3>1. p \in Int /\ p + 1 \in Int /\ (p + 1) + 1 = p + 2  BY <2>5
      <3> QED  BY <3>1, SlippedPeek
    <2>8. {"comma", "rbracket", "nothing"} \cap Strings = {}  BY StructureIsNot
    <2>9. m \in Nat \ {0}  BY DEF Slipped
    <2>10. Token = Peek(text, p) /\ pos = p  BY <2>1 DEF Token
    <2> HIDE DEF p
    <2>11. p < m
      <3>1. ~(m <= p)
        <4> SUFFICES ASSUME m <= p PROVE FALSE  OBVIOUS
        <4>1. Token \in {"comma", "rbracket"}  BY <2>5, <2>6, <2>7, <2>10
        <4> QED  BY <4>1, <2>8, <1>3
      <3> QED  BY ONLY <3>1, <2>5, <2>9
    <2>12. Token = r.names[k]  BY <2>5, <2>7, <2>10, <2>11
    <2>13. /\ result' = Append(result, r.names[k])
           /\ CASE Peek(text, p + 1) = "comma" -> Go("names", p + 2)
                [] Peek(text, p + 1) = "rbracket" -> End("returned")
                [] OTHER -> End("thrown")
      BY <1>3, <2>10, <2>12 DEF NextName
    <2>14. /\ ReadNames(r, result') /\ Len(result') = k
           /\ k = n => result' = r.names
      <3> DEFINE more == result'
      <3>1. more = Append(result, sent.names[Len(result) + 1])  BY <2>13
      <3> HIDE DEF more
      <3>2. /\ ReadNames(sent, more) /\ Len(more) = Len(result) + 1
            /\ Len(more) = Len(sent.names) => more = sent.names
        BY <2>1, <2>3, <3>1, NameRead
      <3> QED  BY <3>2 DEF more
    <2> HIDE DEF k, n
    <2>15. CASE m = p + 1
      <3>1. Peek(text, p + 1) = Peek(u, p + 2)  BY ONLY <2>7, <2>15, <2>5
      <3>2. Peek(text, p + 1) \notin {"comma", "rbracket"}  BY <3>1, <2>5, <2>6, <2>8
      <3>3. Throws  BY <2>13, <3>2 DEF End, Throws
      <3> QED  BY <1>1, <3>3, SlidOn
    <2>16. CASE p + 2 <= m
      <3>1. Peek(text, p + 1) = Peek(u, p + 1)  BY ONLY <2>5, <2>7, <2>9, <2>16
      <3>2. CASE k < n
        <4>1. at' = "names" /\ pos' = p + 2 /\ outcome' = outcome  BY <2>5, <2>13, <3>1, <3>2 DEF Go
        <4>2. Len(result') < Len(sent.names)  BY <2>14, <3>2 DEF n
        <4>3. pos' = NameAt(sent, Len(result') + 1)  BY <2>5, <2>14, <3>2, <4>1
        <4>4. StandsBefore(call, sent, at', pos', result')
          BY <4>1, <4>2, <4>3, <2>1, <2>14 DEF StandsBefore
        <4>5. pos' <= m  BY <4>1, <2>16
        <4>6. GoesAlong(m)  BY <4>1, <4>4, <4>5, <1>1 DEF GoesAlong, Placed, Loops, InArray
        <4> QED  BY <1>1, <4>6, SlidOn
      <3>3. CASE k = n
        <4>1. at' = "done" /\ outcome' = "returned"  BY <2>5, <2>13, <3>1, <3>3 DEF End
        <4>2. result' = sent.names  BY <2>14, <3>3
        <4>3. GivesBack  BY <4>1, <4>2, <2>1 DEF GivesBack, Complete
        <4> QED  BY <1>1, <4>3, SlidOn
      <3> QED  BY <2>6, <3>2, <3>3
    <2> QED  BY ONLY <2>5, <2>9, <2>11, <2>15, <2>16
  <1> QED  BY <1>2, <1>3

-----------------------------------------------------------------------------
(* The walk over a text that misses a token                                  *)

Slipping == \A m \in 1..Len(Rendered(call, sent)) :
                text = Without(Rendered(call, sent), m) => Slid(m)

LEMMA NextSlips ==
    ASSUME Typed, Walking, Slipping, Next
    PROVE  Slipping'
  <1>1. CASE \E c \in {"query", "table_names"}, r \in Replies : Call(c, r)
    <2>1. PICK c \in {"query", "table_names"}, r \in Replies : Call(c, r)  BY <1>1
    <2> QED  BY <2>1, SlidCall DEF Slipping
  <1>2. CASE Discard  BY <1>2, SlidDiscard DEF Slipping
  <1>3. CASE StartQuery \/ FindRows \/ NextRow \/ RowMember \/ NextCell \/ MemberEnd \/ RowEnd
             \/ StartNames \/ NextName
    <2> DEFINE u == Rendered(call, sent)
    <2>1. UNCHANGED <<call, sent, text>>
      BY <1>3 DEF StartQuery, FindRows, NextRow, RowMember, NextCell, MemberEnd, RowEnd,
                  StartNames, NextName, Reading
    <2>2. Rendered(call, sent)' = u  BY <2>1
    <2>3. ASSUME NEW m \in 1..Len(u), text = Without(u, m)  PROVE Slid(m)'
      <3>1. u \in Seq(Tokens)  BY RenderedText DEF Typed
      <3>2. Slipped(text, u, m)
        <4> HIDE DEF u
        <4> QED  BY <3>1, <2>3, WithoutSlipped
      <3>3. Slid(m)  BY <2>3 DEF Slipping
      <3> QED
        BY ONLY Typed, Walking, <1>3, <3>2, <3>3, SlidStartQuery, SlidFindRows, SlidNextRow,
                SlidRowMember, SlidNextCell, SlidMemberEnd, SlidRowEnd, SlidStartNames, SlidNextName
    <2> QED  BY <2>1, <2>2, <2>3 DEF Slipping
  <1> QED  BY <1>1, <1>2, <1>3 DEF Next

(* The invariant of the walk, whatever happened to the text.                 *)
LEMMA WalkSlips == Spec => [](Typed /\ Walking /\ Came /\ Following /\ Slipping)
  <1>1. Init => Slipping  BY DEF Init, Slipping, Slid, Loops, InArray
  <1>2. Typed /\ Walking /\ Slipping /\ [Next]_vars => Slipping'
    <2> SUFFICES ASSUME Typed, Walking, Slipping, [Next]_vars PROVE Slipping'  OBVIOUS
    <2>1. CASE Next  BY <2>1, NextSlips
    <2>2. CASE UNCHANGED vars
      <3>1. ASSUME NEW m, Slid(m)  PROVE Slid(m)'
        BY <2>2, <3>1 DEF vars, Slid
      <3> QED  BY <2>2, <3>1 DEF vars, Slipping
    <2> QED  BY <2>1, <2>2
  <1> QED  BY <1>1, <1>2, WalkFollows, PTL DEF Spec

(* What a complete answer says.                                              *)
LEMMA CompleteMeans ==
    ASSUME Typed, result = Meant \/ Complete(call, sent, result), result # << >>,
           outcome = "returned"
    PROVE  NothingMoves
  <1>1. CASE result = Meant  BY <1>1 DEF NothingMoves
  <1>2. CASE Complete(call, sent, result) /\ call = "table_names"
    BY <1>2 DEF NothingMoves, Complete, Meant
  <1>3. CASE Complete(call, sent, result) /\ call = "query"
    <2> DEFINE n == Len(sent.rows)
    <2>1. Meant = [i \in 1..n |-> MeantRow(sent, i)] /\ n \in Nat
      BY <1>3 DEF Meant, MeantRow, Typed, IsReply
    <2>2. AlikeRows(sent, result) /\ Len(result) = n  BY <1>3 DEF Complete
    <2>3. Len(Meant) = n /\ \A i \in 1..n : Meant[i] = MeantRow(sent, i)
      <3> HIDE DEF n
      <3> QED  BY <2>1
    <2>4. ASSUME NEW i \in 1..n
          PROVE  /\ Len(result[i]) = Len(Meant[i])
                 /\ \A j \in 1..Len(result[i]) :
                       /\ result[i][j].column = Meant[i][j].column
                       /\ Len(Meant[i][j].value) = 1 => result[i][j] = Meant[i][j]
      <3> DEFINE l == Len(sent.rows[i])
      <3>1. l \in Nat  BY <2>4 DEF Typed, IsReply
      <3>2. Len(result[i]) = l /\ AlikeCells(sent, i, result[i])
        BY <2>2, <2>4 DEF AlikeRows, AlikeRow
      <3>3. Len(MeantRow(sent, i)) = l
        <4>1. MeantRow(sent, i) = [j \in 1..l |-> MeantRow(sent, i)[j]]  BY DEF MeantRow
        <4> HIDE DEF l
        <4> QED  BY <3>1, <4>1
      <3>4. ASSUME NEW j \in 1..l
            PROVE  /\ MeantRow(sent, i)[j].column = Numbers[sent.rows[i][j].column]
                   /\ MeantRow(sent, i)[j].value = sent.rows[i][j].value
        BY <3>4 DEF MeantRow
      <3>5. ASSUME NEW j \in 1..l
            PROVE  /\ result[i][j].column = Numbers[sent.rows[i][j].column]
                   /\ Len(sent.rows[i][j].value) = 1 => result[i][j] = MeantRow(sent, i)[j]
        BY <3>2, <3>5 DEF AlikeCells, AlikeCell
      <3>6. Meant[i] = MeantRow(sent, i)  BY <2>3, <2>4
      <3> HIDE DEF l
      <3> QED  BY ONLY <3>2, <3>3, <3>4, <3>5, <3>6
    <2> QED  BY <2>2, <2>3, <2>4, <1>3 DEF NothingMoves
  <1> QED  BY <1>1, <1>2, <1>3 DEF Typed

(* A reply that misses one token, any token of it, is never read askew by    *)
(* query() or table_names(): what is returned has every row and every cell   *)
(* under its own column, and every value of one token, or it is empty.  So   *)
(* has what is returned of a reply that is whole or broke off.               *)
THEOREM NothingIsMoved == Spec => []NothingMoves
  <1>1. Typed /\ Came /\ Following /\ Slipping => NothingMoves
    <2> SUFFICES ASSUME Typed, Came, Following, Slipping, outcome = "returned", result # << >>
                 PROVE  NothingMoves
      BY DEF NothingMoves
    <2> DEFINE u == Rendered(call, sent)
    <2>1. u \in Seq(Tokens) /\ Len(u) \in Nat  BY RenderedText, LenProperties DEF Typed
    <2>2. CASE Kept(text, u)  BY <2>2, CompleteMeans DEF Following, Follows
    <2>3. CASE text = << >>
      <3>1. Len(text) = 0  BY <2>3
      <3> QED  BY <2>1, <2>2, <3>1 DEF Kept
    <2>4. CASE text \in Arriving(u)
      <3>1. \/ text = u
            \/ \E n \in 1..Len(u) : text \in {Cut(u, n - 1), CutInString(u, n), Without(u, n)}
        BY <2>4 DEF Arriving
      <3>2. CASE text = u
        <4> HIDE DEF u
        <4> QED  BY <2>1, <2>2, <3>2, WholeIsKept
      <3>3. ASSUME NEW n \in 1..Len(u), text \in {Cut(u, n - 1), CutInString(u, n)}
            PROVE  NothingMoves
        <4> HIDE DEF u
        <4> QED  BY <2>1, <2>2, <3>3, CutIsKept
      <3>4. ASSUME NEW n \in 1..Len(u), text = Without(u, n)  PROVE NothingMoves
        <4>1. Slid(n)  BY <3>4 DEF Slipping
        <4>2. Complete(call, sent, result)  BY <4>1 DEF Slid
        <4> QED  BY <4>2, CompleteMeans
      <3> QED  BY ONLY <3>1, <3>2, <3>3, <3>4
    <2> QED  BY <2>3, <2>4 DEF Came
  <1> QED  BY <1>1, WalkSlips, PTL

=============================================================================
