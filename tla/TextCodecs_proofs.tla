-------------------------- MODULE TextCodecs_proofs --------------------------
(* Proofs about TextCodecs, for any literals, integers and widths: the       *)
(* reader of strings stays inside its text, yields bytes and reads every     *)
(* literal as it is meant, whole or cut off; json_escape writes literals;    *)
(* and integers are read as meant.                                           *)
EXTENDS TextCodecs, SequenceTheorems, WellFoundedInduction, TLAPS

-----------------------------------------------------------------------------
(* Induction by a least counterexample.                                      *)
LEMMA NatLess == IsWellFoundedOn({p \in Nat \X Nat : p[1] < p[2]}, Nat)
  BY NatLessThanWellFounded DEF OpToRel

LEMMA Induct ==
    ASSUME NEW S, 0 \in S, \A n \in Nat : n \in S => n + 1 \in S
    PROVE  Nat \subseteq S
  <1> DEFINE R == {p \in Nat \X Nat : p[1] < p[2]}
             C == Nat \ S
  <1> SUFFICES ASSUME C # {} PROVE FALSE  OBVIOUS
  <1>1. IsWellFoundedOn(R, Nat)  BY NatLess
  <1>2. C \subseteq Nat  OBVIOUS
  <1>3. \E x \in C : \A y \in C : <<y, x>> \notin R
    <2> HIDE DEF R, C
    <2> QED  BY <1>1, <1>2, WFMin
  <1>4. PICK x \in C : \A y \in C : <<y, x>> \notin R  BY <1>3
  <1>5. \A y \in C : ~(y < x)  BY <1>4
  <1>6. x # 0 /\ x - 1 \in Nat /\ x - 1 < x /\ (x - 1) + 1 = x  OBVIOUS
  <1>7. x - 1 \in S  BY <1>5, <1>6
  <1>8. (x - 1) + 1 \in S  BY <1>6, <1>7
  <1> QED  BY <1>6, <1>8

-----------------------------------------------------------------------------
(* Pieces in a row *)

Joined(seqs) ==
    LET flatten[i \in 1..Len(seqs)] == IF i = 1 THEN seqs[i] ELSE flatten[i - 1] \o seqs[i]
    IN  flatten

(* The first k of some sequences, one behind the other.                      *)
UpTo(seqs, k) == IF k = 0 THEN <<>> ELSE Joined(seqs)[k]

LEMMA Flattened ==
    ASSUME NEW seqs, NEW n \in Nat
    PROVE  \E f : f = [i \in 1..n |-> IF i = 1 THEN seqs[i] ELSE f[i - 1] \o seqs[i]]
  <1> DEFINE To(m, f) == \A i \in 1..n : i <= m =>
                            f[i] = IF i = 1 THEN seqs[i] ELSE f[i - 1] \o seqs[i]
             S == {m \in Nat : \E f : To(m, f)}
  <1>1. 0 \in S
    <2>1. To(0, << >>)  OBVIOUS
    <2> QED  BY <2>1
  <1>2. ASSUME NEW m \in Nat, m \in S PROVE m + 1 \in S
    <2>1. PICK f : To(m, f)  BY <1>2
    <2> DEFINE g == [i \in 1..n |-> IF i <= m THEN f[i]
                                    ELSE IF i = 1 THEN seqs[i] ELSE f[i - 1] \o seqs[i]]
    <2>2. ASSUME NEW i \in 1..n, i <= m + 1
          PROVE  g[i] = IF i = 1 THEN seqs[i] ELSE g[i - 1] \o seqs[i]
      <3>1. CASE i = 1  BY <2>1, <3>1
      <3>2. CASE i # 1
        <4>1. i - 1 \in 1..n /\ i - 1 <= m  BY <2>2, <3>2
        <4>2. g[i - 1] = f[i - 1]  BY <4>1
        <4>3. g[i] = f[i - 1] \o seqs[i]  BY <2>1, <3>2
        <4> QED  BY <3>2, <4>2, <4>3
      <3> QED  BY <3>1, <3>2
    <2> HIDE DEF g
    <2>3. To(m + 1, g)  BY <2>2
    <2> QED  BY <2>3
  <1>3. n \in S
    <2> HIDE DEF S
    <2> QED  BY <1>1, <1>2, Induct
  <1>4. PICK f : To(n, f)  BY <1>3
  <1> DEFINE g == [i \in 1..n |-> f[i]]
  <1>5. ASSUME NEW i \in 1..n PROVE g[i] = IF i = 1 THEN seqs[i] ELSE g[i - 1] \o seqs[i]
    <2>1. i # 1 => i - 1 \in 1..n  OBVIOUS
    <2> QED  BY <1>4, <2>1
  <1>6. g = [i \in 1..n |-> g[i]]  OBVIOUS
  <1> HIDE DEF g
  <1>7. g = [i \in 1..n |-> IF i = 1 THEN seqs[i] ELSE g[i - 1] \o seqs[i]]
    BY <1>5, <1>6
  <1> QED  BY <1>7

LEMMA Joining ==
    ASSUME NEW seqs \in Seq(Seq(Byte))
    PROVE  /\ UpTo(seqs, 0) = <<>>
           /\ \A k \in 1..Len(seqs) : UpTo(seqs, k) = UpTo(seqs, k - 1) \o seqs[k]
           /\ \A k \in 0..Len(seqs) : UpTo(seqs, k) \in Seq(Byte)
           /\ FlattenSeq(seqs) = UpTo(seqs, Len(seqs))
  <1> DEFINE n == Len(seqs)
             Is(f) == f = [i \in 1..n |-> IF i = 1 THEN seqs[i] ELSE f[i - 1] \o seqs[i]]
  <1>0. n \in Nat /\ \A k \in 1..n : seqs[k] \in Seq(Byte)  BY ElementOfSeq, LenProperties
  <1>1. Is(Joined(seqs))
    <2>1. \E f : Is(f)  BY <1>0, Flattened
    <2>2. Joined(seqs) = CHOOSE f : Is(f)  BY DEF Joined
    <2> HIDE DEF Is
    <2> QED  BY <2>1, <2>2
  <1>2. ASSUME NEW k \in 1..n
        PROVE  Joined(seqs)[k] = IF k = 1 THEN seqs[k] ELSE Joined(seqs)[k - 1] \o seqs[k]
    <2> HIDE DEF n
    <2> QED  BY <1>1
  <1>3. ASSUME NEW k \in 1..n PROVE UpTo(seqs, k) = UpTo(seqs, k - 1) \o seqs[k]
    <2>1. CASE k = 1
      <3>1. UpTo(seqs, k) = seqs[1] /\ UpTo(seqs, k - 1) = <<>>  BY <1>2, <2>1 DEF UpTo
      <3>2. seqs[1] \in Seq(Byte)  BY <1>0, <2>1
      <3>3. <<>> \o seqs[1] = seqs[1]  BY <3>2, ConcatEmptySeq
      <3> QED  BY <2>1, <3>1, <3>3
    <2>2. CASE k # 1
      <3>1. k # 0 /\ k - 1 # 0  BY <2>2
      <3>2. UpTo(seqs, k) = Joined(seqs)[k] /\ UpTo(seqs, k - 1) = Joined(seqs)[k - 1]
        BY <3>1 DEF UpTo
      <3> QED  BY <1>2, <2>2, <3>2
    <2> QED  BY <2>1, <2>2
  <1> DEFINE S == {m \in Nat : m <= n => UpTo(seqs, m) \in Seq(Byte)}
  <1>4. 0 \in S
    <2>1. <<>> \in Seq(Byte)  OBVIOUS
    <2>2. UpTo(seqs, 0) = <<>>  BY DEF UpTo
    <2> QED  BY <2>1, <2>2
  <1>5. ASSUME NEW m \in Nat, m \in S PROVE m + 1 \in S
    <2> SUFFICES ASSUME m + 1 <= n PROVE UpTo(seqs, m + 1) \in Seq(Byte)  OBVIOUS
    <2>1. m + 1 \in 1..n /\ (m + 1) - 1 = m /\ m <= n  BY <1>0
    <2>2. UpTo(seqs, m) \in Seq(Byte)  BY <1>5, <2>1
    <2>3. UpTo(seqs, m + 1) = UpTo(seqs, m) \o seqs[m + 1]  BY <1>3, <2>1
    <2>4. seqs[m + 1] \in Seq(Byte)  BY <1>0, <2>1
    <2> QED  BY ONLY <2>2, <2>3, <2>4, ConcatProperties
  <1>6. Nat \subseteq S
    <2> HIDE DEF S
    <2> QED  BY <1>4, <1>5, Induct
  <1>7. \A k \in 0..n : UpTo(seqs, k) \in Seq(Byte)  BY <1>0, <1>6
  <1>8. FlattenSeq(seqs) = UpTo(seqs, n)
    <2>1. CASE n = 0
      <3>1. seqs = <<>>  BY <2>1, EmptySeq
      <3> QED  BY <2>1, <3>1 DEF FlattenSeq, UpTo
    <2>2. CASE n # 0  BY <2>2 DEF FlattenSeq, UpTo, Joined
    <2> QED  BY <2>1, <2>2
  <1> QED  BY <1>3, <1>7, <1>8 DEF UpTo

-----------------------------------------------------------------------------
(* What one turn of the reader appends, and how far it goes.                 *)

LEMMA CharIsByte ==
    ASSUME text \in Seq(Byte), NEW k \in Nat
    PROVE  Char(k) \in Byte
  <1>1. CASE k < Size
    <2>1. k + 1 \in 1..Len(text)  BY <1>1 DEF Size
    <2> QED  BY <1>1, <2>1, ElementOfSeq DEF Char
  <1>2. CASE ~(k < Size)  BY <1>2 DEF Char, Byte
  <1> QED  BY <1>1, <1>2

LEMMA UnitRange ==
    ASSUME text \in Seq(Byte), NEW k \in Nat
    PROVE  Unit(k) \in Nat /\ Unit(k) <= 65535
  <1>1. ASSUME NEW c \in Byte PROVE HexValue(c) \in 0..15
    <2>1. c \in 0..255  BY DEF Byte
    <2>2. CASE c \in 48..57  BY ONLY <2>2 DEF HexValue
    <2>3. CASE c \notin 48..57 /\ c \in 97..102  BY ONLY <2>3 DEF HexValue
    <2>4. CASE c \notin 48..57 /\ c \notin 97..102 /\ c \in 65..70  BY ONLY <2>4 DEF HexValue
    <2>5. CASE c \notin 48..57 /\ c \notin 97..102 /\ c \notin 65..70
      BY ONLY <2>5 DEF HexValue
    <2> QED  BY <2>2, <2>3, <2>4, <2>5
  <1>2. ASSUME NEW d \in 0..3 PROVE HexValue(Char(k + d)) \in 0..15
    <2>1. k + d \in Nat  OBVIOUS
    <2>2. \A j \in Nat : Char(j) \in Byte  BY ONLY text \in Seq(Byte), CharIsByte
    <2> QED  BY ONLY <1>1, <2>1, <2>2
  <1>3. /\ HexValue(Char(k)) \in 0..15 /\ HexValue(Char(k + 1)) \in 0..15
        /\ HexValue(Char(k + 2)) \in 0..15 /\ HexValue(Char(k + 3)) \in 0..15
    <2>1. HexValue(Char(k + 0)) \in 0..15  BY <1>2
    <2>2. k + 0 = k  OBVIOUS
    <2> QED  BY <1>2, <2>1, <2>2
  <1>4. PICK a, b, c, d \in 0..15 :
             /\ a = HexValue(Char(k)) /\ b = HexValue(Char(k + 1))
             /\ c = HexValue(Char(k + 2)) /\ d = HexValue(Char(k + 3))
    BY <1>3
  <1>5. Unit(k) = 4096 * a + 256 * b + 16 * c + d  BY <1>4 DEF Unit
  <1> QED  BY <1>5

LEMMA CodePointRange ==
    ASSUME text \in Seq(Byte), NEW k \in Nat, UnitFits(k)
    PROVE  /\ CodePoint(k).cp \in Nat /\ CodePoint(k).cp <= 1114111
           /\ CodePoint(k).next \in (k + 1)..Size
  <1>1. Size \in Nat  BY DEF Size
  <1>2. /\ Unit(k) \in Nat /\ Unit(k) <= 65535
        /\ Unit(k + 6) \in Nat
    <2>1. Unit(k) \in Nat /\ Unit(k) <= 65535  BY UnitRange
    <2>2. k + 6 \in Nat  OBVIOUS
    <2>3. \A j \in Nat : Unit(j) \in Nat  BY ONLY text \in Seq(Byte), UnitRange
    <2>4. Unit(k + 6) \in Nat  BY ONLY <2>2, <2>3
    <2> QED  BY <2>1, <2>4
  <1>3. CASE Unit(k) \in High /\ LowFollows(k + 4)
    <2>1. Unit(k + 6) \in Low /\ k + 10 <= Size
      <3>1. (k + 4) + 2 = k + 6 /\ (k + 4) + 6 = k + 10  OBVIOUS
      <3> QED  BY <1>3, <3>1 DEF LowFollows
    <2>2. \A h \in High, l \in Low : Combined(h, l) \in Nat /\ Combined(h, l) <= 1114111
      BY DEF Combined, High, Low
    <2> QED  BY <1>1, <1>3, <2>1, <2>2 DEF CodePoint
  <1>4. CASE ~(Unit(k) \in High /\ LowFollows(k + 4))
    BY <1>1, <1>2, <1>4 DEF CodePoint, UnitFits, Replacement
  <1> QED  BY <1>3, <1>4

LEMMA Utf8Bytes ==
    ASSUME NEW cp \in Nat, cp <= 1114111
    PROVE  Utf8(cp) \in Seq(Byte)
  <1> DEFINE tail(unit) == 128 + ((cp \div unit) % 64)
  <1>1. tail(1) \in Byte /\ tail(64) \in Byte /\ tail(4096) \in Byte  BY DEF Byte
  <1>2. cp < 128 => cp \in Byte  BY DEF Byte
  <1>3. cp < 2048 => 192 + (cp \div 64) \in Byte  BY DEF Byte
  <1>4. cp < 65536 => 224 + (cp \div 4096) \in Byte  BY DEF Byte
  <1>5. 240 + (cp \div 262144) \in Byte  BY DEF Byte
  <1> HIDE DEF tail
  <1>6. Utf8(cp) = IF cp < 128 THEN <<cp>>
                   ELSE IF cp < 2048 THEN <<192 + (cp \div 64), tail(1)>>
                   ELSE IF cp < 65536 THEN <<224 + (cp \div 4096), tail(64), tail(1)>>
                   ELSE <<240 + (cp \div 262144), tail(4096), tail(64), tail(1)>>
    BY DEF Utf8, tail
  <1>7. \A a, b, c, d \in Byte :
           /\ <<a>> \in Seq(Byte) /\ <<a, b>> \in Seq(Byte)
           /\ <<a, b, c>> \in Seq(Byte) /\ <<a, b, c, d>> \in Seq(Byte)
    OBVIOUS
  <1> QED  BY <1>1, <1>2, <1>3, <1>4, <1>5, <1>6, <1>7

LEMMA UnescapedIsByte ==
    ASSUME NEW c \in Byte
    PROVE  Unescaped(c) \in Byte
  <1>1. \A l \in DOMAIN Letters : Letters[l][2] \in Byte
    BY DEF Letters, Byte, Quote, Backslash
  <1>2. CASE \E l \in DOMAIN Letters : Letters[l][1] = c
    <2>1. (CHOOSE l \in DOMAIN Letters : Letters[l][1] = c) \in DOMAIN Letters  BY <1>2
    <2> QED  BY <1>1, <1>2, <2>1 DEF Unescaped
  <1>3. CASE ~\E l \in DOMAIN Letters : Letters[l][1] = c  BY <1>3 DEF Unescaped
  <1> QED  BY <1>2, <1>3

-----------------------------------------------------------------------------
(* Pieces of a literal *)

Spellings(ps) == [k \in 1..Len(ps) |-> ps[k].spelt]
Meanings(ps) == [k \in 1..Len(ps) |-> ps[k].means]

(* How many bytes the first k pieces take, and what they mean.               *)
At(ps, k) == Len(UpTo(Spellings(ps), k))
SoFar(ps, k) == UpTo(Meanings(ps), k)

LEMMA PieceTypes ==
    ASSUME NEW ps, IsLiteral(ps)
    PROVE  /\ Len(ps) \in Nat
           /\ Spellings(ps) \in Seq(Seq(Byte)) /\ Len(Spellings(ps)) = Len(ps)
           /\ Meanings(ps) \in Seq(Seq(Byte)) /\ Len(Meanings(ps)) = Len(ps)
           /\ \A k \in 1..Len(ps) :
                 /\ ps[k].spelt \in Seq(Byte) /\ ps[k].means \in Seq(Byte)
                 /\ Len(ps[k].spelt) \in Nat
                 /\ Spellings(ps)[k] = ps[k].spelt /\ Meanings(ps)[k] = ps[k].means
  <1>1. ps \in Seq([spelt : Seq(Byte), means : Seq(Byte)])  BY DEF IsLiteral
  <1>2. Len(ps) \in Nat  BY <1>1, LenProperties
  <1>3. ASSUME NEW k \in 1..Len(ps)
        PROVE  /\ ps[k].spelt \in Seq(Byte) /\ ps[k].means \in Seq(Byte)
               /\ Len(ps[k].spelt) \in Nat
    <2>1. ps[k] \in [spelt : Seq(Byte), means : Seq(Byte)]  BY <1>1, ElementOfSeq
    <2>2. ps[k].spelt \in Seq(Byte) /\ ps[k].means \in Seq(Byte)  BY ONLY <2>1
    <2> QED  BY <2>2, LenProperties
  <1>4. /\ Spellings(ps) \in Seq(Seq(Byte)) /\ Len(Spellings(ps)) = Len(ps)
        /\ Meanings(ps) \in Seq(Seq(Byte)) /\ Len(Meanings(ps)) = Len(ps)
    BY <1>2, <1>3 DEF Spellings, Meanings
  <1>5. \A k \in 1..Len(ps) : Spellings(ps)[k] = ps[k].spelt /\ Meanings(ps)[k] = ps[k].means
    BY DEF Spellings, Meanings
  <1> QED  BY <1>2, <1>3, <1>4, <1>5

LEMMA PrefixOfConcat ==
    ASSUME NEW a \in Seq(Byte), NEW b \in Seq(Byte)
    PROVE  /\ Len(a) \in Nat /\ Len(b) \in Nat /\ Len(a \o b) = Len(a) + Len(b)
           /\ \A i \in 1..Len(a) : (a \o b)[i] = a[i]
           /\ \A i \in 1..Len(b) : (a \o b)[Len(a) + i] = b[i]
  <1>1. /\ Len(a) \in Nat /\ Len(b) \in Nat /\ Len(a \o b) = Len(a) + Len(b)
        /\ \A i \in 1..Len(a) + Len(b) : (a \o b)[i] = IF i <= Len(a) THEN a[i] ELSE b[i - Len(a)]
    BY ConcatProperties, LenProperties
  <1>2. ASSUME NEW i \in 1..Len(a) PROVE (a \o b)[i] = a[i]
    <2>1. i \in 1..Len(a) + Len(b) /\ i <= Len(a)  BY <1>1
    <2> QED  BY <1>1, <2>1
  <1>3. ASSUME NEW i \in 1..Len(b) PROVE (a \o b)[Len(a) + i] = b[i]
    <2>1. /\ Len(a) + i \in 1..Len(a) + Len(b) /\ ~(Len(a) + i <= Len(a))
          /\ (Len(a) + i) - Len(a) = i
      BY <1>1
    <2> QED  BY <1>1, <2>1
  <1> QED  BY <1>1, <1>2, <1>3

LEMMA Steps ==
    ASSUME NEW ps, IsLiteral(ps), NEW k \in 1..Len(ps)
    PROVE  /\ At(ps, k - 1) \in Nat /\ At(ps, k) = At(ps, k - 1) + Len(ps[k].spelt)
           /\ SoFar(ps, k) = SoFar(ps, k - 1) \o ps[k].means
           /\ \A i \in 1..At(ps, k - 1) :
                 UpTo(Spellings(ps), k)[i] = UpTo(Spellings(ps), k - 1)[i]
           /\ \A i \in 1..Len(ps[k].spelt) :
                 UpTo(Spellings(ps), k)[At(ps, k - 1) + i] = ps[k].spelt[i]
  <1> DEFINE a == UpTo(Spellings(ps), k - 1)
             b == ps[k].spelt
  <1>1. /\ Spellings(ps) \in Seq(Seq(Byte)) /\ Len(Spellings(ps)) = Len(ps)
        /\ Meanings(ps) \in Seq(Seq(Byte)) /\ Len(Meanings(ps)) = Len(ps)
        /\ Spellings(ps)[k] = b /\ Meanings(ps)[k] = ps[k].means
        /\ b \in Seq(Byte) /\ Len(ps) \in Nat
    BY PieceTypes
  <1>2. k - 1 \in 0..Len(ps)  BY <1>1
  <1>3. a \in Seq(Byte) /\ UpTo(Spellings(ps), k) = a \o b  BY <1>1, <1>2, Joining
  <1>4. UpTo(Meanings(ps), k) = UpTo(Meanings(ps), k - 1) \o ps[k].means  BY <1>1, Joining
  <1>5. b \in Seq(Byte)  BY <1>1
  <1> HIDE DEF a, b
  <1>6. /\ Len(a) \in Nat /\ Len(a \o b) = Len(a) + Len(b)
        /\ \A i \in 1..Len(a) : (a \o b)[i] = a[i]
        /\ \A i \in 1..Len(b) : (a \o b)[Len(a) + i] = b[i]
    BY ONLY <1>3, <1>5, PrefixOfConcat
  <1> QED  BY ONLY <1>3, <1>4, <1>6 DEF At, SoFar, a, b

LEMMA Ends ==
    ASSUME NEW ps, IsLiteral(ps)
    PROVE  /\ At(ps, 0) = 0 /\ SoFar(ps, 0) = <<>>
           /\ At(ps, Len(ps)) = Len(Spelt(ps)) /\ SoFar(ps, Len(ps)) = Meant(ps)
           /\ Spelt(ps) = UpTo(Spellings(ps), Len(ps))
           /\ Spelt(ps) \in Seq(Byte)
           /\ \A k \in 0..Len(ps) : At(ps, k) \in Nat
  <1>1. /\ Spellings(ps) \in Seq(Seq(Byte)) /\ Len(Spellings(ps)) = Len(ps)
        /\ Meanings(ps) \in Seq(Seq(Byte)) /\ Len(Meanings(ps)) = Len(ps) /\ Len(ps) \in Nat
    BY PieceTypes
  <1>2. Spelt(ps) = FlattenSeq(Spellings(ps)) /\ Meant(ps) = FlattenSeq(Meanings(ps))
    BY DEF Spelt, Meant, Spellings, Meanings
  <1>3. /\ Spelt(ps) = UpTo(Spellings(ps), Len(ps)) /\ Meant(ps) = UpTo(Meanings(ps), Len(ps))
        /\ \A k \in 0..Len(ps) : UpTo(Spellings(ps), k) \in Seq(Byte)
        /\ UpTo(Spellings(ps), 0) = <<>> /\ UpTo(Meanings(ps), 0) = <<>>
    BY <1>1, <1>2, Joining
  <1>4. \A k \in 0..Len(ps) : Len(UpTo(Spellings(ps), k)) \in Nat  BY <1>3, LenProperties
  <1>5. Len(<<>>) = 0  OBVIOUS
  <1>6. Len(ps) \in 0..Len(ps)  BY <1>1
  <1> QED  BY <1>3, <1>4, <1>5, <1>6 DEF At, SoFar

(* A piece stands where those before it end.                                 *)
LEMMA Stands ==
    ASSUME NEW ps, IsLiteral(ps), NEW k \in 1..Len(ps)
    PROVE  /\ At(ps, k) <= Len(Spelt(ps))
           /\ \A i \in 1..Len(ps[k].spelt) : Spelt(ps)[At(ps, k - 1) + i] = ps[k].spelt[i]
  <1> DEFINE T(m) == UpTo(Spellings(ps), m)
             n == Len(ps)
             S == {m \in Nat : k + m <= n =>
                      /\ At(ps, k) <= At(ps, k + m)
                      /\ \A i \in 1..At(ps, k) : T(k + m)[i] = T(k)[i]}
  <1>0. n \in Nat /\ \A j \in 0..n : At(ps, j) \in Nat  BY PieceTypes, Ends
  <1>1. 0 \in S
    <2>1. k + 0 = k /\ At(ps, k) \in Nat  BY <1>0
    <2> QED  BY <2>1
  <1>2. ASSUME NEW m \in Nat, m \in S PROVE m + 1 \in S
    <2> SUFFICES ASSUME k + (m + 1) <= n
                 PROVE  /\ At(ps, k) <= At(ps, k + (m + 1))
                        /\ \A i \in 1..At(ps, k) : T(k + (m + 1))[i] = T(k)[i]
      OBVIOUS
    <2> DEFINE j == k + (m + 1)
    <2>1. j \in 1..n /\ j - 1 = k + m /\ k + m <= n  BY <1>0
    <2>2. /\ At(ps, j - 1) \in Nat /\ At(ps, j) = At(ps, j - 1) + Len(ps[j].spelt)
          /\ \A i \in 1..At(ps, j - 1) : T(j)[i] = T(j - 1)[i]
      BY <2>1, Steps
    <2>3. Len(ps[j].spelt) \in Nat  BY <2>1, PieceTypes
    <2>4. At(ps, k) \in Nat  BY <1>0
    <2>5. /\ At(ps, k) <= At(ps, j - 1)
          /\ \A i \in 1..At(ps, k) : T(j - 1)[i] = T(k)[i]
      BY <1>2, <2>1
    <2> HIDE DEF j, T
    <2> QED  BY ONLY <2>2, <2>3, <2>4, <2>5 DEF j
  <1>3. n - k \in S
    <2>1. n - k \in Nat  BY <1>0
    <2> HIDE DEF S
    <2> QED  BY <1>1, <1>2, <2>1, Induct
  <1>4. At(ps, k) <= At(ps, n) /\ \A i \in 1..At(ps, k) : T(n)[i] = T(k)[i]
    <2>1. k + (n - k) = n  BY <1>0
    <2> QED  BY <1>0, <1>3, <2>1
  <1>5. At(ps, n) = Len(Spelt(ps)) /\ Spelt(ps) = T(n)  BY Ends
  <1>6. ASSUME NEW i \in 1..Len(ps[k].spelt)
        PROVE  Spelt(ps)[At(ps, k - 1) + i] = ps[k].spelt[i]
    <2>1. /\ At(ps, k - 1) \in Nat /\ At(ps, k) = At(ps, k - 1) + Len(ps[k].spelt)
          /\ T(k)[At(ps, k - 1) + i] = ps[k].spelt[i]
      BY Steps
    <2>2. Len(ps[k].spelt) \in Nat  BY PieceTypes
    <2>3. At(ps, k - 1) + i \in 1..At(ps, k)  BY ONLY <2>1, <2>2, i \in 1..Len(ps[k].spelt)
    <2> QED  BY <1>4, <1>5, <2>1, <2>3
  <1> QED  BY <1>4, <1>5, <1>6

-----------------------------------------------------------------------------
(* What arrived of a literal, and where the reader stands in it              *)

Arrived(ps) ==
    /\ \A j \in 1..Len(Spelt(ps)) : j < Size => Char(j) = Spelt(ps)[j]
    /\ Len(Spelt(ps)) + 1 < Size => Char(Len(Spelt(ps)) + 1) = Quote

(* Behind the k-th piece.                                                    *)
AtPiece(ps, k) == cursor = At(ps, k) + 1 /\ cursor <= Size /\ out = SoFar(ps, k)

(* Inside one that was cut off: no quote is left.                            *)
Broken(ps) == Size < Len(Spelt(ps)) + 2 /\ \A j \in cursor..Size - 1 : Char(j) # Quote

LEMMA ArrivedAtFirst ==
    ASSUME NEW ps, IsLiteral(ps), input.body = ps, NEW n \in 1..Len(Whole(input)),
           text = SubSeq(Whole(input), 1, n)
    PROVE  Arrived(ps) /\ text \in Seq(Byte) /\ Size \in Nat \ {0}
  <1> DEFINE b == Spelt(ps)
             a == <<Quote>> \o b
             w == a \o <<Quote, Comma>>
  <1>1. b \in Seq(Byte)  BY Ends
  <1>2. Whole(input) = w  BY DEF Whole
  <1>3. <<Quote>> \in Seq(Byte) /\ Len(<<Quote>>) = 1
    BY DEF Quote, Byte
  <1>4. <<Quote, Comma>> \in Seq(Byte) /\ Len(<<Quote, Comma>>) = 2 /\ <<Quote, Comma>>[1] = Quote
    BY DEF Quote, Comma, Byte
  <1> HIDE DEF b
  <1>5. /\ Len(b) \in Nat /\ Len(a) = 1 + Len(b)
        /\ \A i \in 1..Len(b) : a[1 + i] = b[i]
    BY <1>1, <1>3, PrefixOfConcat
  <1>6. a \in Seq(Byte)  BY <1>1, <1>3, ConcatProperties
  <1> HIDE DEF a
  <1>7. /\ Len(w) = Len(a) + 2
        /\ \A i \in 1..Len(a) : w[i] = a[i]
        /\ w[Len(a) + 1] = Quote
    <2>1. 1 \in 1..2  OBVIOUS
    <2> QED  BY <1>4, <1>6, <2>1, PrefixOfConcat
  <1>8. w \in Seq(Byte)  BY <1>4, <1>6, ConcatProperties
  <1> HIDE DEF w
  <1>9. /\ text \in Seq(Byte) /\ Size = n /\ n \in Nat \ {0}
        /\ \A i \in 1..n : text[i] = w[i]
    <2>1. n \in 1..Len(w) /\ text = SubSeq(w, 1, n) /\ Len(w) \in Nat  BY <1>2, <1>8, LenProperties
    <2> QED  BY ONLY <1>8, <2>1, SubSeqProperties DEF Size
  <1>10. ASSUME NEW j \in Nat, j < Size PROVE Char(j) = w[j + 1]
    <2>1. j + 1 \in 1..n  BY <1>9, <1>10
    <2> QED  BY <1>9, <1>10, <2>1 DEF Char
  <1>11. ASSUME NEW j \in 1..Len(b), j < Size PROVE Char(j) = b[j]
    <2>1. j \in Nat /\ j + 1 \in 1..Len(a) /\ j + 1 = 1 + j  BY <1>5
    <2>2. w[j + 1] = a[1 + j]  BY <1>7, <2>1
    <2>3. a[1 + j] = b[j]  BY <1>5
    <2> QED  BY <1>10, <1>11, <2>1, <2>2, <2>3
  <1>12. ASSUME Len(b) + 1 < Size PROVE Char(Len(b) + 1) = Quote
    <2>1. Len(b) + 1 \in Nat /\ (Len(b) + 1) + 1 = Len(a) + 1  BY <1>5
    <2> QED  BY <1>7, <1>10, <1>12, <2>1
  <1> QED  BY <1>9, <1>11, <1>12 DEF Arrived, b

(* The bytes ahead of the reader are those of the next piece.                *)
LEMMA PieceAhead ==
    ASSUME NEW ps, IsLiteral(ps), Arrived(ps), NEW k \in 1..Len(ps)
    PROVE  LET q == At(ps, k - 1) + 1
               s == ps[k].spelt
           IN  /\ q \in Nat \ {0} /\ Len(s) \in Nat
               /\ At(ps, k) + 1 = q + Len(s) /\ q + Len(s) <= Len(Spelt(ps)) + 1
               /\ \A i \in 1..Len(s) : q + i - 1 < Size => Char(q + i - 1) = s[i]
  <1> DEFINE a == At(ps, k - 1)
             s == ps[k].spelt
             b == Spelt(ps)
  <1>1. a \in Nat /\ At(ps, k) = a + Len(s) /\ Len(s) \in Nat  BY Steps, PieceTypes
  <1>2. At(ps, k) <= Len(b) /\ \A i \in 1..Len(s) : b[a + i] = s[i]  BY Stands
  <1>3. Len(b) \in Nat /\ \A j \in 1..Len(b) : j < Size => Char(j) = b[j]
    BY Ends, LenProperties DEF Arrived
  <1> HIDE DEF a, s, b
  <1>4. ASSUME NEW i \in 1..Len(s), a + 1 + i - 1 < Size PROVE Char(a + 1 + i - 1) = s[i]
    <2>1. a + 1 + i - 1 = a + i /\ a + i \in 1..Len(b)  BY <1>1, <1>2, <1>3
    <2> QED  BY <1>2, <1>3, <1>4, <2>1
  <1>5. a + 1 \in Nat \ {0} /\ At(ps, k) + 1 = a + 1 + Len(s) /\ a + 1 + Len(s) <= Len(b) + 1
    BY <1>1, <1>2, <1>3
  <1> QED  BY <1>1, <1>4, <1>5 DEF a, s, b

-----------------------------------------------------------------------------
(* A turn of the reader                                                      *)

Turn == EndOfText \/ CloseQuote \/ Plain \/ LetterEscape \/ ReadUnit

LEMMA LetterIs ==
    ASSUME NEW p, IsLetter(p)
    PROVE  \E c \in Byte \ {LetterU} :
              p.spelt = <<Backslash, c>> /\ p.means = <<Unescaped(c)>>
  <1>1. \A l \in DOMAIN Letters : Letters[l][1] \in Byte \ {LetterU}
    BY DEF Letters, LetterU, Quote, Backslash, Byte
  <1>2. \A l, m \in DOMAIN Letters : Letters[l][1] = Letters[m][1] => l = m
    BY DEF Letters, Quote, Backslash
  <1>3. ASSUME NEW l \in DOMAIN Letters PROVE Unescaped(Letters[l][1]) = Letters[l][2]
    <2> DEFINE m == CHOOSE m \in DOMAIN Letters : Letters[m][1] = Letters[l][1]
    <2>1. m \in DOMAIN Letters /\ Letters[m][1] = Letters[l][1]  OBVIOUS
    <2>2. m = l  BY <1>2, <2>1
    <2>3. Unescaped(Letters[l][1]) = Letters[m][2]  BY DEF Unescaped
    <2> QED  BY <2>2, <2>3
  <1>4. Slash \in Byte \ {LetterU} /\ Unescaped(Slash) = Slash
    <2>1. \A l \in DOMAIN Letters : Letters[l][1] # Slash
      BY DEF Letters, Slash, Quote, Backslash
    <2> QED  BY <2>1 DEF Unescaped, Slash, Byte, LetterU
  <1>5. CASE \E l \in DOMAIN Letters :
                p.spelt = <<Backslash, Letters[l][1]>> /\ p.means = <<Letters[l][2]>>
    <2>1. PICK l \in DOMAIN Letters :
                p.spelt = <<Backslash, Letters[l][1]>> /\ p.means = <<Letters[l][2]>>
      BY <1>5
    <2>2. Letters[l][1] \in Byte \ {LetterU} /\ Unescaped(Letters[l][1]) = Letters[l][2]
      BY <1>1, <1>3
    <2> QED  BY ONLY <2>1, <2>2
  <1>6. CASE p.spelt = <<Backslash, Slash>> /\ p.means = <<Slash>>  BY ONLY <1>4, <1>6
  <1> QED  BY <1>5, <1>6 DEF IsLetter

LEMMA NoQuoteInside ==
    ASSUME NEW p, IsCharacter(p) \/ IsLetter(p) \/ IsUnit(p) \/ IsPair(p)
    PROVE  \A i \in 1..Len(p.spelt) - 1 : p.spelt[i] # Quote
  <1> DEFINE s == p.spelt
  <1>1. Quote # Backslash /\ Quote # LetterU /\ ~IsHex(Quote)
    BY DEF Quote, Backslash, LetterU, IsHex
  <1>2. CASE IsCharacter(p)
    <2>1. Len(s) = 1  BY <1>2 DEF IsCharacter
    <2> QED  BY <2>1
  <1>3. CASE IsLetter(p)
    <2>1. PICK c : s = <<Backslash, c>>  BY <1>3, LetterIs
    <2>2. Len(s) = 2 /\ s[1] = Backslash  BY <2>1
    <2> QED  BY <1>1, <2>2
  <1>4. ASSUME NEW k \in {1, 7}, IsUnitEscape(s, k), NEW i \in k..k + 5 PROVE s[i] # Quote
    <2>1. CASE i = k \/ i = k + 1  BY <1>1, <1>4, <2>1 DEF IsUnitEscape
    <2>2. CASE i # k /\ i # k + 1
      <3>1. i - k \in 2..5 /\ k + (i - k) = i  BY <2>2
      <3>2. IsHex(s[i])  BY <1>4, <3>1 DEF IsUnitEscape
      <3> QED  BY <1>1, <3>2
    <2> QED  BY <2>1, <2>2
  <1>5. CASE IsUnit(p)
    <2>1. Len(s) = 6 /\ IsUnitEscape(s, 1)  BY <1>5 DEF IsUnit
    <2>2. \A i \in 1..5 : i \in 1..1 + 5  OBVIOUS
    <2> QED  BY <1>4, <2>1, <2>2
  <1>6. CASE IsPair(p)
    <2>1. Len(s) = 12 /\ IsUnitEscape(s, 1) /\ IsUnitEscape(s, 7)  BY <1>6 DEF IsPair
    <2>2. \A i \in 1..11 : i \in 1..1 + 5 \/ i \in 7..7 + 5  OBVIOUS
    <2> QED  BY <1>4, <2>1, <2>2
  <1> QED  BY <1>2, <1>3, <1>5, <1>6

LEMMA CutOff ==
    ASSUME NEW ps, IsLiteral(ps), Arrived(ps), NEW k \in 1..Len(ps), Size \in Nat,
           cursor = At(ps, k - 1) + 1, Size < cursor + Len(ps[k].spelt)
    PROVE  Broken(ps)
  <1> DEFINE s == ps[k].spelt
             b == Len(Spelt(ps))
  <1>1. /\ cursor \in Nat \ {0} /\ Len(s) \in Nat /\ cursor + Len(s) <= b + 1
        /\ \A i \in 1..Len(s) : cursor + i - 1 < Size => Char(cursor + i - 1) = s[i]
    BY PieceAhead
  <1>2. \A i \in 1..Len(s) - 1 : s[i] # Quote
    BY NoQuoteInside DEF IsLiteral
  <1>3. b \in Nat  BY Ends, LenProperties
  <1> HIDE DEF s, b
  <1>4. Size < cursor + Len(s)  BY DEF s
  <1>5. Size < b + 2  BY <1>1, <1>3, <1>4
  <1>6. ASSUME NEW j \in cursor..Size - 1 PROVE Char(j) # Quote
    <2> DEFINE i == j - cursor + 1
    <2>1. i \in 1..Len(s) - 1 /\ i \in 1..Len(s) /\ cursor + i - 1 = j /\ j < Size
      BY <1>1, <1>4
    <2> HIDE DEF i
    <2> QED  BY <1>1, <1>2, <2>1
  <1> QED  BY <1>5, <1>6 DEF Broken, b

LEMMA BrokenStays ==
    ASSUME NEW ps, Broken(ps), text \in Seq(Byte), cursor \in Nat, Turn,
           input.body = ps, Len(Spelt(ps)) \in Nat
    PROVE  (stage' = stage /\ ok' = ok /\ Broken(ps)') \/ (stage' = "done" /\ StringsAsMeant')
  <1>1. Size \in Nat /\ text' = text /\ input' = input
    <2>1. text' = text /\ input' = input
      BY DEF Turn, EndOfText, CloseQuote, Plain, LetterEscape, ReadUnit
    <2> QED  BY <2>1, LenProperties DEF Size
  <1>2. ASSUME cursor' \in Nat, cursor <= cursor' PROVE Broken(ps)'
    <2>1. \A j \in cursor'..Size - 1 : j \in cursor..Size - 1  BY <1>1, <1>2
    <2>2. \A j \in cursor'..Size - 1 : Char(j) # Quote  BY <2>1 DEF Broken
    <2>3. Size' = Size /\ \A j : Char(j)' = Char(j)  BY <1>1 DEF Size, Char
    <2> QED  BY <2>2, <2>3 DEF Broken
  <1>3. CASE EndOfText
    <2>1. ~(Len(text) >= Len(Spelt(ps)) + 2)  BY <1>1 DEF Broken, Size
    <2> QED  BY <1>1, <1>3, <2>1 DEF EndOfText, StringsAsMeant
  <1>4. CASE CloseQuote
    <2>1. cursor \in cursor..Size - 1 /\ Char(cursor) = Quote  BY <1>1, <1>4 DEF CloseQuote
    <2> QED  BY <2>1 DEF Broken
  <1>5. CASE Plain
    <2>1. cursor' = cursor + 1 /\ stage' = stage /\ ok' = ok  BY <1>5 DEF Plain
    <2> QED  BY <1>2, <2>1
  <1>6. CASE LetterEscape
    <2>1. cursor' = cursor + 2 /\ stage' = stage /\ ok' = ok  BY <1>6 DEF LetterEscape
    <2> QED  BY <1>2, <2>1
  <1>7. CASE ReadUnit
    <2>1. stage' = stage /\ ok' = ok  BY <1>7 DEF ReadUnit
    <2>2. cursor' \in Nat /\ cursor <= cursor'
      <3>1. CASE UnitFits(cursor + 2)
        <4>1. cursor' = CodePoint(cursor + 2).next  BY <1>7, <3>1 DEF ReadUnit
        <4>2. cursor + 2 \in Nat  OBVIOUS
        <4>3. CodePoint(cursor + 2).next \in (cursor + 2 + 1)..Size
          BY <3>1, <4>2, CodePointRange
        <4> QED  BY <1>1, <4>1, <4>3
      <3>2. CASE ~UnitFits(cursor + 2)
        <4>1. cursor' = cursor + 2  BY <1>7, <3>2 DEF ReadUnit
        <4> QED  BY <4>1
      <3> QED  BY <3>1, <3>2
    <2> QED  BY <1>2, <2>1, <2>2
  <1> QED  BY <1>3, <1>4, <1>5, <1>6, <1>7 DEF Turn

(* The bytes of s lie ahead of the reader, all of them.                      *)
Ahead(s) ==
    /\ Len(s) \in Nat /\ cursor + Len(s) <= Size
    /\ \A i \in 1..Len(s) : Char(cursor + i - 1) = s[i]

Read(p) == out' = out \o p.means /\ cursor' = cursor + Len(p.spelt)

LEMMA CharacterRead ==
    ASSUME NEW p, IsCharacter(p), cursor \in Nat, Size \in Nat, out \in Seq(Byte),
           Ahead(p.spelt), Turn
    PROVE  Read(p) /\ UNCHANGED <<input, text, ok, stage>>
  <1>1. PICK c \in Byte \ {Quote, Backslash} : p.spelt = <<c>> /\ p.means = <<c>>
    BY DEF IsCharacter
  <1>2. Len(p.spelt) = 1 /\ p.spelt[1] = c  BY <1>1
  <1>3. 1 \in 1..1 /\ cursor + 1 - 1 = cursor  OBVIOUS
  <1>4. Char(cursor) = c /\ cursor < Size  BY <1>2, <1>3 DEF Ahead
  <1>5. Plain
    BY <1>1, <1>4 DEF Turn, EndOfText, CloseQuote, LetterEscape, ReadUnit, Escaped
  <1>6. Append(out, c) = out \o <<c>>  BY <1>1
  <1> QED  BY <1>1, <1>2, <1>4, <1>5, <1>6 DEF Plain, Read

LEMMA LetterRead ==
    ASSUME NEW p, IsLetter(p), cursor \in Nat, Size \in Nat, out \in Seq(Byte),
           Ahead(p.spelt), Turn
    PROVE  Read(p) /\ UNCHANGED <<input, text, ok, stage>>
  <1>1. PICK c \in Byte \ {LetterU} :
           p.spelt = <<Backslash, c>> /\ p.means = <<Unescaped(c)>>
    BY LetterIs
  <1>2. Len(p.spelt) = 2 /\ p.spelt[1] = Backslash /\ p.spelt[2] = c  BY <1>1
  <1>3. 1 \in 1..2 /\ 2 \in 1..2 /\ cursor + 1 - 1 = cursor /\ cursor + 2 - 1 = cursor + 1
    OBVIOUS
  <1>4. Char(cursor) = Backslash /\ Char(cursor + 1) = c /\ cursor + 1 < Size
    BY <1>2, <1>3 DEF Ahead
  <1>5. Backslash # Quote  BY DEF Backslash, Quote
  <1>6. LetterEscape
    <2>1. ~EndOfText /\ ~CloseQuote  BY <1>4, <1>5 DEF EndOfText, CloseQuote
    <2>2. ~Plain
      BY <1>4 DEF Plain, Escaped
    <2>3. ~ReadUnit  BY <1>1, <1>4 DEF ReadUnit
    <2> QED  BY <2>1, <2>2, <2>3 DEF Turn
  <1>7. Unescaped(c) \in Byte  BY <1>1, UnescapedIsByte
  <1>8. Append(out, Unescaped(c)) = out \o <<Unescaped(c)>>  BY <1>7
  <1> QED  BY <1>1, <1>2, <1>4, <1>6, <1>8 DEF LetterEscape, Read

LEMMA UnitSeen ==
    ASSUME NEW s, NEW k, NEW q \in Nat, \A d \in 0..5 : Char(q + d) = s[k + d]
    PROVE  Unit(q + 2) = UnitOf(s, k)
  <1>1. 2 \in 0..5 /\ 3 \in 0..5 /\ 4 \in 0..5 /\ 5 \in 0..5  OBVIOUS
  <1>2. /\ Char(q + 2) = s[k + 2] /\ Char(q + 3) = s[k + 3]
        /\ Char(q + 4) = s[k + 4] /\ Char(q + 5) = s[k + 5]
    BY <1>1
  <1>3. (q + 2) + 1 = q + 3 /\ (q + 2) + 2 = q + 4 /\ (q + 2) + 3 = q + 5  OBVIOUS
  <1> QED  BY <1>2, <1>3 DEF Unit, UnitOf

(* An escape of a code unit, at the reader or six bytes on.                  *)
LEMMA UnitAhead ==
    ASSUME NEW s, Ahead(s), NEW k \in {1, 7}, k + 5 <= Len(s), IsUnitEscape(s, k),
           cursor \in Nat, Size \in Nat
    PROVE  LET q == cursor + k - 1 IN
           /\ q + 6 <= Size /\ Char(q) = Backslash /\ Char(q + 1) = LetterU
           /\ \A d \in 2..5 : IsHex(Char(q + d))
           /\ Unit(q + 2) = UnitOf(s, k)
  <1> DEFINE q == cursor + k - 1
  <1>1. Len(s) \in Nat /\ cursor + Len(s) <= Size  BY DEF Ahead
  <1>2. ASSUME NEW d \in 0..5 PROVE Char(q + d) = s[k + d]
    <2>1. k + d \in 1..Len(s) /\ cursor + (k + d) - 1 = q + d  BY <1>1
    <2> QED  BY <2>1 DEF Ahead
  <1>3. q \in Nat /\ q + 6 <= Size  BY <1>1
  <1>4. Char(q) = s[k] /\ Char(q + 1) = s[k + 1]
    <2>1. 0 \in 0..5 /\ 1 \in 0..5 /\ q + 0 = q /\ k + 0 = k  BY <1>3
    <2>2. Char(q + 0) = s[k + 0] /\ Char(q + 1) = s[k + 1]  BY <1>2, <2>1
    <2> QED  BY <2>1, <2>2
  <1>7. Unit(q + 2) = UnitOf(s, k)  BY <1>2, <1>3, UnitSeen
  <1>8. \A d \in 2..5 : IsHex(Char(q + d))
    <2>1. \A d \in 2..5 : d \in 0..5  OBVIOUS
    <2> QED  BY <1>2, <2>1 DEF IsUnitEscape
  <1> QED  BY <1>3, <1>4, <1>7, <1>8 DEF IsUnitEscape

LEMMA OnlyReadUnit ==
    ASSUME cursor \in Nat, Size \in Nat, cursor + 6 <= Size, Char(cursor) = Backslash,
           Char(cursor + 1) = LetterU, Turn
    PROVE  /\ out' = out \o Utf8(CodePoint(cursor + 2).cp)
           /\ cursor' = CodePoint(cursor + 2).next
           /\ UNCHANGED <<input, text, ok, stage>>
  <1>1. Backslash # Quote  BY DEF Backslash, Quote
  <1>2. ~EndOfText /\ ~CloseQuote  BY <1>1 DEF EndOfText, CloseQuote
  <1>3. cursor + 1 < Size  OBVIOUS
  <1>4. ~Plain  BY <1>3 DEF Plain, Escaped
  <1>5. ~LetterEscape  BY DEF LetterEscape
  <1>6. ReadUnit  BY <1>2, <1>4, <1>5 DEF Turn
  <1>7. UnitFits(cursor + 2)
    <2>1. (cursor + 2) + 4 = cursor + 6  OBVIOUS
    <2> QED  BY <2>1 DEF UnitFits
  <1> QED  BY <1>6, <1>7 DEF ReadUnit

LEMMA UnitRead ==
    ASSUME NEW p, IsUnit(p), cursor \in Nat, Size \in Nat, Ahead(p.spelt), Turn,
           UnitOf(p.spelt, 1) \in High => ~LowFollows(cursor + 6)
    PROVE  Read(p) /\ UNCHANGED <<input, text, ok, stage>>
  <1> DEFINE u == UnitOf(p.spelt, 1)
  <1>1. Len(p.spelt) = 6 /\ IsUnitEscape(p.spelt, 1)  BY DEF IsUnit
  <1>2. p.means = Utf8(IF u \in High \cup Low THEN Replacement ELSE u)  BY DEF IsUnit
  <1>3. /\ cursor + 6 <= Size /\ Char(cursor) = Backslash /\ Char(cursor + 1) = LetterU
        /\ Unit(cursor + 2) = u
    <2>1. 1 \in {1, 7} /\ 1 + 5 <= 6 /\ cursor + 1 - 1 = cursor  OBVIOUS
    <2> QED  BY <1>1, <2>1, UnitAhead
  <1>4. (cursor + 2) + 4 = cursor + 6  OBVIOUS
  <1> HIDE DEF u
  <1>5. ~(Unit(cursor + 2) \in High /\ LowFollows((cursor + 2) + 4))  BY <1>3, <1>4 DEF u
  <1>6. CodePoint(cursor + 2) =
           [cp |-> IF u \in High \cup Low THEN Replacement ELSE u, next |-> cursor + 6]
    BY <1>3, <1>4, <1>5 DEF CodePoint
  <1> QED  BY <1>1, <1>2, <1>3, <1>6, OnlyReadUnit DEF Read

LEMMA PairRead ==
    ASSUME NEW p, IsPair(p), cursor \in Nat, Size \in Nat, Ahead(p.spelt), Turn
    PROVE  Read(p) /\ UNCHANGED <<input, text, ok, stage>>
  <1> DEFINE h == UnitOf(p.spelt, 1)
             l == UnitOf(p.spelt, 7)
  <1>1. /\ Len(p.spelt) = 12 /\ IsUnitEscape(p.spelt, 1) /\ IsUnitEscape(p.spelt, 7)
        /\ h \in High /\ l \in Low /\ p.means = Utf8(Combined(h, l))
    BY DEF IsPair
  <1>2. /\ cursor + 6 <= Size /\ Char(cursor) = Backslash /\ Char(cursor + 1) = LetterU
        /\ Unit(cursor + 2) = h
    <2>1. 1 \in {1, 7} /\ 1 + 5 <= 12 /\ cursor + 1 - 1 = cursor  OBVIOUS
    <2> QED  BY <1>1, <2>1, UnitAhead
  <1> DEFINE r == cursor + 6
  <1>3. /\ r + 6 <= Size /\ Char(r) = Backslash /\ Char(r + 1) = LetterU
        /\ \A d \in 2..5 : IsHex(Char(r + d))
        /\ Unit(r + 2) = l
    <2>1. 7 \in {1, 7} /\ 7 + 5 <= 12 /\ cursor + 7 - 1 = r  OBVIOUS
    <2> QED  BY <1>1, <2>1, UnitAhead
  <1>4. LowFollows(r)  BY <1>1, <1>3 DEF LowFollows
  <1>5. /\ (cursor + 2) + 4 = r /\ (cursor + 2) + 6 = r + 2 /\ (cursor + 2) + 10 = cursor + 12
    OBVIOUS
  <1> HIDE DEF h, l, r
  <1>6. CodePoint(cursor + 2) = [cp |-> Combined(h, l), next |-> cursor + 12]
    BY <1>1, <1>2, <1>3, <1>4, <1>5 DEF CodePoint
  <1> QED  BY <1>1, <1>2, <1>6, OnlyReadUnit DEF Read

(* No code unit is a high half and a low one.                                *)
LEMMA Halves ==
    ASSUME NEW u, u \in High, u \in Low
    PROVE  FALSE
  <1>1. u \in Int /\ u <= 56319  BY DEF High
  <1>2. u >= 56320  BY DEF Low
  <1> QED  BY ONLY <1>1, <1>2

(* Nothing behind a lone high half can be taken for its low one.             *)
LEMMA NoLowFollows ==
    ASSUME NEW ps, IsLiteral(ps), Arrived(ps), NEW k \in 1..Len(ps), Size \in Nat,
           IsUnit(ps[k]), UnitOf(ps[k].spelt, 1) \in High, NEW q, q = At(ps, k) + 1,
           LowFollows(q)
    PROVE  FALSE
  <1>1. q + 6 <= Size /\ Char(q) = Backslash /\ Char(q + 1) = LetterU /\ Unit(q + 2) \in Low
    BY DEF LowFollows
  <1>2. Len(ps) \in Nat /\ At(ps, k) \in Nat  BY PieceTypes, Ends
  <1>3. CASE k = Len(ps)
    <2>1. q = Len(Spelt(ps)) + 1  BY <1>3, Ends
    <2>2. q < Size  BY <1>1, <1>2
    <2>3. Char(q) = Quote  BY <2>1, <2>2 DEF Arrived
    <2> QED  BY <1>1, <2>3 DEF Quote, Backslash
  <1>4. CASE k # Len(ps)
    <2> DEFINE p == ps[k + 1]
               s == p.spelt
    <2>1. k + 1 \in 1..Len(ps) /\ (k + 1) - 1 = k /\ k \in 1..Len(ps) - 1  BY <1>2, <1>4
    <2>2. /\ q \in Nat \ {0} /\ Len(s) \in Nat
          /\ \A i \in 1..Len(s) : q + i - 1 < Size => Char(q + i - 1) = s[i]
      BY <2>1, PieceAhead
    <2>3. IsCharacter(p) \/ IsLetter(p) \/ IsUnit(p) \/ IsPair(p)  BY <2>1 DEF IsLiteral
    <2>4. ~(IsUnit(p) /\ UnitOf(s, 1) \in Low)  BY <2>1 DEF IsLiteral
    <2> HIDE DEF p
    <2>5. CASE IsCharacter(p)
      <3>1. PICK c \in Byte \ {Quote, Backslash} : s = <<c>>  BY <2>5 DEF IsCharacter
      <3>2. 1 \in 1..Len(s) /\ s[1] = c /\ q + 1 - 1 = q /\ q < Size  BY <1>1, <2>2, <3>1
      <3>3. Char(q) = c  BY <2>2, <3>2
      <3> QED  BY <1>1, <3>1, <3>3
    <2>6. CASE IsLetter(p)
      <3>1. PICK c \in Byte \ {LetterU} : s = <<Backslash, c>>  BY <2>6, LetterIs
      <3>2. 2 \in 1..Len(s) /\ s[2] = c /\ q + 2 - 1 = q + 1 /\ q + 1 < Size
        BY <1>1, <2>2, <3>1
      <3>3. Char(q + 1) = c  BY <2>2, <3>2
      <3> QED  BY <1>1, <3>1, <3>3
    <2>7. CASE IsUnit(p) \/ IsPair(p)
      <3>1. Len(s) >= 6
        <4>1. CASE IsUnit(p)
          <5>1. Len(s) = 6  BY ONLY <4>1 DEF IsUnit
          <5> QED  BY <5>1
        <4>2. CASE IsPair(p)
          <5>1. Len(s) = 12  BY ONLY <4>2 DEF IsPair
          <5> QED  BY <5>1
        <4> QED  BY ONLY <2>7, <4>1, <4>2
      <3>2. ASSUME NEW d \in 0..5 PROVE Char(q + d) = s[1 + d]
        <4>1. 1 + d \in 1..Len(s) /\ q + (1 + d) - 1 = q + d /\ q + d < Size
          BY <1>1, <2>2, <3>1
        <4> QED  BY <2>2, <4>1
      <3>3. Unit(q + 2) = UnitOf(s, 1)  BY <2>2, <3>2, UnitSeen
      <3>4. UnitOf(s, 1) \in Low  BY <1>1, <3>3
      <3>5. IsPair(p)  BY ONLY <2>4, <2>7, <3>4
      <3>6. UnitOf(s, 1) \in High  BY ONLY <3>5 DEF IsPair
      <3> QED  BY ONLY <3>4, <3>6, Halves
    <2> QED  BY <2>3, <2>5, <2>6, <2>7
  <1> QED  BY <1>3, <1>4

(* One turn of the reader: from a piece to the next, or into a broken one,   *)
(* or to the end.                                                            *)
Between(ps) == (\E k \in 0..Len(ps) : AtPiece(ps, k)) \/ Broken(ps)

LEMMA PieceRead ==
    ASSUME NEW ps, IsLiteral(ps), Arrived(ps), NEW k \in 1..Len(ps), AtPiece(ps, k - 1),
           text \in Seq(Byte), out \in Seq(Byte), Turn, cursor + Len(ps[k].spelt) <= Size
    PROVE  AtPiece(ps, k)' /\ UNCHANGED <<input, text, ok, stage>>
  <1> DEFINE p == ps[k]
  <1>1. /\ cursor = At(ps, k - 1) + 1 /\ cursor \in Nat /\ Len(p.spelt) \in Nat
        /\ At(ps, k) + 1 = cursor + Len(p.spelt)
        /\ \A i \in 1..Len(p.spelt) : cursor + i - 1 < Size => Char(cursor + i - 1) = p.spelt[i]
    BY PieceAhead DEF AtPiece
  <1>2. Size \in Nat  BY LenProperties DEF Size
  <1>3. Ahead(p.spelt)
    <2>1. \A i \in 1..Len(p.spelt) : cursor + i - 1 < Size  BY <1>1, <1>2
    <2> QED  BY <1>1, <2>1 DEF Ahead
  <1>4. SoFar(ps, k) = out \o p.means  BY Steps DEF AtPiece
  <1>5. IsCharacter(p) \/ IsLetter(p) \/ IsUnit(p) \/ IsPair(p)  BY DEF IsLiteral
  <1>6. Read(p) /\ UNCHANGED <<input, text, ok, stage>>
    <2>1. CASE IsCharacter(p)  BY <1>1, <1>2, <1>3, <2>1, CharacterRead
    <2>2. CASE IsLetter(p)  BY <1>1, <1>2, <1>3, <2>2, LetterRead
    <2>3. CASE IsUnit(p)
      <3>1. Len(p.spelt) = 6  BY <2>3 DEF IsUnit
      <3>2. cursor + 6 = At(ps, k) + 1  BY <1>1, <3>1
      <3>3. UnitOf(p.spelt, 1) \in High => ~LowFollows(cursor + 6)
        BY <1>2, <2>3, <3>2, NoLowFollows
      <3> HIDE DEF p
      <3> QED  BY <1>1, <1>2, <1>3, <2>3, <3>3, UnitRead
    <2>4. CASE IsPair(p)  BY <1>1, <1>2, <1>3, <2>4, PairRead
    <2> QED  BY <1>5, <2>1, <2>2, <2>3, <2>4
  <1>7. Size' = Size  BY <1>6 DEF Size
  <1> QED  BY <1>1, <1>4, <1>6, <1>7 DEF AtPiece, Read

LEMMA LastRead ==
    ASSUME NEW ps, IsLiteral(ps), Arrived(ps), AtPiece(ps, Len(ps)), input.body = ps,
           text \in Seq(Byte), ok, Turn
    PROVE  stage' = "done" /\ StringsAsMeant'
  <1> DEFINE b == Len(Spelt(ps))
  <1>1. b \in Nat /\ Size \in Nat  BY Ends, LenProperties DEF Size
  <1>2. cursor = b + 1 /\ cursor <= Size /\ out = Meant(ps)  BY Ends DEF AtPiece
  <1>3. CASE cursor < Size
    <2>1. Char(cursor) = Quote  BY <1>2, <1>3 DEF Arrived
    <2>2. Quote # Backslash  BY DEF Quote, Backslash
    <2>3. CloseQuote
      <3>1. ~EndOfText  BY <1>1, <1>2, <1>3 DEF EndOfText
      <3>2. ~Plain  BY ONLY <2>1 DEF Plain
      <3>3. ~Escaped  BY ONLY <2>1, <2>2 DEF Escaped
      <3>4. ~LetterEscape /\ ~ReadUnit  BY ONLY <3>3 DEF LetterEscape, ReadUnit
      <3> QED  BY ONLY Turn, <3>1, <3>2, <3>4 DEF Turn
    <2>4. Len(text) >= b + 2 /\ cursor + 1 = b + 2  BY <1>1, <1>2, <1>3 DEF Size
    <2> QED  BY <1>2, <2>3, <2>4 DEF CloseQuote, StringsAsMeant
  <1>4. CASE ~(cursor < Size)
    <2>1. EndOfText
      <3>1. ~CloseQuote /\ ~Plain  BY ONLY <1>4 DEF CloseQuote, Plain
      <3>2. ~(cursor + 1 < Size)  BY <1>1, <1>2, <1>4
      <3>3. ~LetterEscape /\ ~ReadUnit  BY ONLY <3>2 DEF LetterEscape, ReadUnit, Escaped
      <3> QED  BY ONLY Turn, <3>1, <3>3 DEF Turn
    <2>2. ~(Len(text) >= b + 2)  BY <1>1, <1>2, <1>4 DEF Size
    <2> QED  BY <2>1, <2>2 DEF EndOfText, StringsAsMeant
  <1> QED  BY <1>3, <1>4

LEMMA TurnKeeps ==
    ASSUME NEW ps, IsLiteral(ps), Arrived(ps), Between(ps), input.body = ps,
           text \in Seq(Byte), cursor \in Nat, out \in Seq(Byte), ok, Turn
    PROVE  \/ stage' = stage /\ ok' = ok /\ Between(ps)'
           \/ stage' = "done" /\ StringsAsMeant'
  <1>1. Len(ps) \in Nat /\ Len(Spelt(ps)) \in Nat /\ Size \in Nat
    BY PieceTypes, Ends, LenProperties DEF Size
  <1>2. CASE Broken(ps)  BY <1>1, <1>2, BrokenStays DEF Between
  <1>3. ASSUME NEW k \in 0..Len(ps), AtPiece(ps, k)
        PROVE  \/ stage' = stage /\ ok' = ok /\ Between(ps)'
               \/ stage' = "done" /\ StringsAsMeant'
    <2>1. CASE k = Len(ps)  BY <1>3, <2>1, LastRead
    <2>2. CASE k # Len(ps)
      <3>1. k + 1 \in 1..Len(ps) /\ (k + 1) - 1 = k /\ k + 1 \in 0..Len(ps)  BY <1>1, <2>2
      <3>2. CASE cursor + Len(ps[k + 1].spelt) <= Size
        <4>1. AtPiece(ps, k + 1)' /\ ok' = ok /\ stage' = stage
          BY <1>3, <3>1, <3>2, PieceRead
        <4> QED  BY <3>1, <4>1 DEF Between
      <3>3. CASE ~(cursor + Len(ps[k + 1].spelt) <= Size)
        <4>1. Len(ps[k + 1].spelt) \in Nat  BY <3>1, PieceTypes
        <4>2. Size < cursor + Len(ps[k + 1].spelt)  BY <1>1, <3>3, <4>1
        <4>3. cursor = At(ps, (k + 1) - 1) + 1  BY <1>3, <3>1 DEF AtPiece
        <4>4. Broken(ps)  BY <1>1, <3>1, <4>2, <4>3, CutOff
        <4> QED  BY <1>1, <4>4, BrokenStays DEF Between
      <3> QED  BY <3>2, <3>3
    <2> QED  BY <2>1, <2>2
  <1> QED  BY <1>2, <1>3 DEF Between

-----------------------------------------------------------------------------
(* What json_escape writes                                                   *)

LEMMA UnitEscaped ==
    ASSUME NEW c \in 0..31
    PROVE  /\ UnitEscape(c) \in Seq(Byte) /\ Len(UnitEscape(c)) = 6
           /\ IsUnitEscape(UnitEscape(c), 1) /\ UnitOf(UnitEscape(c), 1) = c
  <1>1. ASSUME NEW d \in 0..15
        PROVE  HexDigit(d) \in Byte /\ IsHex(HexDigit(d)) /\ HexValue(HexDigit(d)) = d
    <2>1. CASE d < 10
      <3>1. HexDigit(d) = 48 + d  BY <2>1 DEF HexDigit
      <3>2. 48 + d \in 48..57 /\ 48 + d \in Byte /\ (48 + d) - 48 = d  BY <2>1 DEF Byte
      <3> QED  BY ONLY <3>1, <3>2 DEF IsHex, HexValue
    <2>2. CASE ~(d < 10)
      <3>1. HexDigit(d) = 87 + d  BY <2>2 DEF HexDigit
      <3>2. /\ 87 + d \in 97..102 /\ 87 + d \notin 48..57 /\ 87 + d \in Byte
            /\ (87 + d) - 87 = d
        BY <2>2 DEF Byte
      <3> QED  BY ONLY <3>1, <3>2 DEF IsHex, HexValue
    <2> QED  BY ONLY <2>1, <2>2
  <1> DEFINE a == (c \div 16) % 16
             b == c % 16
  <1>2. /\ c \div 4096 = 0 /\ (c \div 256) % 16 = 0
        /\ a \in 0..15 /\ b \in 0..15 /\ 16 * a + b = c /\ 0 \in 0..15
    OBVIOUS
  <1> HIDE DEF a, b
  <1> DEFINE s == UnitEscape(c)
             z == HexDigit(0)
             x == HexDigit(a)
             y == HexDigit(b)
  <1>3. s = <<Backslash, LetterU, z, z, x, y>>  BY <1>2 DEF UnitEscape, a, b
  <1>4. /\ z \in Byte /\ IsHex(z) /\ HexValue(z) = 0
        /\ x \in Byte /\ IsHex(x) /\ HexValue(x) = a
        /\ y \in Byte /\ IsHex(y) /\ HexValue(y) = b
    BY ONLY <1>1, <1>2
  <1>5. Backslash \in Byte /\ LetterU \in Byte  BY DEF Backslash, LetterU, Byte
  <1> HIDE DEF s, x, y, z
  <1>6. /\ s \in Seq(Byte) /\ Len(s) = 6 /\ s[1] = Backslash /\ s[2] = LetterU
        /\ s[3] = z /\ s[4] = z /\ s[5] = x /\ s[6] = y
    BY ONLY <1>3, <1>4, <1>5
  <1>7. IsUnitEscape(s, 1)
    <2>1. 1 + 1 = 2  OBVIOUS
    <2>2. ASSUME NEW d \in 2..5 PROVE IsHex(s[1 + d])
      <3>1. 1 + d = 3 \/ 1 + d = 4 \/ 1 + d = 5 \/ 1 + d = 6  OBVIOUS
      <3> QED  BY ONLY <1>4, <1>6, <3>1
    <2> QED  BY <1>6, <2>1, <2>2 DEF IsUnitEscape
  <1>8. UnitOf(s, 1) = c
    <2>1. 1 + 2 = 3 /\ 1 + 3 = 4 /\ 1 + 4 = 5 /\ 1 + 5 = 6  OBVIOUS
    <2>2. UnitOf(s, 1) = 4096 * 0 + 256 * 0 + 16 * a + b  BY ONLY <1>4, <1>6, <2>1 DEF UnitOf
    <2> QED  BY <1>2, <2>2
  <1> QED  BY <1>6, <1>7, <1>8 DEF s

(* Each byte becomes a piece that means that byte.                           *)
LEMMA EscapeIsPiece ==
    ASSUME NEW c \in Byte, NEW p, p = [spelt |-> EscapeOf(c), means |-> <<c>>]
    PROVE  /\ p \in [spelt : Seq(Byte), means : Seq(Byte)]
           /\ IsCharacter(p) \/ IsLetter(p) \/ IsUnit(p)
           /\ IsUnit(p) => UnitOf(p.spelt, 1) \notin High
  <1>1. p.spelt = EscapeOf(c) /\ p.means = <<c>> /\ <<c>> \in Seq(Byte)  OBVIOUS
  <1>2. CASE \E l \in DOMAIN Letters : Letters[l][2] = c
    <2> DEFINE l == CHOOSE l \in DOMAIN Letters : Letters[l][2] = c
    <2>1. l \in DOMAIN Letters /\ Letters[l][2] = c  BY <1>2
    <2>2. EscapeOf(c) = <<Backslash, Letters[l][1]>>  BY <1>2 DEF EscapeOf
    <2> HIDE DEF l
    <2>3. Letters[l][1] \in Byte /\ Backslash \in Byte
      BY <2>1 DEF Letters, Byte, Quote, Backslash
    <2>4. IsLetter(p)  BY ONLY <1>1, <2>1, <2>2 DEF IsLetter
    <2>5. p.spelt \in Seq(Byte) /\ Len(p.spelt) = 2  BY ONLY <1>1, <2>2, <2>3
    <2>6. ~IsUnit(p)  BY ONLY <2>5 DEF IsUnit
    <2> QED  BY <1>1, <2>4, <2>5, <2>6
  <1>3. CASE ~(\E l \in DOMAIN Letters : Letters[l][2] = c) /\ c < 32
    <2>1. EscapeOf(c) = UnitEscape(c) /\ c \in 0..31
      BY <1>3 DEF EscapeOf, Byte
    <2>2. /\ p.spelt \in Seq(Byte) /\ Len(p.spelt) = 6
          /\ IsUnitEscape(p.spelt, 1) /\ UnitOf(p.spelt, 1) = c
      BY ONLY <1>1, <2>1, UnitEscaped
    <2>3. c \notin High \cup Low
      <3>1. c \in High => c >= 55296  BY DEF High
      <3>2. c \in Low => c >= 56320  BY DEF Low
      <3> QED  BY ONLY <2>1, <3>1, <3>2
    <2>4. Utf8(c) = <<c>>  BY <2>1 DEF Utf8
    <2>5. IsUnit(p)  BY ONLY <1>1, <2>2, <2>3, <2>4 DEF IsUnit
    <2> QED  BY <1>1, <2>2, <2>3, <2>5
  <1>4. CASE ~(\E l \in DOMAIN Letters : Letters[l][2] = c) /\ ~(c < 32)
    <2>1. EscapeOf(c) = <<c>>  BY <1>4 DEF EscapeOf
    <2>2. c # Quote /\ c # Backslash
      <3>1. "q" \in DOMAIN Letters /\ Letters["q"][2] = Quote  BY DEF Letters
      <3>2. "s" \in DOMAIN Letters /\ Letters["s"][2] = Backslash  BY DEF Letters
      <3> QED  BY ONLY <1>4, <3>1, <3>2
    <2>3. IsCharacter(p)  BY ONLY <1>1, <2>1, <2>2, c \in Byte DEF IsCharacter
    <2>4. Len(p.spelt) = 1  BY <1>1, <2>1
    <2>5. ~IsUnit(p)  BY ONLY <2>4 DEF IsUnit
    <2> QED  BY <1>1, <2>1, <2>3, <2>5
  <1> QED  BY <1>2, <1>3, <1>4

(* json_escape writes a literal for any bytes, and it means those bytes.     *)
LEMMA EscapedAsMeant ==
    ASSUME NEW s \in Seq(Byte)
    PROVE  IsLiteral(JsonEscape(s)) /\ Meant(JsonEscape(s)) = s
  <1> DEFINE ps == JsonEscape(s)
             n == Len(s)
  <1>1. n \in Nat /\ \A k \in 1..n : s[k] \in Byte  BY LenProperties, ElementOfSeq
  <1>2. ps = [k \in 1..n |-> [spelt |-> EscapeOf(s[k]), means |-> <<s[k]>>]]
    BY DEF JsonEscape
  <1>3. ASSUME NEW k \in 1..n
        PROVE  /\ ps[k] \in [spelt : Seq(Byte), means : Seq(Byte)]
               /\ IsCharacter(ps[k]) \/ IsLetter(ps[k]) \/ IsUnit(ps[k])
               /\ IsUnit(ps[k]) => UnitOf(ps[k].spelt, 1) \notin High
               /\ ps[k].means = <<s[k]>>
    <2>1. ps[k] = [spelt |-> EscapeOf(s[k]), means |-> <<s[k]>>]  BY <1>2
    <2>2. s[k] \in Byte  BY <1>1
    <2>3. ps[k].means = <<s[k]>>  BY ONLY <2>1
    <2> HIDE DEF ps
    <2> QED  BY ONLY <2>1, <2>2, <2>3, EscapeIsPiece
  <1>4. ps \in Seq([spelt : Seq(Byte), means : Seq(Byte)]) /\ Len(ps) = n
    <2> DEFINE R == [spelt : Seq(Byte), means : Seq(Byte)]
    <2>1. \A k \in 1..n : ps[k] \in R  BY <1>3
    <2> HIDE DEF R
    <2>2. ps \in [1..n -> R]  BY <1>2, <2>1
    <2>3. ps \in Seq(R) /\ Len(ps) = n  BY ONLY <1>1, <1>2, <2>2, LenProperties
    <2> QED  BY <2>3 DEF R
  <1> HIDE DEF ps
  <1>5. IsLiteral(ps)
    <2>1. \A k \in 1..n - 1 : k \in 1..n  BY <1>1
    <2> QED  BY <1>3, <1>4, <2>1 DEF IsLiteral
  <1> DEFINE S == {m \in Nat : m <= n => Len(SoFar(ps, m)) = m
                                        /\ \A i \in 1..m : SoFar(ps, m)[i] = s[i]}
  <1>6. 0 \in S
    <2>1. SoFar(ps, 0) = <<>>  BY <1>5, Ends
    <2> QED  BY <2>1
  <1>7. ASSUME NEW m \in Nat, m \in S PROVE m + 1 \in S
    <2> SUFFICES ASSUME m + 1 <= n
                 PROVE  /\ Len(SoFar(ps, m + 1)) = m + 1
                        /\ \A i \in 1..m + 1 : SoFar(ps, m + 1)[i] = s[i]
      OBVIOUS
    <2> DEFINE t == SoFar(ps, m)
    <2>1. m + 1 \in 1..n /\ (m + 1) - 1 = m /\ m \in 0..n  BY <1>1
    <2>2. SoFar(ps, m + 1) = t \o <<s[m + 1]>>
      <3>0. \A k \in 1..Len(ps) : SoFar(ps, k) = SoFar(ps, k - 1) \o ps[k].means
        BY ONLY <1>5, Steps
      <3>1. SoFar(ps, m + 1) = SoFar(ps, (m + 1) - 1) \o ps[m + 1].means
        BY ONLY <1>4, <2>1, <3>0
      <3>2. ps[m + 1].means = <<s[m + 1]>>  BY <1>3, <2>1
      <3> QED  BY ONLY <2>1, <3>1, <3>2
    <2>3. t \in Seq(Byte)
      <3>1. Meanings(ps) \in Seq(Seq(Byte)) /\ Len(Meanings(ps)) = n  BY <1>4, <1>5, PieceTypes
      <3> QED  BY <2>1, <3>1, Joining DEF SoFar
    <2>4. Len(t) = m /\ \A i \in 1..m : t[i] = s[i]  BY <1>7, <2>1
    <2>5. <<s[m + 1]>> \in Seq(Byte) /\ Len(<<s[m + 1]>>) = 1 /\ <<s[m + 1]>>[1] = s[m + 1]
      BY <1>1, <2>1
    <2> DEFINE e == <<s[m + 1]>>
    <2> HIDE DEF t, e
    <2>6. /\ Len(t \o e) = m + 1
          /\ \A i \in 1..m : (t \o e)[i] = t[i]
          /\ (t \o e)[m + 1] = s[m + 1]
      <3>1. 1 \in 1..1  OBVIOUS
      <3>2. e \in Seq(Byte) /\ Len(e) = 1 /\ e[1] = s[m + 1]  BY ONLY <2>5 DEF e
      <3>3. /\ Len(t \o e) = Len(t) + Len(e)
            /\ \A i \in 1..Len(t) : (t \o e)[i] = t[i]
            /\ \A i \in 1..Len(e) : (t \o e)[Len(t) + i] = e[i]
        BY ONLY <2>3, <3>2, PrefixOfConcat
      <3> QED  BY ONLY <2>4, <3>1, <3>2, <3>3
    <2>7. ASSUME NEW i \in 1..m + 1 PROVE SoFar(ps, m + 1)[i] = s[i]
      <3>1. SoFar(ps, m + 1) = t \o e  BY ONLY <2>2 DEF e
      <3>2. i \in 1..m \/ i = m + 1  OBVIOUS
      <3> QED  BY ONLY <2>4, <2>6, <3>1, <3>2
    <2> QED  BY <2>2, <2>6, <2>7 DEF e
  <1>8. n \in S
    <2> HIDE DEF S
    <2> QED  BY <1>1, <1>6, <1>7, Induct
  <1>9. Meant(ps) = SoFar(ps, n)  BY <1>4, <1>5, Ends
  <1>10. SoFar(ps, n) \in Seq(Byte)
    <2>1. Meanings(ps) \in Seq(Seq(Byte)) /\ Len(Meanings(ps)) = n  BY <1>4, <1>5, PieceTypes
    <2>2. n \in 0..n  BY <1>1
    <2> QED  BY <2>1, <2>2, Joining DEF SoFar
  <1>11. Len(SoFar(ps, n)) = n /\ \A i \in 1..n : SoFar(ps, n)[i] = s[i]
    <2>1. n <= n  BY <1>1
    <2> QED  BY <1>8, <2>1
  <1>12. SoFar(ps, n) = s
    <2> DEFINE t == SoFar(ps, n)
    <2>1. t \in Seq(Byte) /\ Len(t) = Len(s) /\ \A i \in 1..Len(t) : t[i] = s[i]
      BY <1>10, <1>11
    <2> HIDE DEF t
    <2>2. t = s  BY ONLY s \in Seq(Byte), <2>1, SeqEqual
    <2> QED  BY <2>2 DEF t
  <1> QED  BY <1>5, <1>9, <1>12 DEF ps

-----------------------------------------------------------------------------
(* Integers *)

LEMMA ConvertedIsInt ==
    ASSUME NEW reader \in {"get_int", "read_value", "get_uint64"}, NEW n \in Numerals
    PROVE  Converted(reader, n) \subseteq Int
  <1>1. n \in Int /\ HalfWord \in Int  BY NumeralAssumption, WidthAssumption
  <1>2. CASE reader = "get_uint64"  BY <1>1, <1>2 DEF Converted, Clamped
  <1>3. CASE reader = "read_value"  BY <1>1, <1>3 DEF Converted, Clamped
  <1>4. CASE reader = "get_int"
    <2>1. Words \subseteq Int  BY DEF Words
    <2>2. \A d \in ToDouble(n) : (IF d \in Words THEN {d} ELSE Words) \subseteq Int
      BY <2>1
    <2>3. Converted(reader, n) = UNION {IF d \in Words THEN {d} ELSE Words : d \in ToDouble(n)}
      BY <1>4 DEF Converted
    <2> QED  BY <2>2, <2>3
  <1> QED  BY <1>2, <1>3, <1>4

(* The nearest double lies on the same side of every integer that is one.    *)
LEMMA NearestKeepsOrder ==
    ASSUME NEW n \in Int, NEW d \in ToDouble(n), NEW m \in -Mantissa..Mantissa
    PROVE  d \in Int /\ (m <= n => m <= d) /\ (n <= m => d <= m)
  <1>1. d \in Int /\ m \in Doubles /\ m \in Int
    BY DoubleAssumption, WidthAssumption DEF ToDouble
  <1>2. Distance(d, n) <= Distance(m, n)  BY <1>1 DEF ToDouble
  <1> QED  BY <1>1, <1>2 DEF Distance

LEMMA ConvertedAsMeant ==
    ASSUME NEW reader \in {"get_int", "read_value", "get_uint64"}, NEW n \in Numerals,
           reader = "get_int" => ToDouble(n) \subseteq Words,
           NEW m \in Exact(reader), NEW x \in Converted(reader, n)
    PROVE  (m <= n => m <= x) /\ (n <= m => x <= m)
  <1>1. n \in Int /\ HalfWord \in Nat  BY NumeralAssumption, WidthAssumption
  <1>2. CASE reader = "get_uint64"
    BY <1>1, <1>2 DEF Converted, Clamped, Exact, Unsigned
  <1>3. CASE reader = "read_value"
    BY <1>1, <1>3 DEF Converted, Clamped, Exact, Words
  <1>4. CASE reader = "get_int"
    <2>1. x \in UNION {IF d \in Words THEN {d} ELSE Words : d \in ToDouble(n)}
      BY <1>4 DEF Converted
    <2>2. PICK d \in ToDouble(n) : x \in IF d \in Words THEN {d} ELSE Words  BY <2>1
    <2>3. x \in ToDouble(n)  BY <1>4, <2>2
    <2>4. m \in -Mantissa..Mantissa  BY <1>4 DEF Exact
    <2> QED  BY <1>1, <2>3, <2>4, NearestKeepsOrder
  <1> QED  BY <1>2, <1>3, <1>4

-----------------------------------------------------------------------------
(* The inductive invariant: TypeOK, which of the two things is read, and for *)
(* a literal where the reader stands in it until it is read as meant.        *)

Integer ==
    /\ input \in [reader : {"get_int", "read_value", "get_uint64"}, num : Numerals]
    /\ out \in Int
    /\ stage = "done" => out \in Converted(input.reader, input.num)

Literal ==
    /\ input \in [body : Literals] /\ out \in Seq(Byte)
    /\ Arrived(input.body)
    /\ stage = "reading" => ok /\ Between(input.body)
    /\ stage = "done" => StringsAsMeant

IInv ==
    /\ text \in Seq(Byte) /\ cursor \in 0..Size
    /\ ok \in BOOLEAN /\ stage \in {"reading", "done"}
    /\ Literal \/ Integer

(* A literal is no integer, and an integer no literal.                       *)
LEMMA Domains ==
    /\ \A l \in [body : Literals] : "body" \in DOMAIN l /\ "num" \notin DOMAIN l
    /\ \A i \in [reader : {"get_int", "read_value", "get_uint64"}, num : Numerals] :
          "num" \in DOMAIN i /\ "body" \notin DOMAIN i
  <1>1. \A l \in [body : Literals] : DOMAIN l = {"body"}  OBVIOUS
  <1>2. \A i \in [reader : {"get_int", "read_value", "get_uint64"}, num : Numerals] :
           DOMAIN i = {"reader", "num"}
    OBVIOUS
  <1> QED  BY <1>1, <1>2

LEMMA InitIsGood == Init => IInv
  <1> SUFFICES ASSUME Init PROVE IInv  OBVIOUS
  <1>1. CASE input \in [body : Literals] /\ cursor = 1 /\ out = <<>>
             /\ \E n \in 1..Len(Whole(input)) : text = SubSeq(Whole(input), 1, n)
    <2>1. PICK ps \in Literals : input.body = ps  BY <1>1
    <2>2. PICK n \in 1..Len(Whole(input)) : text = SubSeq(Whole(input), 1, n)  BY <1>1
    <2>3. IsLiteral(ps)  BY LiteralAssumption
    <2>4. Arrived(ps) /\ text \in Seq(Byte) /\ Size \in Nat \ {0}
      BY <2>1, <2>2, <2>3, ArrivedAtFirst
    <2>5. Between(ps)
      <3>1. At(ps, 0) = 0 /\ SoFar(ps, 0) = <<>> /\ Len(ps) \in Nat
        BY <2>3, Ends, PieceTypes
      <3>2. AtPiece(ps, 0)  BY <1>1, <2>4, <3>1 DEF AtPiece
      <3>3. 0 \in 0..Len(ps)  BY <3>1
      <3> QED  BY <3>2, <3>3 DEF Between
    <2>6. stage = "reading" /\ ok = TRUE  BY DEF Init
    <2>7. out \in Seq(Byte)  BY <1>1
    <2>8. Literal  BY <1>1, <2>1, <2>4, <2>5, <2>6, <2>7 DEF Literal
    <2>9. cursor \in 0..Size  BY <1>1, <2>4
    <2> QED  BY ONLY <2>4, <2>6, <2>8, <2>9 DEF IInv
  <1>2. CASE /\ input \in UNION {{[reader |-> r, num |-> n] : r \in Readers(n)} : n \in Numerals}
             /\ text = <<>> /\ cursor = 0 /\ out = 0
    <2>1. PICK n \in Numerals : \E r \in Readers(n) : input = [reader |-> r, num |-> n]
      BY <1>2
    <2>2. PICK r \in Readers(n) : input = [reader |-> r, num |-> n]  BY <2>1
    <2>3. r \in {"get_int", "read_value", "get_uint64"}  BY <2>2 DEF Readers
    <2> QED  BY <1>2, <2>2, <2>3 DEF Init, IInv, Integer, Size
  <1> QED  BY <1>1, <1>2 DEF Init

(* A turn of the reader of strings.                                          *)
LEMMA ReadingKeeps ==
    ASSUME IInv, Reading
    PROVE  Literal /\ out \in Seq(Byte) /\ cursor \in Nat /\ Size \in Nat
  <1>1. Literal  BY Domains DEF IInv, Integer, Reading
  <1>2. Size \in Nat /\ cursor \in 0..Size  BY LenProperties DEF IInv, Size
  <1>3. cursor \in Nat  BY <1>2
  <1> QED  BY <1>1, <1>2, <1>3 DEF Literal

LEMMA LiteralKeeps ==
    ASSUME IInv, Turn, out' \in Seq(Byte)
    PROVE  Literal'
  <1>1. /\ Reading /\ input' = input /\ text' = text
    BY DEF Turn, EndOfText, CloseQuote, Plain, LetterEscape, ReadUnit, Escaped
  <1>2. Literal /\ out \in Seq(Byte) /\ cursor \in Nat /\ stage = "reading"
    BY <1>1, ReadingKeeps DEF Reading
  <1>3. PICK ps \in Literals : input.body = ps  BY <1>2 DEF Literal
  <1>4. IsLiteral(ps)  BY LiteralAssumption
  <1>5. Arrived(ps) /\ ok /\ Between(ps)  BY <1>2, <1>3 DEF Literal
  <1>6. text \in Seq(Byte)  BY DEF IInv
  <1>7. \/ stage' = stage /\ ok' = ok /\ Between(ps)'
        \/ stage' = "done" /\ StringsAsMeant'
    BY ONLY <1>2, <1>3, <1>4, <1>5, <1>6, Turn, TurnKeeps
  <1>8. Arrived(ps)'  BY <1>1, <1>5 DEF Arrived, Char, Size
  <1>9. input' \in [body : Literals] /\ (input.body)' = ps  BY <1>1, <1>2, <1>3 DEF Literal
  <1>10. Arrived(input.body)'  BY <1>8, <1>9
  <1>11. CASE stage' = stage /\ ok' = ok /\ Between(ps)'
    <2>1. Between(input.body)' /\ ok' /\ stage' # "done"  BY <1>2, <1>5, <1>9, <1>11
    <2> QED  BY <1>9, <1>10, <2>1, out' \in Seq(Byte) DEF Literal
  <1>12. CASE stage' = "done" /\ StringsAsMeant'
    BY <1>9, <1>10, <1>12, out' \in Seq(Byte) DEF Literal
  <1> QED  BY <1>7, <1>11, <1>12

LEMMA StepIsGood == IInv /\ [Next]_vars => IInv'
  <1> SUFFICES ASSUME IInv, [Next]_vars PROVE IInv'  OBVIOUS
  <1>1. CASE UNCHANGED vars
    BY <1>1 DEF IInv, Literal, Integer, vars, Size, Arrived, Char, Between, AtPiece, Broken,
                StringsAsMeant
  <1>2. CASE EndOfText
    <2>1. Reading /\ Turn  BY <1>2 DEF EndOfText, Turn
    <2>2. out' \in Seq(Byte)  BY <1>2, <2>1, ReadingKeeps DEF EndOfText
    <2>3. Literal'  BY <2>1, <2>2, LiteralKeeps
    <2> QED  BY <1>2, <2>1, <2>3, ReadingKeeps DEF EndOfText, IInv, Size
  <1>3. CASE CloseQuote
    <2>1. Reading /\ Turn  BY <1>3 DEF CloseQuote, Turn
    <2>2. out' \in Seq(Byte)  BY <1>3, <2>1, ReadingKeeps DEF CloseQuote
    <2>3. Literal'  BY <2>1, <2>2, LiteralKeeps
    <2> QED  BY <1>3, <2>1, <2>3, ReadingKeeps DEF CloseQuote, IInv, Size
  <1>4. CASE Plain
    <2>1. Reading /\ Turn  BY <1>4 DEF Plain, Turn
    <2>2. Char(cursor) \in Byte  BY <2>1, ReadingKeeps, CharIsByte DEF IInv
    <2>3. out' \in Seq(Byte)  BY <1>4, <2>1, <2>2, ReadingKeeps, AppendProperties DEF Plain
    <2>4. Literal'  BY <2>1, <2>3, LiteralKeeps
    <2> QED  BY <1>4, <2>1, <2>4, ReadingKeeps DEF Plain, IInv, Size
  <1>5. CASE LetterEscape
    <2>1. Reading /\ cursor + 1 < Size /\ Turn  BY <1>5 DEF LetterEscape, Escaped, Turn
    <2>2. Char(cursor + 1) \in Byte  BY <2>1, ReadingKeeps, CharIsByte DEF IInv
    <2>3. out' \in Seq(Byte)
      BY <1>5, <2>1, <2>2, ReadingKeeps, UnescapedIsByte, AppendProperties DEF LetterEscape
    <2>4. Literal'  BY <2>1, <2>3, LiteralKeeps
    <2> QED  BY <1>5, <2>1, <2>4, ReadingKeeps DEF LetterEscape, IInv, Size
  <1>6. CASE ReadUnit
    <2>1. Reading /\ cursor + 1 < Size /\ Turn  BY <1>6 DEF ReadUnit, Escaped, Turn
    <2>2. CASE UnitFits(cursor + 2)
      <3>1. /\ CodePoint(cursor + 2).cp \in Nat /\ CodePoint(cursor + 2).cp <= 1114111
            /\ CodePoint(cursor + 2).next \in (cursor + 2 + 1)..Size
        BY <2>1, <2>2, ReadingKeeps, CodePointRange DEF IInv
      <3>2. out' = out \o Utf8(CodePoint(cursor + 2).cp) /\ cursor' = CodePoint(cursor + 2).next
        BY <1>6, <2>2 DEF ReadUnit
      <3>3. out' \in Seq(Byte)  BY <2>1, <3>1, <3>2, ReadingKeeps, Utf8Bytes, ConcatProperties
      <3>4. cursor' \in 0..Size  BY <2>1, <3>1, <3>2, ReadingKeeps
      <3>5. Literal'  BY <2>1, <3>3, LiteralKeeps
      <3> QED  BY <1>6, <3>4, <3>5 DEF ReadUnit, IInv, Size
    <2>3. CASE ~UnitFits(cursor + 2)
      <3>1. cursor' = cursor + 2 /\ out' = out  BY <1>6, <2>3 DEF ReadUnit
      <3>2. out' \in Seq(Byte) /\ cursor' \in 0..Size  BY <2>1, <3>1, ReadingKeeps
      <3>3. Literal'  BY <2>1, <3>2, LiteralKeeps
      <3> QED  BY <1>6, <3>2, <3>3 DEF ReadUnit, IInv, Size
    <2> QED  BY <2>2, <2>3
  <1>7. CASE ReadInteger
    <2>1. Integer  BY <1>7, Domains DEF ReadInteger, IInv, Literal
    <2>2. out' \in Int  BY <1>7, <2>1, ConvertedIsInt DEF ReadInteger, Integer
    <2>3. Integer'  BY <1>7, <2>1, <2>2 DEF ReadInteger, Integer
    <2> QED  BY <1>7, <2>3 DEF ReadInteger, IInv, Size
  <1> QED  BY <1>1, <1>2, <1>3, <1>4, <1>5, <1>6, <1>7 DEF Next

LEMMA Inductive == Spec => []IInv
  BY InitIsGood, StepIsGood, PTL DEF Spec

-----------------------------------------------------------------------------
(* The theorems *)

(* TypeOK: in any text, cut off wherever it is, the cursor of                *)
(* read_string_raw stays inside and what it appends are bytes.               *)
THEOREM TypeCorrect == Spec => []TypeOK
  <1>1. IInv => TypeOK  BY Domains DEF IInv, Literal, Integer, TypeOK
  <1> QED  BY <1>1, Inductive, PTL

(* StringsAsMeant: read_string_raw reads every literal, of any length and    *)
(* any pieces, as it is meant when it arrives whole, and rejects it when it  *)
(* is cut off, wherever that is.                                             *)
THEOREM StringsAreRead == Spec => []StringsAsMeant
  <1>1. IInv => StringsAsMeant
    <2>1. CASE Integer  BY <2>1, Domains DEF Integer, StringsAsMeant
    <2>2. CASE IInv /\ Literal
      BY <2>2 DEF IInv, Literal, StringsAsMeant
    <2> QED  BY <2>1, <2>2 DEF IInv
  <1> QED  BY <1>1, Inductive, PTL

(* What json_escape writes of any bytes comes back from read_string_raw as   *)
(* those bytes, or not at all.                                               *)
THEOREM EscapedComesBack ==
    Spec => [](\A s \in Seq(Byte) :
                  stage = "done" /\ input = [body |-> JsonEscape(s)] /\ ok => out = s)
  <1>1. StringsAsMeant =>
            \A s \in Seq(Byte) :
                stage = "done" /\ input = [body |-> JsonEscape(s)] /\ ok => out = s
    <2> SUFFICES ASSUME StringsAsMeant, NEW s \in Seq(Byte), stage = "done",
                        input = [body |-> JsonEscape(s)], ok
                 PROVE  out = s
      OBVIOUS
    <2>1. "body" \in DOMAIN input /\ input.body = JsonEscape(s)  OBVIOUS
    <2>2. out = Meant(input.body)  BY <2>1 DEF StringsAsMeant
    <2>3. Meant(JsonEscape(s)) = s  BY EscapedAsMeant
    <2> QED  BY <2>1, <2>2, <2>3
  <1> QED  BY <1>1, StringsAreRead, PTL

(* IntegersAsMeant: get_int, get_uint64 and the cells of a row, for any      *)
(* width of the integers and of the mantissa, and whichever way strtod       *)
(* breaks a tie.                                                             *)
THEOREM IntegersAreRead == Spec => []IntegersAsMeant
  <1>1. IInv => IntegersAsMeant
    <2> SUFFICES ASSUME IInv, stage = "done", "num" \in DOMAIN input,
                        input.reader # "get_int" \/ ToDouble(input.num) \subseteq Words,
                        NEW m \in Exact(input.reader)
                 PROVE  (m <= input.num => m <= out) /\ (input.num <= m => out <= m)
      BY DEF IntegersAsMeant
    <2>1. Integer  BY Domains DEF IInv, Literal
    <2> QED  BY <2>1, ConvertedAsMeant DEF Integer
  <1> QED  BY <1>1, Inductive, PTL
=============================================================================
