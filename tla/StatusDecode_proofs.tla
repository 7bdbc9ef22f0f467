------------------------ MODULE StatusDecode_proofs ------------------------
(* Proofs about StatusDecode, for any replies with any nested objects: what  *)
(* a lookup finds, what a table of reads leaves in every field, and that the *)
(* status reports what the reply says.                                       *)
EXTENDS StatusDecode, SequenceTheorems, WellFoundedInduction, TLAPS

-----------------------------------------------------------------------------
(* Induction by a least counterexample *)

LEMMA NatLess == IsWellFoundedOn({p \in Nat \X Nat : p[1] < p[2]}, Nat)
  BY NatLessThanWellFounded DEF OpToRel

LEMMA Least ==
    ASSUME NEW S, S \subseteq Nat, S # {}
    PROVE  \E n \in S : \A m \in S : n <= m
  <1> DEFINE R == {p \in Nat \X Nat : p[1] < p[2]}
  <1>1. IsWellFoundedOn(R, Nat)  BY NatLess
  <1> HIDE DEF R
  <1>2. \E x \in S : \A y \in S : <<y, x>> \notin R  BY <1>1, WFMin
  <1> USE DEF R
  <1>3. PICK x \in S : \A y \in S : <<y, x>> \notin R  BY <1>2
  <1>4. \A y \in S : ~(y < x)  BY <1>3
  <1> QED  BY <1>4

LEMMA Induct ==
    ASSUME NEW S, 0 \in S, \A n \in Nat : n \in S => n + 1 \in S
    PROVE  Nat \subseteq S
  <1> SUFFICES ASSUME Nat \ S # {} PROVE FALSE  OBVIOUS
  <1>1. PICK n \in Nat \ S : \A m \in Nat \ S : n <= m  BY Least
  <1>2. n # 0 /\ n - 1 \in Nat  BY <1>1
  <1>3. n - 1 \in S  BY <1>1, <1>2
  <1>4. (n - 1) + 1 \in S  BY <1>2, <1>3
  <1> QED  BY <1>1, <1>4

-----------------------------------------------------------------------------
(* One lookup *)

IsRead(read) ==
    /\ read.get \in {"string", "bool", "int", "uint64", "object"}
    /\ read.get = "object" => read.into \in {"hlc_raw", "obj"}

LEMMA FirstIsLeast ==
    ASSUME NEW I, I \subseteq Nat \ {0}
    PROVE  /\ I = {} => First(I) = 0
           /\ I # {} => First(I) \in I /\ \A j \in I : First(I) <= j
  <1>1. ASSUME I # {} PROVE \E i \in I : \A j \in I : i <= j  BY <1>1, Least
  <1> QED  BY <1>1 DEF First

LEMMA BodyMembers ==
    ASSUME NEW json, IsBody(json)
    PROVE  /\ Len(json.members) \in Nat
           /\ \A i \in 1..Len(json.members) :
                 /\ At(json, i).kind \in Kinds
                 /\ At(json, i).kind = "num" => At(json, i).val \in Nat
                 /\ At(json, i).kind \in {"frac", "neg"} => At(json, i).val \in Int
                 /\ At(json, i).kind \in {"num", "frac", "neg"} =>
                       AsDouble(At(json, i).val) \in Int
                 /\ At(json, i).kind \in {"bool", "boolCut"} => At(json, i).val \in BOOLEAN
                 /\ At(json, i).kind = "obj" => At(json, i).val \in DOMAIN Nested \ {""}
  <1>1. json.members \in Seq(DOMAIN Member)  BY DEF IsBody
  <1>2. Len(json.members) \in Nat  BY <1>1, LenProperties
  <1>3. \A i \in 1..Len(json.members) : json.members[i] \in DOMAIN Member
    BY <1>1, ElementOfSeq
  <1>4. ASSUME NEW m \in DOMAIN Member, Member[m].kind \in {"num", "frac", "neg"}
        PROVE  AsDouble(Member[m].val) \in Int
    <2>1. /\ Member[m].kind = "num" => Member[m].val \in Nat
          /\ Member[m].kind \in {"frac", "neg"} => Member[m].val \in Int
          /\ Member[m].kind \in {"num", "frac", "neg"} => Rounded(Member[m].val) \in Int
      BY <1>4, MemberAssumption, Zenon
    <2>2. Member[m].val \in Int /\ Rounded(Member[m].val) \in Int  BY <1>4, <2>1
    <2> QED  BY <2>2 DEF AsDouble
  <1> QED  BY <1>2, <1>3, <1>4, MemberAssumption DEF At

(* The hit of a scan is the first member that is the field.                  *)
LEMMA HitIsFirst ==
    ASSUME NEW json, IsBody(json), NEW read
    PROVE  LET i == Hit(json, read.key, KindsOf(read)) IN
           /\ MembersFor(json, read) = {} => i = 0 /\ FirstFor(json, read) = {}
           /\ MembersFor(json, read) # {} =>
                 /\ FirstFor(json, read) = {i}
                 /\ i \in 1..Len(json.members)
                 /\ At(json, i).key = read.key /\ At(json, i).kind \in KindsOf(read)
  <1> DEFINE I == MembersFor(json, read)
  <1>1. Len(json.members) \in Nat  BY BodyMembers
  <1>2. I \subseteq Nat \ {0}  BY <1>1 DEF MembersFor
  <1>3. Hit(json, read.key, KindsOf(read)) = First(I)  BY DEF Hit, MembersFor
  <1>4. /\ I = {} => First(I) = 0
        /\ I # {} => First(I) \in I /\ \A j \in I : First(I) <= j
    <2> HIDE DEF I
    <2> QED  BY <1>2, FirstIsLeast
  <1>5. I = {} => FirstFor(json, read) = {}  BY DEF FirstFor
  <1>6. ASSUME I # {} PROVE FirstFor(json, read) = {First(I)}
    <2> HIDE DEF I
    <2>1. ASSUME NEW j \in I, \A k \in I : j <= k PROVE j = First(I)
      <3>1. First(I) \in Nat /\ j \in Nat  BY <1>2, <1>4, <1>6
      <3>2. First(I) <= j /\ j <= First(I)  BY <1>4, <1>6, <2>1
      <3> QED  BY <3>1, <3>2
    <2>2. FirstFor(json, read) = {j \in I : \A k \in I : j <= k}  BY DEF FirstFor, I
    <2> QED  BY <2>1, <2>2, <1>4, <1>6
  <1>7. First(I) \in I => /\ First(I) \in 1..Len(json.members)
                          /\ At(json, First(I)).key = read.key
                          /\ At(json, First(I)).kind \in KindsOf(read)
    BY DEF MembersFor
  <1> HIDE DEF I
  <1> QED  BY <1>3, <1>4, <1>5, <1>6, <1>7 DEF I

(* What a lookup leaves in its variable and what it returns.                 *)
LEMMA LookupResult ==
    ASSUME NEW json, IsBody(json), NEW read, IsRead(read), NEW out
    PROVE  LET r == Lookup(json, read, out) IN
           /\ MembersFor(json, read) = {} =>
                 /\ FirstFor(json, read) = {}
                 /\ r.ret = ScanEnd(json)
                 /\ r.out = IF read.get = "int" /\ r.ret THEN 0 ELSE out
           /\ MembersFor(json, read) # {} =>
                 \E i \in MembersFor(json, read) :
                    /\ FirstFor(json, read) = {i}
                    /\ r.ret = (At(json, i).kind \notin Unreadable(read))
                    /\ r.ret => r.out = Reported(read, At(json, i))
                    /\ ~r.ret => r.out = out \/ read.get = "string"
  <1> DEFINE i == Hit(json, read.key, KindsOf(read))
  <1>0. Len(json.members) \in Nat  BY BodyMembers
  <1>1. CASE MembersFor(json, read) = {}
    <2>1. i = 0 /\ FirstFor(json, read) = {}  BY <1>1, HitIsFirst
    <2>2. CASE read.get = "string"
      BY <1>1, <2>1, <2>2 DEF Lookup, GetString, KindsOf, IsRead
    <2>3. CASE read.get = "bool"
      BY <1>1, <2>1, <2>3 DEF Lookup, GetBool, KindsOf, IsRead
    <2>4. CASE read.get = "int"
      BY <1>1, <2>1, <2>4 DEF Lookup, GetInt, GetNumber, KindsOf, ScanEnd
    <2>5. CASE read.get = "uint64"
      BY <1>1, <2>1, <2>5 DEF Lookup, GetUint64, KindsOf, IsRead
    <2>6. CASE read.get = "object"
      BY <1>1, <2>1, <2>6 DEF Lookup, GetObjectRaw, GetRaw, KindsOf, IsRead
    <2> QED  BY <2>2, <2>3, <2>4, <2>5, <2>6 DEF IsRead
  <1>2. CASE MembersFor(json, read) # {}
    <2>1. /\ FirstFor(json, read) = {i}
          /\ i \in 1..Len(json.members)
          /\ At(json, i).key = read.key /\ At(json, i).kind \in KindsOf(read)
      BY <1>2, HitIsFirst
    <2>2. i \in MembersFor(json, read) /\ i # 0  BY <1>0, <2>1 DEF MembersFor
    <2>3. LET r == Lookup(json, read, out) IN
          /\ r.ret = (At(json, i).kind \notin Unreadable(read))
          /\ r.ret => r.out = Reported(read, At(json, i))
          /\ ~r.ret => r.out = out \/ read.get = "string"
      <3> USE DEF Reported
      <3>2. CASE read.get = "string"
        BY <2>1, <2>2, <3>2 DEF Lookup, GetString, KindsOf, Unreadable, CutKinds
      <3>3. CASE read.get = "bool"
        BY <2>1, <2>2, <3>3 DEF Lookup, GetBool, KindsOf, Unreadable, CutKinds
      <3>4. CASE read.get = "int"
        BY <2>1, <2>2, <3>4 DEF Lookup, GetInt, GetNumber, KindsOf, Unreadable, CutKinds
      <3>5. CASE read.get = "uint64"
        BY <2>1, <2>2, <3>5 DEF Lookup, GetUint64, KindsOf, Unreadable, CutKinds
      <3>6. CASE read.get = "object"
        BY <2>1, <2>2, <3>6
        DEF Lookup, GetObjectRaw, GetRaw, KindsOf, Unreadable, CutKinds
      <3> QED  BY <3>2, <3>3, <3>4, <3>5, <3>6 DEF IsRead
    <2> HIDE DEF i
    <2> QED  BY <1>2, <2>1, <2>2, <2>3
  <1> QED  BY <1>1, <1>2

-----------------------------------------------------------------------------
(* A table of reads *)

(* Reads with keys of their own.                                             *)
IsTable(reads) ==
    /\ Len(reads) \in Nat
    /\ \A i \in 1..Len(reads) : IsRead(reads[i])
    /\ \A i, j \in 1..Len(reads) : reads[i].key = reads[j].key => i = j

Start(reads) ==
    [scratch |-> FreshScratch, field |-> [k \in KeysOf(reads) |-> {}]]

LEMMA ReadingUnfolds ==
    ASSUME NEW json, NEW reads, Len(reads) \in Nat
    PROVE  /\ Reading(json, reads)[0] = Start(reads)
           /\ \A i \in 1..Len(reads) :
                 Reading(json, reads)[i] =
                    ReadField(json, Reading(json, reads)[i - 1], reads[i])
  <1> DEFINE Folded(f, n) ==
               f = [i \in 0..n |-> IF i = 0 THEN Start(reads)
                                   ELSE ReadField(json, f[i - 1], reads[i])]
             S == {n \in Nat : \E f : Folded(f, n)}
  <1>1. 0 \in S
    <2>1. Folded([i \in 0..0 |-> Start(reads)], 0)  OBVIOUS
    <2> QED  BY <2>1
  <1>2. \A n \in Nat : n \in S => n + 1 \in S
    <2> SUFFICES ASSUME NEW n \in Nat, n \in S PROVE n + 1 \in S  OBVIOUS
    <2>1. PICK f : Folded(f, n)  OBVIOUS
    <2> DEFINE last == ReadField(json, f[n], reads[n + 1])
               g == [i \in 0..n + 1 |-> IF i = n + 1 THEN last ELSE f[i]]
    <2>2. \A i \in 0..n :
             f[i] = IF i = 0 THEN Start(reads) ELSE ReadField(json, f[i - 1], reads[i])
      BY <2>1
    <2>3. ASSUME NEW i \in 0..n + 1
          PROVE  g[i] = IF i = 0 THEN Start(reads) ELSE ReadField(json, g[i - 1], reads[i])
      <3>1. CASE i = n + 1
        <4>1. i - 1 = n /\ n \in 0..n + 1 /\ n # n + 1 /\ i # 0  BY <3>1
        <4>2. g[i - 1] = f[n]  BY <4>1
        <4> HIDE DEF last
        <4>3. g[i] = last  BY <3>1
        <4> QED  BY <3>1, <4>1, <4>2, <4>3 DEF last
      <3>2. CASE i # n + 1
        <4>1. i \in 0..n  BY <3>2
        <4> HIDE DEF last
        <4>2. g[i] = f[i]  BY <3>2
        <4>3. i # 0 => i - 1 \in 0..n + 1 /\ i - 1 # n + 1  BY <4>1
        <4>4. i # 0 => g[i - 1] = f[i - 1]  BY <4>3
        <4> QED  BY <2>2, <4>1, <4>2, <4>4
      <3> QED  BY <3>1, <3>2
    <2>4. g = [i \in 0..n + 1 |-> g[i]]  OBVIOUS
    <2> HIDE DEF g
    <2>5. Folded(g, n + 1)  BY <2>3, <2>4
    <2>6. n + 1 \in Nat  OBVIOUS
    <2> HIDE DEF Folded
    <2> QED  BY <2>5, <2>6
  <1> HIDE DEF S
  <1>3. Len(reads) \in S  BY <1>1, <1>2, Induct
  <1> USE DEF S
  <1>4. \E f : Folded(f, Len(reads))  BY <1>3
  <1>5. Reading(json, reads) = CHOOSE f : Folded(f, Len(reads))
    BY DEF Reading, Start
  <1>6. Folded(Reading(json, reads), Len(reads))
    <2> HIDE DEF Folded
    <2> QED  BY <1>4, <1>5
  <1>7. \A i \in 0..Len(reads) :
           Reading(json, reads)[i] = IF i = 0 THEN Start(reads)
              ELSE ReadField(json, Reading(json, reads)[i - 1], reads[i])
    BY <1>6
  <1> QED  BY <1>7

Scratches == {"s", "b", "n", "u", "hlc_raw", "obj"}

(* What the i-th read started from, and what it found.                       *)
Before(json, reads, i) == Reading(json, reads)[i - 1].scratch[ScratchOf(reads[i])]
Got(json, reads, i) == Lookup(json, reads[i], Before(json, reads, i))
Found(json, reads, i) ==
    IF Got(json, reads, i).ret THEN {Got(json, reads, i).out} ELSE {}

LEMMA ScratchKnown ==
    ASSUME NEW read, IsRead(read)
    PROVE  ScratchOf(read) \in Scratches
  BY DEF IsRead, ScratchOf, Scratches

(* Neither a scratch variable nor a field goes away.                         *)
LEMMA ReadingDomains ==
    ASSUME NEW json, NEW reads, IsTable(reads), NEW n \in 0..Len(reads)
    PROVE  /\ DOMAIN Reading(json, reads)[n].scratch = Scratches
           /\ DOMAIN Reading(json, reads)[n].field = KeysOf(reads)
  <1> DEFINE R == Reading(json, reads)
             S == {m \in Nat : m <= Len(reads) =>
                      /\ DOMAIN R[m].scratch = Scratches
                      /\ DOMAIN R[m].field = KeysOf(reads)}
  <1>0. Len(reads) \in Nat  BY DEF IsTable
  <1>1. 0 \in S
    <2>1. R[0] = Start(reads)  BY <1>0, ReadingUnfolds
    <2>2. DOMAIN FreshScratch = Scratches  BY DEF FreshScratch, Scratches
    <2>3. DOMAIN Start(reads).scratch = Scratches  BY <2>2 DEF Start
    <2>4. DOMAIN Start(reads).field = KeysOf(reads)  BY DEF Start
    <2> QED  BY <2>1, <2>3, <2>4
  <1>2. \A m \in Nat : m \in S => m + 1 \in S
    <2> SUFFICES ASSUME NEW m \in Nat, m \in S, m + 1 <= Len(reads)
                 PROVE  /\ DOMAIN R[m + 1].scratch = Scratches
                        /\ DOMAIN R[m + 1].field = KeysOf(reads)
      OBVIOUS
    <2>1. m + 1 \in 1..Len(reads) /\ (m + 1) - 1 = m  BY <1>0
    <2>2. R[m + 1] = ReadField(json, R[m], reads[m + 1])  BY <1>0, <2>1, ReadingUnfolds
    <2>3. /\ DOMAIN R[m].scratch = Scratches
          /\ DOMAIN R[m].field = KeysOf(reads)
      BY <1>0, <2>1
    <2> HIDE DEF R
    <2> QED  BY <2>2, <2>3 DEF ReadField
  <1> HIDE DEF S
  <1>3. n \in S  BY <1>0, <1>1, <1>2, Induct
  <1> QED  BY <1>0, <1>3 DEF S

(* One read writes one scratch variable and one field.                       *)
LEMMA ScratchStep ==
    ASSUME NEW json, NEW reads, IsTable(reads), NEW n \in Nat, n + 1 <= Len(reads)
    PROVE  LET a == Reading(json, reads)[n + 1].scratch
               b == Reading(json, reads)[n].scratch
           IN  /\ a[ScratchOf(reads[n + 1])] = Got(json, reads, n + 1).out
               /\ \A v \in Scratches \ {ScratchOf(reads[n + 1])} : a[v] = b[v]
  <1> DEFINE a == Reading(json, reads)[n + 1].scratch
             b == Reading(json, reads)[n].scratch
             x == Got(json, reads, n + 1).out
  <1>1. /\ (n + 1) - 1 = n /\ n \in 0..Len(reads) /\ n + 1 \in 1..Len(reads)
        /\ Len(reads) \in Nat
    BY DEF IsTable
  <1>2. Reading(json, reads)[n + 1] =
           ReadField(json, Reading(json, reads)[n], reads[n + 1])
    BY <1>1, ReadingUnfolds
  <1>3. x = Lookup(json, reads[n + 1], b[ScratchOf(reads[n + 1])]).out
    BY <1>1 DEF Got, Before
  <1>4. a = [b EXCEPT ![ScratchOf(reads[n + 1])] = x]  BY <1>2, <1>3 DEF ReadField
  <1>5. DOMAIN b = Scratches  BY <1>1, ReadingDomains
  <1>6. ScratchOf(reads[n + 1]) \in Scratches  BY <1>1, ScratchKnown DEF IsTable
  <1> HIDE DEF a, b, x
  <1>7. /\ a[ScratchOf(reads[n + 1])] = x
        /\ \A v \in Scratches \ {ScratchOf(reads[n + 1])} : a[v] = b[v]
    BY <1>4, <1>5, <1>6
  <1> QED  BY <1>7 DEF a, b, x

LEMMA FieldStep ==
    ASSUME NEW json, NEW reads, IsTable(reads), NEW n \in Nat, n + 1 <= Len(reads)
    PROVE  LET a == Reading(json, reads)[n + 1].field
               b == Reading(json, reads)[n].field
           IN  /\ a[reads[n + 1].key] = Found(json, reads, n + 1)
               /\ \A k \in KeysOf(reads) \ {reads[n + 1].key} : a[k] = b[k]
  <1> DEFINE a == Reading(json, reads)[n + 1].field
             b == Reading(json, reads)[n].field
             x == Found(json, reads, n + 1)
  <1>1. /\ (n + 1) - 1 = n /\ n \in 0..Len(reads) /\ n + 1 \in 1..Len(reads)
        /\ Len(reads) \in Nat
    BY DEF IsTable
  <1>2. Reading(json, reads)[n + 1] =
           ReadField(json, Reading(json, reads)[n], reads[n + 1])
    BY <1>1, ReadingUnfolds
  <1>3. LET r == Lookup(json, reads[n + 1],
                        Reading(json, reads)[n].scratch[ScratchOf(reads[n + 1])])
        IN  x = IF r.ret THEN {r.out} ELSE {}
    BY <1>1 DEF Got, Before, Found
  <1> HIDE DEF x
  <1>4. a = [b EXCEPT ![reads[n + 1].key] = x]
    <2> DEFINE B == Reading(json, reads)[n]
               read == reads[n + 1]
               r == Lookup(json, read, B.scratch[ScratchOf(read)])
               y == IF r.ret THEN {r.out} ELSE {}
    <2>1. ReadField(json, B, read).field = [B.field EXCEPT ![read.key] = y]  BY DEF ReadField
    <2>2. x = y  BY <1>3
    <2>3. a = ReadField(json, B, read).field  BY <1>2
    <2> HIDE DEF a, y, B, read
    <2>4. a = [B.field EXCEPT ![read.key] = x]  BY ONLY <2>1, <2>2, <2>3
    <2> QED  BY ONLY <2>4 DEF B, read, b
  <1>5. DOMAIN b = KeysOf(reads)  BY <1>1, ReadingDomains
  <1>6. reads[n + 1].key \in KeysOf(reads)  BY <1>1 DEF KeysOf
  <1> HIDE DEF a, b
  <1>7. /\ a[reads[n + 1].key] = x
        /\ \A k \in KeysOf(reads) \ {reads[n + 1].key} : a[k] = b[k]
    BY <1>4, <1>5, <1>6
  <1> QED  BY <1>7 DEF a, b, x

(* What a field holds in the end is what its own read found.                 *)
LEMMA FieldsRead ==
    ASSUME NEW json, NEW reads, IsTable(reads)
    PROVE  /\ DOMAIN Read(json, reads) = KeysOf(reads)
           /\ \A i \in 1..Len(reads) :
                 Read(json, reads)[reads[i].key] = Found(json, reads, i)
  <1> DEFINE R == Reading(json, reads)
             S == {n \in Nat : n <= Len(reads) =>
                      \A i \in 1..n : R[n].field[reads[i].key] = Found(json, reads, i)}
  <1>0. Len(reads) \in Nat  BY DEF IsTable
  <1>1. 0 \in S  OBVIOUS
  <1>2. \A n \in Nat : n \in S => n + 1 \in S
    <2> SUFFICES ASSUME NEW n \in Nat, n \in S, n + 1 <= Len(reads), NEW i \in 1..n + 1
                 PROVE  R[n + 1].field[reads[i].key] = Found(json, reads, i)
      OBVIOUS
    <2>1. n + 1 \in 1..Len(reads) /\ i \in 1..Len(reads) /\ (n + 1) - 1 = n
      BY <1>0
    <2>2. /\ R[n + 1].field[reads[n + 1].key] = Found(json, reads, n + 1)
          /\ \A k \in KeysOf(reads) \ {reads[n + 1].key} : R[n + 1].field[k] = R[n].field[k]
      BY FieldStep
    <2>3. CASE i = n + 1  BY <2>2, <2>3
    <2>4. CASE i # n + 1
      <3>1. reads[i].key \in KeysOf(reads) \ {reads[n + 1].key}
        BY <2>1, <2>4 DEF IsTable, KeysOf
      <3>2. R[n].field[reads[i].key] = Found(json, reads, i)
        <4>1. n <= Len(reads) /\ i \in 1..n  BY <1>0, <2>4
        <4> QED  BY <4>1
      <3> QED  BY <2>2, <3>1, <3>2
    <2> QED  BY <2>3, <2>4
  <1> HIDE DEF S
  <1>3. Len(reads) \in S  BY <1>0, <1>1, <1>2, Induct
  <1>4. \A i \in 1..Len(reads) : R[Len(reads)].field[reads[i].key] = Found(json, reads, i)
    BY <1>0, <1>3 DEF S
  <1>5. DOMAIN R[Len(reads)].field = KeysOf(reads)  BY <1>0, ReadingDomains
  <1> QED  BY <1>4, <1>5 DEF Read

(* A scratch variable no read before has used holds what it was declared     *)
(* with; one the read just before has used holds what that one found.        *)
LEMMA Untouched ==
    ASSUME NEW json, NEW reads, IsTable(reads), NEW v \in Scratches, NEW n \in 0..Len(reads),
           \A i \in 1..n : ScratchOf(reads[i]) # v
    PROVE  Reading(json, reads)[n].scratch[v] = FreshScratch[v]
  <1> DEFINE R == Reading(json, reads)
             S == {m \in Nat : m <= n => R[m].scratch[v] = FreshScratch[v]}
  <1>0. Len(reads) \in Nat /\ n \in Nat  BY DEF IsTable
  <1>1. 0 \in S
    <2>1. R[0] = Start(reads)  BY <1>0, ReadingUnfolds
    <2> HIDE DEF R
    <2> QED  BY <2>1 DEF Start
  <1>2. \A m \in Nat : m \in S => m + 1 \in S
    <2> SUFFICES ASSUME NEW m \in Nat, m \in S, m + 1 <= n
                 PROVE  R[m + 1].scratch[v] = FreshScratch[v]
      OBVIOUS
    <2>1. m + 1 \in 1..Len(reads) /\ m + 1 \in 1..n /\ (m + 1) - 1 = m /\ m <= n
      BY <1>0
    <2>2. /\ m + 1 <= Len(reads)
          /\ v \in Scratches \ {ScratchOf(reads[m + 1])}
      BY <1>0, <2>1
    <2>3. \A w \in Scratches \ {ScratchOf(reads[m + 1])} :
             R[m + 1].scratch[w] = R[m].scratch[w]
      BY <2>2, ScratchStep
    <2>4. R[m + 1].scratch[v] = R[m].scratch[v]  BY <2>2, <2>3
    <2> QED  BY <2>1, <2>4
  <1> HIDE DEF S
  <1>3. n \in S  BY <1>0, <1>1, <1>2, Induct
  <1> QED  BY <1>0, <1>3 DEF S

LEMMA Adjacent ==
    ASSUME NEW json, NEW reads, IsTable(reads), NEW i \in 2..Len(reads),
           ScratchOf(reads[i - 1]) = ScratchOf(reads[i])
    PROVE  Before(json, reads, i) = Got(json, reads, i - 1).out
  <1>1. PICK n \in Nat : i = n + 2 /\ n + 1 <= Len(reads)
    <2>1. i = (i - 2) + 2 /\ i - 2 \in Nat /\ (i - 2) + 1 <= Len(reads)  BY DEF IsTable
    <2> QED  BY <2>1
  <1>2. i - 1 = n + 1  BY <1>1
  <1>3. Reading(json, reads)[n + 1].scratch[ScratchOf(reads[n + 1])] =
           Got(json, reads, n + 1).out
    BY <1>1, ScratchStep
  <1> QED  BY <1>2, <1>3 DEF Before

(* What the variable of a read can hold.                                     *)
Fits(read, v) ==
    /\ read.get = "bool" => v \in BOOLEAN
    /\ read.get = "int" => v \in Int
    /\ read.get = "uint64" => v \in Nat
    /\ read.get = "object" => v \in DOMAIN Nested

LEMMA ReportedFits ==
    ASSUME NEW json, IsBody(json), NEW read, IsRead(read), NEW i \in MembersFor(json, read),
           At(json, i).kind \notin Unreadable(read)
    PROVE  Fits(read, Reported(read, At(json, i)))
  <1> DEFINE m == At(json, i)
  <1>1. i \in 1..Len(json.members) /\ m.kind \in KindsOf(read) \ Unreadable(read)
    BY DEF MembersFor
  <1>2. /\ m.kind = "num" => m.val \in Nat
        /\ m.kind \in {"num", "frac", "neg"} => AsDouble(m.val) \in Int
        /\ m.kind \in {"bool", "boolCut"} => m.val \in BOOLEAN
        /\ m.kind = "obj" => m.val \in DOMAIN Nested
    BY <1>1, BodyMembers
  <1> HIDE DEF m
  <1>3. CASE read.get = "bool"
    <2>1. Reported(read, m) = (m.kind = "bool" /\ m.val)  BY <1>3 DEF Reported
    <2>2. m.kind = "bool" => m.val \in BOOLEAN  BY <1>2
    <2>3. Reported(read, m) \in BOOLEAN
      <3>1. CASE m.kind = "bool"  BY <2>1, <2>2, <3>1, Zenon
      <3>2. CASE m.kind # "bool"  BY <2>1, <3>2, Zenon
      <3> QED  BY <3>1, <3>2
    <2> QED  BY <1>3, <2>3 DEF Fits, m
  <1>4. CASE read.get = "int"
    <2>1. m.kind \in {"num", "frac", "neg"}  BY <1>1, <1>4 DEF KindsOf
    <2>2. Reported(read, m) \in Int  BY <1>2, <1>4, <2>1 DEF Reported
    <2> QED  BY <1>4, <2>2 DEF Fits, m
  <1>5. CASE read.get = "uint64"
    <2>1. m.kind = "num"  BY <1>1, <1>5 DEF KindsOf, Unreadable
    <2>2. Reported(read, m) \in Nat  BY <1>2, <1>5, <2>1 DEF Reported
    <2> QED  BY <1>5, <2>2 DEF Fits, m
  <1>6. CASE read.get = "object"
    <2>1. m.kind = "obj"  BY <1>1, <1>6 DEF KindsOf, Unreadable, CutKinds
    <2>2. Reported(read, m) \in DOMAIN Nested  BY <1>2, <1>6, <2>1 DEF Reported
    <2> QED  BY <1>6, <2>2 DEF Fits, m
  <1>7. CASE read.get = "string"  BY <1>7 DEF Fits
  <1> QED  BY <1>3, <1>4, <1>5, <1>6, <1>7 DEF IsRead

LEMMA LookupFits ==
    ASSUME NEW json, IsBody(json), NEW read, IsRead(read), NEW out, Fits(read, out)
    PROVE  Fits(read, Lookup(json, read, out).out)
  <1> DEFINE r == Lookup(json, read, out)
  <1>1. CASE MembersFor(json, read) = {}
    <2>1. r.out = IF read.get = "int" /\ r.ret THEN 0 ELSE out  BY <1>1, LookupResult
    <2> QED  BY <2>1 DEF Fits
  <1>2. CASE MembersFor(json, read) # {}
    <2>1. PICK i \in MembersFor(json, read) :
             /\ r.ret = (At(json, i).kind \notin Unreadable(read))
             /\ r.ret => r.out = Reported(read, At(json, i))
             /\ ~r.ret => r.out = out \/ read.get = "string"
      BY <1>2, LookupResult
    <2> SUFFICES Fits(read, r.out)  OBVIOUS
    <2> HIDE DEF r
    <2>2. CASE ~r.ret
      <3>1. r.out = out \/ read.get = "string"  BY <2>1, <2>2
      <3> QED  BY <3>1 DEF Fits
    <2>3. CASE r.ret
      <3>1. Fits(read, Reported(read, At(json, i)))  BY <2>1, <2>3, ReportedFits
      <3> QED  BY <2>1, <2>3, <3>1
    <2> QED  BY <2>1, <2>2, <2>3
  <1> QED  BY <1>1, <1>2

LEMMA ReadingFits ==
    ASSUME NEW json, IsBody(json), NEW reads, IsTable(reads), NEW i \in 1..Len(reads)
    PROVE  Fits(reads[i], Got(json, reads, i).out)
  <1> DEFINE Typed(sc) == /\ sc["b"] \in BOOLEAN /\ sc["n"] \in Int /\ sc["u"] \in Nat
                          /\ sc["hlc_raw"] \in DOMAIN Nested /\ sc["obj"] \in DOMAIN Nested
             R == Reading(json, reads)
             S == {n \in Nat : n <= Len(reads) => Typed(R[n].scratch)}
  <1>0. Len(reads) \in Nat  BY DEF IsTable
  <1>1. ASSUME NEW k \in 1..Len(reads), Typed(R[k - 1].scratch)
        PROVE  Fits(reads[k], Got(json, reads, k).out)
    <2>1. IsRead(reads[k])  BY DEF IsTable
    <2>2. Fits(reads[k], Before(json, reads, k))
      <3> DEFINE sc == R[k - 1].scratch
                 read == reads[k]
      <3>1. Before(json, reads, k) = sc[ScratchOf(read)]  BY DEF Before
      <3>2. Typed(sc) /\ IsRead(read)  BY <1>1, <2>1
      <3> HIDE DEF sc, read
      <3>3. Fits(read, sc[ScratchOf(read)])
        <4>1. CASE read.get = "string"  BY ONLY <4>1 DEF Fits
        <4>2. CASE read.get = "bool"  BY ONLY <3>2, <4>2 DEF Fits, ScratchOf
        <4>3. CASE read.get = "int"  BY ONLY <3>2, <4>3 DEF Fits, ScratchOf
        <4>4. CASE read.get = "uint64"  BY ONLY <3>2, <4>4 DEF Fits, ScratchOf
        <4>5. CASE read.get = "object"
          <5>1. ScratchOf(read) = read.into  BY ONLY <4>5 DEF ScratchOf
          <5>2. read.into \in {"hlc_raw", "obj"}  BY ONLY <3>2, <4>5 DEF IsRead
          <5> QED  BY ONLY <3>2, <4>5, <5>1, <5>2 DEF Fits
        <4> QED  BY ONLY <3>2, <4>1, <4>2, <4>3, <4>4, <4>5 DEF IsRead
      <3> QED  BY <3>1, <3>3 DEF read
    <2> QED  BY <2>1, <2>2, LookupFits DEF Got
  <1>2. 0 \in S
    <2>1. R[0] = Start(reads)  BY <1>0, ReadingUnfolds
    <2> HIDE DEF R
    <2>2. /\ FreshScratch["b"] = FALSE /\ FreshScratch["n"] = 0 /\ FreshScratch["u"] = 0
          /\ FreshScratch["hlc_raw"] = "" /\ FreshScratch["obj"] = ""
      BY DEF FreshScratch
    <2>3. Typed(FreshScratch)
      <3>1. 0 \in Int /\ 0 \in Nat  OBVIOUS
      <3>2. FALSE \in BOOLEAN /\ "" \in DOMAIN Nested  BY BodiesAssumption
      <3> QED  BY <2>2, <3>1, <3>2
    <2> HIDE DEF Typed
    <2> QED  BY <2>1, <2>3 DEF Start
  <1>3. \A n \in Nat : n \in S => n + 1 \in S
    <2> SUFFICES ASSUME NEW n \in Nat, n \in S, n + 1 <= Len(reads)
                 PROVE  Typed(R[n + 1].scratch)
      OBVIOUS
    <2>1. n + 1 \in 1..Len(reads) /\ (n + 1) - 1 = n /\ n <= Len(reads)  BY <1>0
    <2>2. Typed(R[n].scratch)  BY <2>1
    <2>3. Fits(reads[n + 1], Got(json, reads, n + 1).out)  BY <1>1, <2>1, <2>2
    <2>4. IsRead(reads[n + 1])  BY <2>1 DEF IsTable
    <2>5. /\ R[n + 1].scratch[ScratchOf(reads[n + 1])] = Got(json, reads, n + 1).out
          /\ \A v \in Scratches \ {ScratchOf(reads[n + 1])} :
                R[n + 1].scratch[v] = R[n].scratch[v]
      BY ScratchStep
    <2> HIDE DEF R
    <2> QED  BY <2>2, <2>3, <2>4, <2>5 DEF Fits, ScratchOf, IsRead, Scratches
  <1> HIDE DEF S, Typed
  <1>4. i - 1 \in S /\ i - 1 \in Nat /\ i - 1 <= Len(reads)  BY <1>0, <1>2, <1>3, Induct
  <1> QED  BY <1>1, <1>4 DEF S

-----------------------------------------------------------------------------
(* The two tables, and where a key stands in them *)

LEMMA StatusEntries ==
    /\ Len(StatusReads) = 19
    /\ StatusReads[1] = Str("query_id")
    /\ StatusReads[2] = Str("status")
    /\ StatusReads[3] = Str("state")
    /\ StatusReads[4] = Str("server_state")
    /\ StatusReads[5] = Str("terminal_state")
    /\ StatusReads[6] = Bool("committed")
    /\ StatusReads[7] = Int64("committed_statements")
    /\ StatusReads[8] = UInt64("last_commit_epoch")
    /\ StatusReads[9] = Str("last_commit_epoch_text")
    /\ StatusReads[10] = Obj("last_commit_hlc", "hlc_raw")
    /\ StatusReads[11] = Int64("first_commit_statement_index")
    /\ StatusReads[12] = Int64("last_commit_statement_index")
    /\ StatusReads[13] = Int64("completed_statements")
    /\ StatusReads[14] = Int64("statement_index")
    /\ StatusReads[15] = Str("cancel_outcome")
    /\ StatusReads[16] = Str("cancellation_reason")
    /\ StatusReads[17] = Bool("retryable")
    /\ StatusReads[18] = Obj("outcome", "obj")
    /\ StatusReads[19] = Obj("durable", "obj")
  BY DEF StatusReads, OutcomeReads, CommitFields, StatementCounts

LEMMA OutcomeEntries ==
    /\ Len(OutcomeReads) = 12
    /\ OutcomeReads[1] = Bool("committed")
    /\ OutcomeReads[2] = Int64("committed_statements")
    /\ OutcomeReads[3] = UInt64("last_commit_epoch")
    /\ OutcomeReads[4] = Str("last_commit_epoch_text")
    /\ OutcomeReads[5] = Obj("last_commit_hlc", "hlc_raw")
    /\ OutcomeReads[6] = Int64("first_commit_statement_index")
    /\ OutcomeReads[7] = Int64("last_commit_statement_index")
    /\ OutcomeReads[8] = Int64("completed_statements")
    /\ OutcomeReads[9] = Int64("statement_index")
    /\ OutcomeReads[10] = Str("serialization")
    /\ OutcomeReads[11] = Str("serialization_state")
    /\ OutcomeReads[12] = Str("terminal_state")
  BY DEF StatusReads, OutcomeReads, CommitFields, StatementCounts

StatusRank ==
    [query_id |-> 1,
     status |-> 2,
     state |-> 3,
     server_state |-> 4,
     terminal_state |-> 5,
     committed |-> 6,
     committed_statements |-> 7,
     last_commit_epoch |-> 8,
     last_commit_epoch_text |-> 9,
     last_commit_hlc |-> 10,
     first_commit_statement_index |-> 11,
     last_commit_statement_index |-> 12,
     completed_statements |-> 13,
     statement_index |-> 14,
     cancel_outcome |-> 15,
     cancellation_reason |-> 16,
     retryable |-> 17,
     outcome |-> 18,
     durable |-> 19]

OutcomeRank ==
    [committed |-> 1,
     committed_statements |-> 2,
     last_commit_epoch |-> 3,
     last_commit_epoch_text |-> 4,
     last_commit_hlc |-> 5,
     first_commit_statement_index |-> 6,
     last_commit_statement_index |-> 7,
     completed_statements |-> 8,
     statement_index |-> 9,
     serialization |-> 10,
     serialization_state |-> 11,
     terminal_state |-> 12]

LEMMA StatusTable == IsTable(StatusReads)
  <1>1. ASSUME NEW i \in 1..19
        PROVE  IsRead(StatusReads[i]) /\ StatusRank[StatusReads[i].key] = i
    <2>1. IsRead(StatusReads[i])
      BY StatusEntries DEF IsRead, Str, Bool, Int64, UInt64, Obj
    <2>2. StatusRank[StatusReads[i].key] = i
      BY StatusEntries DEF StatusRank, Str, Bool, Int64, UInt64, Obj
    <2> QED  BY <2>1, <2>2
  <1>2. \A i, j \in 1..19 : StatusReads[i].key = StatusReads[j].key => i = j  BY <1>1
  <1>3. Len(StatusReads) = 19  BY StatusEntries
  <1> QED  BY ONLY <1>1, <1>2, <1>3 DEF IsTable

LEMMA OutcomeTable == IsTable(OutcomeReads)
  <1>1. ASSUME NEW i \in 1..12
        PROVE  IsRead(OutcomeReads[i]) /\ OutcomeRank[OutcomeReads[i].key] = i
    <2>1. IsRead(OutcomeReads[i])
      BY OutcomeEntries DEF IsRead, Str, Bool, Int64, UInt64, Obj
    <2>2. OutcomeRank[OutcomeReads[i].key] = i
      BY OutcomeEntries DEF OutcomeRank, Str, Bool, Int64, UInt64, Obj
    <2> QED  BY <2>1, <2>2
  <1>2. \A i, j \in 1..12 : OutcomeReads[i].key = OutcomeReads[j].key => i = j  BY <1>1
  <1>3. Len(OutcomeReads) = 12  BY OutcomeEntries
  <1> QED  BY ONLY <1>1, <1>2, <1>3 DEF IsTable


(* What a field says of the body it was read from.                           *)
LEMMA FieldFound ==
    ASSUME NEW json, IsBody(json), NEW reads, IsTable(reads), NEW i \in 1..Len(reads)
    PROVE  LET read == reads[i]
               f == Read(json, reads)[read.key]
           IN  /\ MembersFor(json, read) = {} =>
                     /\ FirstFor(json, read) = {}
                     /\ ~ScanEnd(json) => f = {}
                     /\ ScanEnd(json) =>
                           f = {IF read.get = "int" THEN 0 ELSE Before(json, reads, i)}
               /\ MembersFor(json, read) # {} =>
                     \E m \in MembersFor(json, read) :
                        /\ FirstFor(json, read) = {m}
                        /\ f = IF At(json, m).kind \in Unreadable(read) THEN {}
                               ELSE {Reported(read, At(json, m))}
  <1> DEFINE read == reads[i]
             out == Before(json, reads, i)
             r == Lookup(json, read, out)
             f == Read(json, reads)[read.key]
  <1>1. IsRead(read)  BY DEF IsTable
  <1>2. f = IF r.ret THEN {r.out} ELSE {}  BY FieldsRead DEF Found, Got
  <1>3. ScanEnd(json) \in BOOLEAN  BY DEF ScanEnd, IsBody
  <1>4. CASE MembersFor(json, read) = {}
    <2>1. /\ FirstFor(json, read) = {}
          /\ r.ret = ScanEnd(json)
          /\ r.out = IF read.get = "int" /\ r.ret THEN 0 ELSE out
      BY <1>1, <1>4, LookupResult
    <2> HIDE DEF r, f, out, read
    <2>2. ~ScanEnd(json) => f = {}  BY <1>2, <1>3, <2>1
    <2>3. ScanEnd(json) => f = {IF read.get = "int" THEN 0 ELSE out}
      BY <1>2, <1>3, <2>1
    <2> QED  BY <1>4, <2>1, <2>2, <2>3 DEF f, out, read
  <1>5. CASE MembersFor(json, read) # {}
    <2>1. PICK m \in MembersFor(json, read) :
             /\ FirstFor(json, read) = {m}
             /\ r.ret = (At(json, m).kind \notin Unreadable(read))
             /\ r.ret => r.out = Reported(read, At(json, m))
      BY <1>1, <1>5, LookupResult
    <2> HIDE DEF r
    <2>2. f = IF At(json, m).kind \in Unreadable(read) THEN {}
              ELSE {Reported(read, At(json, m))}
      BY <1>2, <2>1
    <2> QED  BY <1>5, <2>1, <2>2
  <1> QED  BY <1>4, <1>5

-----------------------------------------------------------------------------
(* The status *)

Composed == {"server_state", "last_commit_hlc", "outcome", "durable"}

LEMMA StatusKeys ==
    \A i \in 1..19 : StatusReads[i].key \in KeysOf(StatusReads)
  BY StatusEntries DEF KeysOf

LEMMA ComposedKeys ==
    Composed \subseteq KeysOf(StatusReads)
  <1>1. /\ StatusReads[4].key = "server_state" /\ StatusReads[10].key = "last_commit_hlc"
        /\ StatusReads[18].key = "outcome" /\ StatusReads[19].key = "durable"
    BY StatusEntries DEF Str, Obj
  <1>2. /\ StatusReads[4].key \in KeysOf(StatusReads)
        /\ StatusReads[10].key \in KeysOf(StatusReads)
        /\ StatusReads[18].key \in KeysOf(StatusReads)
        /\ StatusReads[19].key \in KeysOf(StatusReads)
    BY StatusKeys
  <1> QED  BY <1>1, <1>2 DEF Composed

LEMMA StatusShape ==
    ASSUME NEW json
    PROVE  LET f == Read(json, StatusReads)
               st == ParseQueryStatus(json)
           IN  /\ DOMAIN st = KeysOf(StatusReads)
               /\ \A k \in KeysOf(StatusReads) \ Composed : st[k] = f[k]
               /\ st["server_state"] =
                     IF f["server_state"] = {} THEN f["state"] ELSE f["server_state"]
               /\ st["last_commit_hlc"] = ReadHlc(f["last_commit_hlc"])
               /\ st["outcome"] =
                     {ParseDurableOutcome(IF f["outcome"] = {} THEN NoBody
                                          ELSE Nested[CHOOSE t \in f["outcome"] : TRUE])}
               /\ st["durable"] = {ParseDurableOutcome(Nested[t]) : t \in f["durable"]}
  <1> DEFINE f == Read(json, StatusReads)
  <1>1. DOMAIN f = KeysOf(StatusReads)  BY StatusTable, FieldsRead
  <1> HIDE DEF f
  <1>2. ParseQueryStatus(json) =
           [f EXCEPT
              !["server_state"] = IF @ = {} THEN f["state"] ELSE @,
              !["last_commit_hlc"] = ReadHlc(@),
              !["outcome"] = {ParseDurableOutcome(IF @ = {} THEN NoBody ELSE Nested[CHOOSE t \in @ : TRUE])},
              !["durable"] = {ParseDurableOutcome(Nested[t]) : t \in @}]
    BY DEF ParseQueryStatus, f
  <1>3. Composed \subseteq DOMAIN f  BY <1>1, ComposedKeys
  <1>4. DOMAIN ParseQueryStatus(json) = DOMAIN f  BY <1>2
  <1>5. \A k \in KeysOf(StatusReads) \ Composed : ParseQueryStatus(json)[k] = f[k]
    BY <1>1, <1>2 DEF Composed
  <1>6. ParseQueryStatus(json)["server_state"] =
           IF f["server_state"] = {} THEN f["state"] ELSE f["server_state"]
    BY <1>2, <1>3 DEF Composed
  <1>7. ParseQueryStatus(json)["last_commit_hlc"] = ReadHlc(f["last_commit_hlc"])
    BY <1>2, <1>3 DEF Composed
  <1>8. ParseQueryStatus(json)["outcome"] =
           {ParseDurableOutcome(IF f["outcome"] = {} THEN NoBody
                                ELSE Nested[CHOOSE t \in f["outcome"] : TRUE])}
    BY <1>2, <1>3 DEF Composed
  <1>9. ParseQueryStatus(json)["durable"] =
           {ParseDurableOutcome(Nested[t]) : t \in f["durable"]}
    BY <1>2, <1>3 DEF Composed
  <1> QED  BY <1>1, <1>4, <1>5, <1>6, <1>7, <1>8, <1>9 DEF f

(* The inductive invariant: the status is what was made of the reply.        *)
IInv ==
    /\ IsBody(body)
    /\ status = ParseQueryStatus(body)
    /\ outcome \in {"none", "returned", "query_id is required"}

LEMMA Inductive == Spec => []IInv
  <1>0. IsBody(NoBody)
    <2>1. <<>> \in Seq(DOMAIN Member)  OBVIOUS
    <2> QED  BY <2>1 DEF IsBody, NoBody
  <1>1. Init => IInv  BY <1>0 DEF Init, IInv, NoStatus
  <1>2. IInv /\ [Next]_vars => IInv'
    <2> SUFFICES ASSUME IInv, [Next]_vars PROVE IInv'  OBVIOUS
    <2>1. ASSUME NEW id \in QueryIds, QueryStatus(id) PROVE IInv'
      BY <2>1, BodiesAssumption DEF QueryStatus, IInv
    <2>2. CASE Discard  BY <1>0, <2>2 DEF Discard, IInv, NoStatus
    <2>3. CASE UNCHANGED vars  BY <2>3 DEF IInv, vars
    <2> QED  BY <2>1, <2>2, <2>3 DEF Next
  <1> QED  BY <1>1, <1>2, PTL DEF Spec

-----------------------------------------------------------------------------
(* The fields of the reply *)

(* A scalar field is what was read, unless it is a missing server_state.     *)
LEMMA ScalarField ==
    ASSUME NEW json, NEW r \in Scalars(StatusReads)
    PROVE  LET key == StatusReads[r].key
               f == Read(json, StatusReads)
           IN  /\ r \in 1..19 /\ key \in KeysOf(StatusReads)
               /\ key # "server_state" \/ f[key] # {} => ParseQueryStatus(json)[key] = f[key]
  <1> DEFINE key == StatusReads[r].key
             f == Read(json, StatusReads)
  <1>1. r \in 1..19 /\ StatusReads[r].get # "object"
    BY StatusEntries DEF Scalars
  <1>2. key \notin {"last_commit_hlc", "outcome", "durable"}
    BY <1>1, StatusEntries DEF Str, Bool, Int64, UInt64, Obj
  <1>3. key \in KeysOf(StatusReads)  BY <1>1, StatusKeys
  <1>4. CASE key = "server_state"
    <2>1. ParseQueryStatus(json)["server_state"] =
             IF f["server_state"] = {} THEN f["state"] ELSE f["server_state"]
      BY StatusShape
    <2> HIDE DEF f, key
    <2>2. key # "server_state" \/ f[key] # {} => ParseQueryStatus(json)[key] = f[key]
      BY <1>4, <2>1
    <2> QED  BY <1>1, <1>3, <2>2 DEF f, key
  <1>5. CASE key # "server_state"
    <2>1. key \in KeysOf(StatusReads) \ Composed  BY <1>2, <1>3, <1>5 DEF Composed
    <2>2. ParseQueryStatus(json)[key] = f[key]  BY <2>1, StatusShape
    <2> QED  BY <1>1, <1>3, <2>2
  <1> QED  BY <1>4, <1>5

(* PresentFieldsAreReported, for every reply (parse_query_status_json).      *)
THEOREM PresentIsReported == Spec => []PresentFieldsAreReported
  <1>1. IInv => PresentFieldsAreReported
    <2> SUFFICES ASSUME IInv, NEW r \in Scalars(StatusReads),
                        NEW i \in FirstFor(body, StatusReads[r]),
                        At(body, i).kind \notin Unreadable(StatusReads[r]) \cup CutKinds,
                        StatusReads[r].get = "int" => At(body, i).val \in -Exact..Exact
                 PROVE  status[StatusReads[r].key] = {At(body, i).val}
      BY DEF PresentFieldsAreReported
    <2> DEFINE read == StatusReads[r]
               f == Read(body, StatusReads)[read.key]
    <2>1. IsBody(body) /\ status = ParseQueryStatus(body)  BY DEF IInv
    <2>2. r \in 1..Len(StatusReads)  BY DEF Scalars
    <2>3. i \in MembersFor(body, read)  BY DEF FirstFor
    <2>4. \E m \in MembersFor(body, read) :
             /\ FirstFor(body, read) = {m}
             /\ f = IF At(body, m).kind \in Unreadable(read) THEN {}
                    ELSE {Reported(read, At(body, m))}
      BY <2>1, <2>2, <2>3, FieldFound, StatusTable
    <2>7. Reported(read, At(body, i)) = At(body, i).val
      <3>1. CASE read.get = "bool"
        <4>1. i \in 1..Len(body.members) /\ At(body, i).kind = "bool"
          BY <2>3, <3>1 DEF MembersFor, KindsOf, CutKinds
        <4>2. At(body, i).val \in BOOLEAN  BY <2>1, <4>1, BodyMembers
        <4>3. Reported(read, At(body, i)) = (At(body, i).kind = "bool" /\ At(body, i).val)
          BY <3>1 DEF Reported
        <4> QED  BY <4>1, <4>2, <4>3, Zenon
      <3>2. CASE read.get = "int"  BY <3>2 DEF Reported, AsDouble
      <3>3. CASE read.get \notin {"bool", "int"}  BY <3>3 DEF Reported
      <3> QED  BY <3>1, <3>2, <3>3
    <2>5. f = {At(body, i).val}
      <3> HIDE DEF f
      <3> QED  BY <2>4, <2>7
    <2>6. ParseQueryStatus(body)[read.key] = f  BY <2>5, ScalarField
    <2> QED  BY <2>1, <2>5, <2>6
  <1> QED  BY <1>1, Inductive, PTL

(* CountersAreNotBorrowed, whatever was read before.                         *)
THEOREM CountersAreOwn == Spec => []CountersAreNotBorrowed
  <1>1. IInv => CountersAreNotBorrowed
    <2> SUFFICES ASSUME IInv, NEW r \in 1..Len(StatusReads), StatusReads[r].get = "int"
                 PROVE  status[StatusReads[r].key] \subseteq
                           {0} \cup {AsDouble(At(body, i).val) :
                                        i \in MembersFor(body, StatusReads[r])}
      BY DEF CountersAreNotBorrowed
    <2> DEFINE read == StatusReads[r]
               f == Read(body, StatusReads)[read.key]
    <2>1. IsBody(body) /\ status = ParseQueryStatus(body)  BY DEF IInv
    <2>2. r \in Scalars(StatusReads)  BY DEF Scalars
    <2>3. read.key # "server_state"
      <3>1. r \in 1..19  BY StatusEntries
      <3> QED  BY <3>1, StatusEntries DEF Str, Bool, Int64, UInt64, Obj
    <2>4. ParseQueryStatus(body)[read.key] = f  BY <2>2, <2>3, ScalarField
    <2>5. f \subseteq {0} \cup {AsDouble(At(body, i).val) : i \in MembersFor(body, read)}
      <3>1. ScanEnd(body) \in BOOLEAN  BY <2>1 DEF ScanEnd, IsBody
      <3>2. CASE MembersFor(body, read) = {}
        <4>1. f = {} \/ f = {0}  BY <2>1, <3>1, <3>2, FieldFound, StatusTable
        <4> QED  BY <4>1
      <3>3. CASE MembersFor(body, read) # {}
        <4>1. \E m \in MembersFor(body, read) :
                 f = IF At(body, m).kind \in Unreadable(read) THEN {}
                     ELSE {Reported(read, At(body, m))}
          BY <2>1, <3>3, FieldFound, StatusTable
        <4>2. \A m : Reported(read, m) = AsDouble(m.val)  BY DEF Reported
        <4> HIDE DEF f, read
        <4> QED  BY <4>1, <4>2
      <3> QED  BY <3>2, <3>3
    <2> QED  BY <2>1, <2>4, <2>5
  <1> QED  BY <1>1, Inductive, PTL

-----------------------------------------------------------------------------
(* The nested objects *)

LEMMA SameMembers ==
    ASSUME NEW json, NEW key, NEW into, NEW other
    PROVE  /\ MembersFor(json, Obj(key, into)) = MembersFor(json, Obj(key, other))
           /\ FirstFor(json, Obj(key, into)) = FirstFor(json, Obj(key, other))
           /\ Unreadable(Obj(key, into)) = CutKinds \ {"boolCut"}
           /\ KindsOf(Obj(key, into)) = {"obj", "objCut"}
  <1>1. KindsOf(Obj(key, into)) = {"obj", "objCut"} /\ KindsOf(Obj(key, other)) = {"obj", "objCut"}
    BY DEF KindsOf, Obj
  <1>2. Obj(key, into).key = key /\ Obj(key, other).key = key  BY DEF Obj
  <1>3. MembersFor(json, Obj(key, into)) = MembersFor(json, Obj(key, other))
    BY <1>1, <1>2 DEF MembersFor
  <1>4. Unreadable(Obj(key, into)) = CutKinds \ {"boolCut"}  BY DEF Unreadable, Obj
  <1> QED  BY <1>1, <1>3, <1>4 DEF FirstFor

(* What a read of an object leaves in its field and in its variable.         *)
ObjectRead(json, key, f, before, after) ==
    \/ /\ ObjectIn(json, key) = {Nested[after]}
       /\ f = {after}
    \/ /\ ObjectIn(json, key) = {}
       /\ f = {} \/ (f = {before} /\ ScanEnd(json))
       /\ after = before

LEMMA ObjectField ==
    ASSUME NEW json, IsBody(json), NEW reads, IsTable(reads), NEW i \in 1..Len(reads),
           reads[i] = Obj(reads[i].key, reads[i].into)
    PROVE  ObjectRead(json, reads[i].key, Read(json, reads)[reads[i].key],
                      Before(json, reads, i), Got(json, reads, i).out)
  <1> DEFINE key == reads[i].key
             read == Obj(key, reads[i].into)
             f == Read(json, reads)[reads[i].key]
             before == Before(json, reads, i)
             r == Lookup(json, read, before)
  <1>1. read.key = key /\ read.get = "object"  BY DEF Obj
  <1>2. IsRead(read)  BY DEF IsTable
  <1>3. f = IF r.ret THEN {r.out} ELSE {}  BY <1>1, FieldsRead DEF Found, Got
  <1>4. Got(json, reads, i).out = r.out  BY DEF Got
  <1>5. ObjectIn(json, key) =
           {Nested[At(json, m).val] : m \in {n \in FirstFor(json, read) : At(json, n).kind = "obj"}}
    <2>1. FirstFor(json, Obj(key, key)) = FirstFor(json, read)  BY SameMembers
    <2> HIDE DEF read
    <2> QED  BY <2>1 DEF ObjectIn
  <1>6. ScanEnd(json) \in BOOLEAN  BY DEF ScanEnd, IsBody
  <1>7. CASE MembersFor(json, read) = {}
    <2>1. /\ FirstFor(json, read) = {}
          /\ r.ret = ScanEnd(json) /\ r.out = before
      BY <1>1, <1>2, <1>7, LookupResult
    <2> HIDE DEF r, f, before, read
    <2>2. ObjectIn(json, key) = {}  BY <1>5, <2>1
    <2>3. f = {} \/ (f = {before} /\ ScanEnd(json))  BY <1>3, <1>6, <2>1
    <2> QED  BY <1>4, <2>1, <2>2, <2>3 DEF ObjectRead, f, before
  <1>8. CASE MembersFor(json, read) # {}
    <2>1. PICK m \in MembersFor(json, read) :
             /\ FirstFor(json, read) = {m}
             /\ r.ret = (At(json, m).kind \notin Unreadable(read))
             /\ r.ret => r.out = Reported(read, At(json, m))
             /\ ~r.ret => r.out = before
      BY <1>1, <1>2, <1>8, LookupResult
    <2>2. /\ At(json, m).kind \in {"obj", "objCut"}
          /\ r.ret = (At(json, m).kind \notin CutKinds \ {"boolCut"})
          /\ Reported(read, At(json, m)) = At(json, m).val
      <3>1. Reported(read, At(json, m)) = At(json, m).val  BY <1>1 DEF Reported
      <3> QED  BY <2>1, <3>1, SameMembers DEF MembersFor
    <2>3. CASE At(json, m).kind = "obj"
      <3>1. r.ret /\ r.out = At(json, m).val  BY <2>1, <2>2, <2>3 DEF CutKinds
      <3> HIDE DEF r, f, before, read
      <3>2. ObjectIn(json, key) = {Nested[r.out]}  BY <1>5, <2>1, <2>3, <3>1
      <3>3. f = {r.out}  BY <1>3, <3>1
      <3> QED  BY <1>4, <3>2, <3>3 DEF ObjectRead, f, before
    <2>4. CASE At(json, m).kind = "objCut"
      <3>1. ~r.ret /\ r.out = before  BY <2>1, <2>2, <2>4 DEF CutKinds
      <3> HIDE DEF r, f, before, read
      <3>2. ObjectIn(json, key) = {}  BY <1>5, <2>1, <2>4
      <3>3. f = {}  BY <1>3, <3>1
      <3> QED  BY <1>4, <3>1, <3>2, <3>3 DEF ObjectRead, f, before
    <2> QED  BY <2>2, <2>3, <2>4
  <1> QED  BY <1>7, <1>8

(* The outcome that is reported is the reply's, or an empty one; the durable *)
(* payload is the reply's, or absent, or the outcome once more.              *)
LEMMA Nesting ==
    ASSUME NEW json, IsBody(json)
    PROVE  LET st == ParseQueryStatus(json) IN
           \E out \in DOMAIN Nested :
              /\ st["outcome"] = {ParseDurableOutcome(Nested[out])}
              /\ \/ ObjectIn(json, "outcome") = {Nested[out]}
                 \/ ObjectIn(json, "outcome") = {} /\ Nested[out] = NoBody
              /\ \/ \E d \in DOMAIN Nested :
                       /\ ObjectIn(json, "durable") = {Nested[d]}
                       /\ st["durable"] = {ParseDurableOutcome(Nested[d])}
                 \/ /\ ObjectIn(json, "durable") = {}
                    /\ st["durable"] \in {{}, {ParseDurableOutcome(Nested[out])}}
                    /\ ~ScanEnd(json) => st["durable"] = {}
  <1> DEFINE f == Read(json, StatusReads)
             st == ParseQueryStatus(json)
             out == Got(json, StatusReads, 18).out
             dur == Got(json, StatusReads, 19).out
  <1>0. 17 \in 0..19 /\ 18 \in 1..19 /\ 19 \in 2..19 /\ 19 \in 1..19 /\ 18 - 1 = 17 /\ 19 - 1 = 18
    OBVIOUS
  <1>1. /\ StatusReads[18] = Obj("outcome", "obj") /\ StatusReads[19] = Obj("durable", "obj")
        /\ 17 \in 0..Len(StatusReads) /\ 18 \in 1..Len(StatusReads)
        /\ 19 \in 1..Len(StatusReads) /\ 19 \in 2..Len(StatusReads)
    BY <1>0, StatusEntries
  <1>2. Before(json, StatusReads, 18) = ""
    <2>1. \A i \in 1..17 : ScratchOf(StatusReads[i]) # "obj"
      BY StatusEntries DEF ScratchOf, Str, Bool, Int64, UInt64, Obj
    <2>2. "obj" \in Scratches /\ FreshScratch["obj"] = ""  BY DEF Scratches, FreshScratch
    <2>3. \A n \in 0..Len(StatusReads) :
             (\A i \in 1..n : ScratchOf(StatusReads[i]) # "obj") =>
                Reading(json, StatusReads)[n].scratch["obj"] = FreshScratch["obj"]
      BY <2>2, Untouched, StatusTable
    <2>4. Reading(json, StatusReads)[17].scratch["obj"] = ""
      BY <1>1, <2>1, <2>2, <2>3
    <2>5. ScratchOf(StatusReads[18]) = "obj"  BY <1>1 DEF ScratchOf, Obj
    <2>6. Before(json, StatusReads, 18) = Reading(json, StatusReads)[17].scratch["obj"]
      BY <1>0, <2>5 DEF Before
    <2> QED  BY <2>4, <2>6
  <1>3. Before(json, StatusReads, 19) = out
    <2>1. ScratchOf(StatusReads[18]) = ScratchOf(StatusReads[19])
      BY <1>1 DEF ScratchOf, Obj
    <2>2. Before(json, StatusReads, 19) = Got(json, StatusReads, 19 - 1).out
      BY <1>0, <1>1, <2>1, Adjacent, StatusTable
    <2> QED  BY <1>0, <2>2
  <1>4. out \in DOMAIN Nested /\ dur \in DOMAIN Nested
    <2>1. /\ Fits(StatusReads[18], Got(json, StatusReads, 18).out)
          /\ Fits(StatusReads[19], Got(json, StatusReads, 19).out)
      BY <1>0, <1>1, ReadingFits, StatusTable
    <2> QED  BY <1>1, <2>1 DEF Fits, Obj
  <1>5. \/ ObjectIn(json, "outcome") = {Nested[out]} /\ f["outcome"] = {out}
        \/ /\ ObjectIn(json, "outcome") = {} /\ out = ""
           /\ f["outcome"] = {} \/ f["outcome"] = {""}
    <2>1. /\ StatusReads[18] = Obj(StatusReads[18].key, StatusReads[18].into)
          /\ StatusReads[18].key = "outcome"
      BY <1>1 DEF Obj
    <2>2. ObjectRead(json, StatusReads[18].key, Read(json, StatusReads)[StatusReads[18].key],
                     Before(json, StatusReads, 18), Got(json, StatusReads, 18).out)
      BY <1>1, <2>1, ObjectField, StatusTable
    <2> QED  BY <1>2, <2>1, <2>2 DEF ObjectRead
  <1>6. \/ ObjectIn(json, "durable") = {Nested[dur]} /\ f["durable"] = {dur}
        \/ /\ ObjectIn(json, "durable") = {}
           /\ f["durable"] = {} \/ (f["durable"] = {out} /\ ScanEnd(json))
    <2>1. /\ StatusReads[19] = Obj(StatusReads[19].key, StatusReads[19].into)
          /\ StatusReads[19].key = "durable"
      BY <1>1 DEF Obj
    <2>2. ObjectRead(json, StatusReads[19].key, Read(json, StatusReads)[StatusReads[19].key],
                     Before(json, StatusReads, 19), Got(json, StatusReads, 19).out)
      BY <1>1, <2>1, ObjectField, StatusTable
    <2> QED  BY <1>3, <2>1, <2>2 DEF ObjectRead
  <1>7. /\ st["outcome"] =
             {ParseDurableOutcome(IF f["outcome"] = {} THEN NoBody
                                  ELSE Nested[CHOOSE t \in f["outcome"] : TRUE])}
        /\ st["durable"] = {ParseDurableOutcome(Nested[t]) : t \in f["durable"]}
    BY StatusShape
  <1> HIDE DEF f, st, out, dur
  <1>8. Nested[""] = NoBody  BY BodiesAssumption
  <1>9. st["outcome"] = {ParseDurableOutcome(Nested[out])}
    <2>1. f["outcome"] = {out} => (CHOOSE t \in f["outcome"] : TRUE) = out  OBVIOUS
    <2> QED  BY <1>5, <1>7, <1>8, <2>1
  <1>10. \/ ObjectIn(json, "outcome") = {Nested[out]}
         \/ ObjectIn(json, "outcome") = {} /\ Nested[out] = NoBody
    BY <1>5, <1>8
  <1>11. \/ /\ ObjectIn(json, "durable") = {Nested[dur]}
            /\ st["durable"] = {ParseDurableOutcome(Nested[dur])}
         \/ /\ ObjectIn(json, "durable") = {}
            /\ st["durable"] \in {{}, {ParseDurableOutcome(Nested[out])}}
            /\ ~ScanEnd(json) => st["durable"] = {}
    BY <1>6, <1>7
  <1> QED  BY <1>4, <1>9, <1>10, <1>11 DEF st

-----------------------------------------------------------------------------
(* commit_hlc *)

LEMMA NothingInNoBody ==
    /\ \A read : MembersFor(NoBody, read) = {} /\ FirstFor(NoBody, read) = {}
    /\ ParseCommitHlc(NoBody) = {}
    /\ \A key : ObjectIn(NoBody, key) = {}
    /\ HlcIn(NoBody) = {}
  <1>1. ASSUME NEW read
        PROVE  MembersFor(NoBody, read) = {} /\ FirstFor(NoBody, read) = {}
    <2>1. MembersFor(NoBody, read) = {}
      <3>1. Len(NoBody.members) = 0  BY DEF NoBody
      <3> QED  BY <3>1 DEF MembersFor
    <2> QED  BY <2>1 DEF FirstFor
  <1>2. ParseCommitHlc(NoBody) = {}
    <2>1. Hit(NoBody, "physical_micros", {"num", "frac"}) = 0
      BY DEF Hit, NoBody, First
    <2>2. ~ScanEnd(NoBody)  BY DEF ScanEnd, NoBody
    <2> QED  BY <2>1, <2>2 DEF ParseCommitHlc, GetUint64
  <1>3. \A key : ObjectIn(NoBody, key) = {}  BY <1>1 DEF ObjectIn
  <1>4. HlcIn(NoBody) = {}  BY <1>3 DEF HlcIn
  <1> QED  BY <1>1, <1>2, <1>3, <1>4

(* An HLC that is reported is the one the body carries: nothing else reads   *)
(* into hlc_raw, so that a missing one is parsed as "".                      *)
LEMMA HlcField ==
    ASSUME NEW json, IsBody(json), NEW reads, IsTable(reads), NEW n \in 0..Len(reads),
           n + 1 <= Len(reads), reads[n + 1] = Obj("last_commit_hlc", "hlc_raw"),
           \A i \in 1..n : ScratchOf(reads[i]) # "hlc_raw"
    PROVE  ReadHlc(Read(json, reads)["last_commit_hlc"]) = HlcIn(json)
  <1> DEFINE f == Read(json, reads)["last_commit_hlc"]
             after == Got(json, reads, n + 1).out
  <1>1. n + 1 \in 1..Len(reads) /\ (n + 1) - 1 = n  BY DEF IsTable
  <1>2. Before(json, reads, n + 1) = ""
    <2>1. "hlc_raw" \in Scratches /\ FreshScratch["hlc_raw"] = ""
      BY DEF Scratches, FreshScratch
    <2>2. Reading(json, reads)[n].scratch["hlc_raw"] = ""  BY <2>1, Untouched
    <2>3. ScratchOf(reads[n + 1]) = "hlc_raw"  BY DEF ScratchOf, Obj
    <2> QED  BY <1>1, <2>2, <2>3 DEF Before
  <1>3. ObjectRead(json, "last_commit_hlc", f, "", after)
    <2>1. /\ reads[n + 1] = Obj(reads[n + 1].key, reads[n + 1].into)
          /\ reads[n + 1].key = "last_commit_hlc"
      BY DEF Obj
    <2>2. ObjectRead(json, reads[n + 1].key, Read(json, reads)[reads[n + 1].key],
                     Before(json, reads, n + 1), Got(json, reads, n + 1).out)
      BY <1>1, <2>1, ObjectField
    <2> QED  BY <1>2, <2>1, <2>2
  <1> HIDE DEF f, after
  <1>4. ReadHlc({}) = {}  BY DEF ReadHlc
  <1>5. \A t : ReadHlc({t}) = ParseCommitHlc(Nested[t])  BY DEF ReadHlc
  <1>6. ReadHlc({""}) = {}  BY <1>5, NothingInNoBody, BodiesAssumption
  <1>7. CASE ObjectIn(json, "last_commit_hlc") = {Nested[after]} /\ f = {after}
    <2>1. HlcIn(json) = ParseCommitHlc(Nested[after])  BY <1>7 DEF HlcIn
    <2> QED  BY <1>5, <1>7, <2>1 DEF f
  <1>8. CASE ObjectIn(json, "last_commit_hlc") = {} /\ (f = {} \/ f = {""})
    <2>1. HlcIn(json) = {}  BY <1>8 DEF HlcIn
    <2> QED  BY <1>4, <1>6, <1>8, <2>1 DEF f
  <1> QED  BY <1>3, <1>7, <1>8 DEF ObjectRead

LEMMA StatusHlc ==
    ASSUME NEW json, IsBody(json)
    PROVE  ParseQueryStatus(json)["last_commit_hlc"] = HlcIn(json)
  <1>1. /\ 9 \in 0..Len(StatusReads) /\ 9 + 1 <= Len(StatusReads)
        /\ StatusReads[9 + 1] = Obj("last_commit_hlc", "hlc_raw")
    BY StatusEntries
  <1>2. \A i \in 1..9 : ScratchOf(StatusReads[i]) # "hlc_raw"
    BY StatusEntries DEF ScratchOf, Str, Bool, Int64, UInt64
  <1>3. ReadHlc(Read(json, StatusReads)["last_commit_hlc"]) = HlcIn(json)
    BY <1>1, <1>2, HlcField, StatusTable
  <1> QED  BY <1>3, StatusShape

LEMMA OutcomeShape ==
    ASSUME NEW json, IsBody(json)
    PROVE  LET f == Read(json, OutcomeReads)
               o == ParseDurableOutcome(json)
           IN  /\ o["last_commit_hlc"] = HlcIn(json)
               /\ \A k \in KeysOf(OutcomeReads) \ {"last_commit_hlc"} : o[k] = f[k]
  <1> DEFINE f == Read(json, OutcomeReads)
  <1>1. DOMAIN f = KeysOf(OutcomeReads)  BY OutcomeTable, FieldsRead
  <1>2. "last_commit_hlc" \in KeysOf(OutcomeReads)
    <2>1. OutcomeReads[5].key = "last_commit_hlc" /\ 5 \in 1..Len(OutcomeReads)
      BY OutcomeEntries DEF Obj
    <2> QED  BY <2>1 DEF KeysOf
  <1>3. ReadHlc(f["last_commit_hlc"]) = HlcIn(json)
    <2>1. /\ 4 \in 0..Len(OutcomeReads) /\ 4 + 1 <= Len(OutcomeReads)
          /\ OutcomeReads[4 + 1] = Obj("last_commit_hlc", "hlc_raw")
      BY OutcomeEntries
    <2>2. \A i \in 1..4 : ScratchOf(OutcomeReads[i]) # "hlc_raw"
      BY OutcomeEntries DEF ScratchOf, Str, Bool, Int64, UInt64
    <2> QED  BY <2>1, <2>2, HlcField, OutcomeTable
  <1> HIDE DEF f
  <1>4. ParseDurableOutcome(json) = [f EXCEPT !["last_commit_hlc"] = HlcIn(json)]
    BY <1>3 DEF ParseDurableOutcome, f
  <1> QED  BY <1>1, <1>2, <1>4 DEF f

-----------------------------------------------------------------------------
(* A reply that breaks off *)

(* CutBodyInventsNothing, wherever a reply breaks off.                       *)
THEOREM CutInventsNothing == Spec => []CutBodyInventsNothing
  <1>1. ASSUME IInv, ~body.closed, NEW r \in Scalars(StatusReads)
        PROVE  LET read == StatusReads[r]
                   field == status[read.key]
               IN  \/ field = {}
                   \/ \E i \in FirstFor(body, read) : field = {Reported(read, At(body, i))}
                   \/ read.key = "server_state" /\ field = status["state"]
    <2> DEFINE read == StatusReads[r]
               f == Read(body, StatusReads)
    <2>1. IsBody(body) /\ status = ParseQueryStatus(body)  BY <1>1 DEF IInv
    <2>2. ~ScanEnd(body)  BY <1>1 DEF ScanEnd
    <2>3. r \in 1..Len(StatusReads)  BY DEF Scalars
    <2>4. \/ f[read.key] = {}
          \/ \E i \in FirstFor(body, read) : f[read.key] = {Reported(read, At(body, i))}
      <3>1. CASE MembersFor(body, read) = {}
        <4>1. f[read.key] = {}
          BY <2>1, <2>2, <2>3, <3>1, FieldFound, StatusTable
        <4> QED  BY <4>1
      <3>2. CASE MembersFor(body, read) # {}
        <4>1. \E m \in MembersFor(body, read) :
                 /\ FirstFor(body, read) = {m}
                 /\ f[read.key] = IF At(body, m).kind \in Unreadable(read) THEN {}
                                  ELSE {Reported(read, At(body, m))}
          BY <2>1, <2>3, <3>2, FieldFound, StatusTable
        <4> HIDE DEF f, read
        <4> QED  BY <4>1
      <3> QED  BY <3>1, <3>2
    <2>5. read.key # "server_state" \/ f[read.key] # {} => status[read.key] = f[read.key]
      BY <2>1, ScalarField
    <2>6. read.key = "server_state" /\ f[read.key] = {} => status[read.key] = status["state"]
      <3>1. status["server_state"] =
               IF f["server_state"] = {} THEN f["state"] ELSE f["server_state"]
        BY <2>1, StatusShape
      <3>2. "state" \in KeysOf(StatusReads) \ Composed
        <4>1. StatusReads[3].key = "state"  BY StatusEntries DEF Str
        <4>2. "state" \in KeysOf(StatusReads)  BY <4>1, StatusKeys
        <4> QED  BY ONLY <4>2 DEF Composed
      <3>3. status["state"] = f["state"]  BY <2>1, <3>2, StatusShape
      <3> HIDE DEF f, read
      <3> QED  BY <3>1, <3>3
    <2> HIDE DEF f, read
    <2>7. CASE read.key = "server_state" /\ f[read.key] = {}  BY <2>6, <2>7 DEF read
    <2>8. CASE read.key # "server_state" \/ f[read.key] # {}  BY <2>4, <2>5, <2>8 DEF read
    <2> QED  BY <2>7, <2>8
  <1>2. ASSUME IInv, ~body.closed
        PROVE  /\ status["last_commit_hlc"] = HlcIn(body)
               /\ status["durable"] =
                     {ParseDurableOutcome(json) : json \in ObjectIn(body, "durable")}
               /\ status["outcome"] =
                     IF ObjectIn(body, "outcome") = {} THEN {ParseDurableOutcome(NoBody)}
                     ELSE {ParseDurableOutcome(json) : json \in ObjectIn(body, "outcome")}
    <2>1. IsBody(body) /\ status = ParseQueryStatus(body)  BY <1>2 DEF IInv
    <2>2. ~ScanEnd(body)  BY <1>2 DEF ScanEnd
    <2>3. status["last_commit_hlc"] = HlcIn(body)  BY <2>1, StatusHlc
    <2>4. PICK out \in DOMAIN Nested :
             /\ status["outcome"] = {ParseDurableOutcome(Nested[out])}
             /\ \/ ObjectIn(body, "outcome") = {Nested[out]}
                \/ ObjectIn(body, "outcome") = {} /\ Nested[out] = NoBody
             /\ \/ \E d \in DOMAIN Nested :
                      /\ ObjectIn(body, "durable") = {Nested[d]}
                      /\ status["durable"] = {ParseDurableOutcome(Nested[d])}
                \/ /\ ObjectIn(body, "durable") = {}
                   /\ ~ScanEnd(body) => status["durable"] = {}
      BY <2>1, Nesting
    <2>5. status["durable"] = {ParseDurableOutcome(json) : json \in ObjectIn(body, "durable")}
      BY <2>2, <2>4
    <2>6. status["outcome"] =
             IF ObjectIn(body, "outcome") = {} THEN {ParseDurableOutcome(NoBody)}
             ELSE {ParseDurableOutcome(json) : json \in ObjectIn(body, "outcome")}
      <3>1. CASE ObjectIn(body, "outcome") = {Nested[out]}  BY <2>4, <3>1
      <3>2. CASE ObjectIn(body, "outcome") = {} /\ Nested[out] = NoBody  BY <2>4, <3>2
      <3> QED  BY <2>4, <3>1, <3>2
    <2> QED  BY <2>3, <2>5, <2>6
  <1>3. IInv => CutBodyInventsNothing  BY <1>1, <1>2, Zenon DEF CutBodyInventsNothing
  <1> QED  BY <1>3, Inductive, PTL

(* CommitHlcPrecedence, for every reply (QueryStatus::commit_hlc).           *)
THEOREM CommitHlcIsInnermost == Spec => []CommitHlcPrecedence
  <1>1. IInv => CommitHlcPrecedence
    <2> SUFFICES ASSUME IInv PROVE CommitHlcPrecedence  OBVIOUS
    <2>1. IsBody(body) /\ status = ParseQueryStatus(body)  BY DEF IInv
    <2>2. PICK out \in DOMAIN Nested :
             /\ status["outcome"] = {ParseDurableOutcome(Nested[out])}
             /\ \/ ObjectIn(body, "outcome") = {Nested[out]}
                \/ ObjectIn(body, "outcome") = {} /\ Nested[out] = NoBody
             /\ \/ \E d \in DOMAIN Nested :
                      /\ ObjectIn(body, "durable") = {Nested[d]}
                      /\ status["durable"] = {ParseDurableOutcome(Nested[d])}
                \/ /\ ObjectIn(body, "durable") = {}
                   /\ status["durable"] \in {{}, {ParseDurableOutcome(Nested[out])}}
      BY <2>1, Nesting
    <2>3. \A raw \in DOMAIN Nested :
             ParseDurableOutcome(Nested[raw])["last_commit_hlc"] = HlcIn(Nested[raw])
      BY BodiesAssumption, OutcomeShape
    <2> DEFINE own == HlcIn(Nested[out])
               nested == UNION {d["last_commit_hlc"] : d \in status["durable"]}
    <2>4. Outcome(status)["last_commit_hlc"] = own
      <3>1. Outcome(status) = ParseDurableOutcome(Nested[out])  BY <2>2 DEF Outcome
      <3> QED  BY <2>3, <3>1
    <2>5. HlcUnder("outcome") = own
      <3>1. CASE ObjectIn(body, "outcome") = {Nested[out]}  BY <3>1 DEF HlcUnder
      <3>2. CASE ObjectIn(body, "outcome") = {} /\ Nested[out] = NoBody
        BY <3>2, NothingInNoBody DEF HlcUnder
      <3> QED  BY <2>2, <3>1, <3>2
    <2>6. status["last_commit_hlc"] = HlcIn(body)  BY <2>1, StatusHlc
    <2>7. \/ nested = HlcUnder("durable")
          \/ HlcUnder("durable") = {} /\ nested \in {{}, own}
      <3>1. ASSUME NEW d \in DOMAIN Nested,
                   ObjectIn(body, "durable") = {Nested[d]},
                   status["durable"] = {ParseDurableOutcome(Nested[d])}
            PROVE  nested = HlcUnder("durable")
        <4>1. nested = ParseDurableOutcome(Nested[d])["last_commit_hlc"]  BY <3>1
        <4>2. HlcUnder("durable") = HlcIn(Nested[d])  BY <3>1 DEF HlcUnder
        <4> QED  BY <2>3, <4>1, <4>2
      <3>2. ASSUME ObjectIn(body, "durable") = {},
                   status["durable"] \in {{}, {ParseDurableOutcome(Nested[out])}}
            PROVE  HlcUnder("durable") = {} /\ nested \in {{}, own}
        <4>1. HlcUnder("durable") = {}  BY <3>2 DEF HlcUnder
        <4>2. CASE status["durable"] = {}  BY <4>1, <4>2
        <4>3. CASE status["durable"] = {ParseDurableOutcome(Nested[out])}
          <5>1. nested = ParseDurableOutcome(Nested[out])["last_commit_hlc"]  BY <4>3
          <5> QED  BY <2>3, <4>1, <5>1
        <4> QED  BY <3>2, <4>2, <4>3
      <3> HIDE DEF own, nested
      <3> QED  BY <2>2, <3>1, <3>2
    <2>8. CommitHlc(status) = IF nested # {} THEN nested
                              ELSE IF own # {} THEN own ELSE HlcIn(body)
      BY <2>4, <2>6 DEF CommitHlc
    <2> HIDE DEF own, nested
    <2> QED  BY <2>5, <2>7, <2>8 DEF CommitHlcPrecedence
  <1> QED  BY <1>1, Inductive, PTL

-----------------------------------------------------------------------------
(* serialization_state *)

(* A whole object, or the empty text: nothing in it is cut.                  *)
IsWhole(json) ==
    /\ IsBody(json)
    /\ \A i \in 1..Len(json.members) : At(json, i).kind \notin CutKinds
    /\ ~ScanEnd(json) => \A read : MembersFor(json, read) = {}

LEMMA NestedWhole == \A raw \in DOMAIN Nested : IsWhole(Nested[raw])
  <1> SUFFICES ASSUME NEW raw \in DOMAIN Nested PROVE IsWhole(Nested[raw])  OBVIOUS
  <1> DEFINE json == Nested[raw]
  <1>1. /\ IsBody(json) /\ WellFormedBody(json)
        /\ raw = "" => json = NoBody
        /\ raw # "" => json.open /\ json.closed
    BY BodiesAssumption
  <1> HIDE DEF json
  <1>2. Len(json.members) \in Nat /\ json.members \in Seq(DOMAIN Member)
    BY <1>1, BodyMembers DEF IsBody
  <1>3. \A i \in 1..Len(json.members) : At(json, i).kind \notin CutKinds
    <2>1. CASE raw = ""
      <3>1. json.members = <<>>
        <4>1. json = NoBody  BY <1>1, <2>1
        <4>2. NoBody.members = <<>>  BY DEF NoBody
        <4> QED  BY ONLY <4>1, <4>2
      <3>2. Len(json.members) = 0  BY <3>1
      <3> QED  BY <3>2
    <2>2. CASE raw # ""  BY <1>1, <2>2 DEF WellFormedBody, At
    <2> QED  BY <2>1, <2>2
  <1>4. ASSUME ~ScanEnd(json), NEW read PROVE MembersFor(json, read) = {}
    <2>1. CASE raw = ""  BY <1>1, <2>1, NothingInNoBody
    <2>2. CASE raw # ""
      <3>1. json.members = <<>>  BY <1>1, <1>4, <2>2 DEF ScanEnd
      <3>2. Len(json.members) = 0  BY <3>1
      <3> QED  BY <3>2 DEF MembersFor
    <2> QED  BY <2>1, <2>2
  <1> QED  BY <1>1, <1>3, <1>4 DEF IsWhole, json

(* What a read of a string leaves in its field and in its variable.          *)
TextRead(json, read, f, before, after) ==
    /\ f = IF ScanEnd(json) THEN {after} ELSE {}
    /\ \/ TextIn(json, read.key) = {after} \ {""} /\ MembersFor(json, read) # {}
       \/ /\ TextIn(json, read.key) = {} /\ MembersFor(json, read) = {}
          /\ after = before

LEMMA TextField ==
    ASSUME NEW json, IsWhole(json), NEW reads, IsTable(reads), NEW i \in 1..Len(reads),
           NEW key, reads[i] = Str(key)
    PROVE  TextRead(json, Str(key), Read(json, reads)[key],
                    Before(json, reads, i), Got(json, reads, i).out)
  <1> DEFINE read == Str(key)
             f == Read(json, reads)[key]
             before == Before(json, reads, i)
             r == Lookup(json, read, before)
  <1>1. read.key = key /\ read.get = "string"  BY DEF Str
  <1>2. IsRead(read) /\ IsBody(json)  BY DEF IsTable, IsWhole
  <1>3. f = IF r.ret THEN {r.out} ELSE {}  BY <1>1, FieldsRead DEF Found, Got
  <1>4. Got(json, reads, i).out = r.out  BY DEF Got
  <1>5. TextIn(json, key) =
           {At(json, m).val : m \in {n \in FirstFor(json, read) : At(json, n).kind = "str"}} \ {""}
    BY DEF TextIn
  <1>6. ScanEnd(json) \in BOOLEAN  BY <1>2 DEF ScanEnd, IsBody
  <1>7. CASE MembersFor(json, read) = {}
    <2>1. /\ FirstFor(json, read) = {}
          /\ r.ret = ScanEnd(json) /\ r.out = before
      BY <1>1, <1>2, <1>7, LookupResult
    <2> HIDE DEF r, f, before, read
    <2>2. TextIn(json, key) = {}  BY <1>5, <2>1
    <2>3. f = IF ScanEnd(json) THEN {r.out} ELSE {}  BY <1>3, <2>1
    <2> QED  BY <1>1, <1>4, <1>7, <2>1, <2>2, <2>3 DEF TextRead, f, before, read
  <1>8. CASE MembersFor(json, read) # {}
    <2>1. PICK m \in MembersFor(json, read) :
             /\ FirstFor(json, read) = {m}
             /\ r.ret = (At(json, m).kind \notin Unreadable(read))
             /\ r.ret => r.out = Reported(read, At(json, m))
      BY <1>1, <1>2, <1>8, LookupResult
    <2>2. At(json, m).kind = "str"
      BY <1>1, <2>1 DEF MembersFor, KindsOf, IsWhole, CutKinds
    <2>3. At(json, m).kind \notin Unreadable(read)
      BY <1>1, <2>2 DEF Unreadable, CutKinds
    <2>4. Reported(read, At(json, m)) = At(json, m).val  BY <1>1 DEF Reported
    <2>5. ScanEnd(json)  BY <1>6, <1>8 DEF IsWhole
    <2> HIDE DEF r, f, before, read
    <2>6. r.ret /\ r.out = At(json, m).val  BY <2>1, <2>3, <2>4
    <2>7. TextIn(json, key) = {r.out} \ {""}  BY <1>5, <2>1, <2>2, <2>6
    <2>8. f = {r.out}  BY <1>3, <2>6
    <2> QED  BY <1>1, <1>4, <1>8, <2>5, <2>7, <2>8 DEF TextRead, f, before, read
  <1> QED  BY <1>7, <1>8

(* The epoch text is the first string of the table; the numbers and the HLC  *)
(* that follow it leave the variable alone, until the serialization is read. *)
LEMMA EpochTextStays ==
    ASSUME NEW json
    PROVE  /\ Before(json, OutcomeReads, 4) = ""
           /\ Before(json, OutcomeReads, 10) = Got(json, OutcomeReads, 4).out
  <1> DEFINE s(n) == Reading(json, OutcomeReads)[n].scratch["s"]
  <1>1. Len(OutcomeReads) = 12  BY OutcomeEntries
  <1>2. "s" \in Scratches /\ FreshScratch["s"] = ""  BY DEF Scratches, FreshScratch
  <1>3. /\ ScratchOf(OutcomeReads[4]) = "s" /\ ScratchOf(OutcomeReads[10]) = "s"
        /\ \A i \in {1, 2, 3, 5, 6, 7, 8, 9} : ScratchOf(OutcomeReads[i]) # "s"
    BY OutcomeEntries DEF ScratchOf, Str, Bool, Int64, UInt64, Obj
  <1>4. s(3) = ""
    <2>1. 3 \in 0..Len(OutcomeReads) /\ \A i \in 1..3 : ScratchOf(OutcomeReads[i]) # "s"
      BY <1>1, <1>3
    <2>2. \A n \in 0..Len(OutcomeReads) :
             (\A i \in 1..n : ScratchOf(OutcomeReads[i]) # "s") =>
                Reading(json, OutcomeReads)[n].scratch["s"] = FreshScratch["s"]
      BY <1>2, Untouched, OutcomeTable
    <2> QED  BY <1>2, <2>1, <2>2
  <1>5. s(4) = Got(json, OutcomeReads, 4).out
    <2>1. 3 \in Nat /\ 3 + 1 <= Len(OutcomeReads) /\ 3 + 1 = 4  BY <1>1
    <2>2. Reading(json, OutcomeReads)[3 + 1].scratch[ScratchOf(OutcomeReads[3 + 1])] =
             Got(json, OutcomeReads, 3 + 1).out
      BY <2>1, ScratchStep, OutcomeTable
    <2> QED  BY <1>3, <2>1, <2>2
  <1>6. ASSUME NEW n \in {4, 5, 6, 7, 8} PROVE s(n + 1) = s(n)
    <2>1. n \in Nat /\ n + 1 <= Len(OutcomeReads) /\ n + 1 \in {5, 6, 7, 8, 9}  BY <1>1
    <2>2. "s" \in Scratches \ {ScratchOf(OutcomeReads[n + 1])}  BY <1>2, <1>3, <2>1
    <2>3. \A v \in Scratches \ {ScratchOf(OutcomeReads[n + 1])} :
             Reading(json, OutcomeReads)[n + 1].scratch[v] =
                Reading(json, OutcomeReads)[n].scratch[v]
      BY <2>1, ScratchStep, OutcomeTable
    <2> QED  BY <2>2, <2>3
  <1> HIDE DEF s
  <1>7. s(9) = s(4)
    <2>1. /\ s(4 + 1) = s(4) /\ s(5 + 1) = s(5) /\ s(6 + 1) = s(6)
          /\ s(7 + 1) = s(7) /\ s(8 + 1) = s(8)
      BY <1>6
    <2>2. 4 + 1 = 5 /\ 5 + 1 = 6 /\ 6 + 1 = 7 /\ 7 + 1 = 8 /\ 8 + 1 = 9  OBVIOUS
    <2> QED  BY <2>1, <2>2
  <1>8. 4 - 1 = 3 /\ 10 - 1 = 9  OBVIOUS
  <1>9. /\ Before(json, OutcomeReads, 4) = s(3)
        /\ Before(json, OutcomeReads, 10) = s(9)
    BY <1>3, <1>8 DEF Before, s
  <1> QED  BY <1>4, <1>5, <1>7, <1>9

(* What a payload answers: a serialization_state it does not carry repeats   *)
(* the serialization, and a serialization it does not carry the epoch text.  *)
LEMMA Answers ==
    ASSUME NEW json, IsWhole(json)
    PROVE  {Serialization(ParseDurableOutcome(json))} \ {""} = Answer(json)
  <1> DEFINE o == ParseDurableOutcome(json)
             epoch == Got(json, OutcomeReads, 4).out
             found == Got(json, OutcomeReads, 10).out
             last == Got(json, OutcomeReads, 11).out
             plain == Read(json, OutcomeReads)["serialization"]
             state == Read(json, OutcomeReads)["serialization_state"]
  <1>0. IsBody(json)  BY DEF IsWhole
  <1>1. /\ 4 \in 1..Len(OutcomeReads) /\ 10 \in 1..Len(OutcomeReads)
        /\ 11 \in 1..Len(OutcomeReads) /\ 11 \in 2..Len(OutcomeReads) /\ 11 - 1 = 10
        /\ OutcomeReads[4] = Str("last_commit_epoch_text")
        /\ OutcomeReads[10] = Str("serialization")
        /\ OutcomeReads[11] = Str("serialization_state")
    BY OutcomeEntries
  <1>2. Before(json, OutcomeReads, 11) = found
    <2>1. ScratchOf(OutcomeReads[11 - 1]) = ScratchOf(OutcomeReads[11])
      BY <1>1 DEF ScratchOf, Str
    <2>2. Before(json, OutcomeReads, 11) = Got(json, OutcomeReads, 11 - 1).out
      BY <1>1, <2>1, Adjacent, OutcomeTable
    <2> QED  BY <1>1, <2>2
  <1>3. o["serialization"] = plain /\ o["serialization_state"] = state
    <2>1. OutcomeReads[10].key = "serialization" /\ OutcomeReads[11].key = "serialization_state"
      BY <1>1 DEF Str
    <2>2. {"serialization", "serialization_state"} \subseteq
             KeysOf(OutcomeReads) \ {"last_commit_hlc"}
      BY <1>1, <2>1 DEF KeysOf
    <2> QED  BY <1>0, <2>2, OutcomeShape
  <1>4. TextIn(json, "last_commit_epoch_text") = {epoch} \ {""}
    <2>1. TextRead(json, Str("last_commit_epoch_text"),
                   Read(json, OutcomeReads)["last_commit_epoch_text"], "", epoch)
      BY <1>1, TextField, OutcomeTable, EpochTextStays
    <2> QED  BY <2>1 DEF TextRead, Str
  <1>5. TextRead(json, Str("serialization"), plain, epoch, found)
    BY <1>1, TextField, OutcomeTable, EpochTextStays
  <1>6. TextRead(json, Str("serialization_state"), state, found, last)
    BY <1>1, <1>2, TextField, OutcomeTable
  <1> HIDE DEF o, epoch, found, last, plain, state
  <1>7. Plain({}) = "" /\ \A v : Plain({v}) = v  BY DEF Plain
  <1>8. Serialization(o) = IF Plain(state) # "" THEN Plain(state) ELSE Plain(plain)
    BY <1>3 DEF Serialization
  <1>9. Str("serialization").key = "serialization"
        /\ Str("serialization_state").key = "serialization_state"
    BY DEF Str
  <1> DEFINE S == MembersFor(json, Str("serialization"))
             T == MembersFor(json, Str("serialization_state"))
  <1>10. CASE ~ScanEnd(json)
    <2>1. S = {} /\ T = {} /\ MembersFor(json, Str("last_commit_epoch_text")) = {}
      BY <1>10 DEF IsWhole
    <2>2. \A key : MembersFor(json, Str(key)) = {} => TextIn(json, key) = {}
      BY DEF TextIn, FirstFor
    <2>3. Answer(json) = {}  BY <2>1, <2>2 DEF Answer, Said
    <2>4. Serialization(o) = ""  BY <1>5, <1>6, <1>7, <1>8, <1>10 DEF TextRead
    <2> QED  BY <2>3, <2>4 DEF o
  <1>11. CASE ScanEnd(json)
    <2>1. /\ Plain(plain) = found /\ Plain(state) = last
          /\ \/ TextIn(json, "serialization") = {found} \ {""} /\ S # {}
             \/ TextIn(json, "serialization") = {} /\ S = {} /\ found = epoch
          /\ \/ TextIn(json, "serialization_state") = {last} \ {""} /\ T # {}
             \/ TextIn(json, "serialization_state") = {} /\ T = {} /\ last = found
      BY <1>5, <1>6, <1>7, <1>9, <1>11 DEF TextRead
    <2> HIDE DEF S, T
    <2>2. Serialization(o) = IF last # "" THEN last ELSE found  BY <1>8, <2>1
    <2>3. Answer(json) = IF Said(json) = {} /\ S = {} THEN {epoch} \ {""} ELSE Said(json)
      BY <1>4 DEF Answer, S
    <2>4. CASE TextIn(json, "serialization_state") # {}
      <3>1. last # "" /\ Said(json) = {last}  BY <2>1, <2>4 DEF Said
      <3> QED  BY <2>2, <2>3, <3>1 DEF o
    <2>5. CASE TextIn(json, "serialization_state") = {}
      <3>1. Said(json) = TextIn(json, "serialization")  BY <2>5 DEF Said
      <3>2. Serialization(o) = found  BY <2>1, <2>2, <2>5
      <3>3. CASE S # {}  BY <2>1, <2>3, <3>1, <3>2, <3>3 DEF o
      <3>4. CASE S = {}  BY <2>1, <2>3, <3>1, <3>2, <3>4 DEF o
      <3> QED  BY <3>3, <3>4
    <2> QED  BY <2>4, <2>5
  <1> QED  BY <1>10, <1>11

(* SerializationPrecedence, for every reply (serialization_state()).         *)
THEOREM SerializationIsInnermost == Spec => []SerializationPrecedence
  <1>1. IInv => SerializationPrecedence
    <2> SUFFICES ASSUME IInv PROVE SerializationPrecedence  OBVIOUS
    <2>1. IsBody(body) /\ status = ParseQueryStatus(body)  BY DEF IInv
    <2>2. PICK out \in DOMAIN Nested :
             /\ status["outcome"] = {ParseDurableOutcome(Nested[out])}
             /\ \/ ObjectIn(body, "outcome") = {Nested[out]}
                \/ ObjectIn(body, "outcome") = {} /\ Nested[out] = NoBody
             /\ \/ \E d \in DOMAIN Nested :
                      /\ ObjectIn(body, "durable") = {Nested[d]}
                      /\ status["durable"] = {ParseDurableOutcome(Nested[d])}
                \/ /\ ObjectIn(body, "durable") = {}
                   /\ status["durable"] \in {{}, {ParseDurableOutcome(Nested[out])}}
      BY <2>1, Nesting
    <2> DEFINE own == Serialization(ParseDurableOutcome(Nested[out]))
               nested == {Serialization(d) : d \in status["durable"]} \ {""}
    <2>3. \A raw \in DOMAIN Nested :
             {Serialization(ParseDurableOutcome(Nested[raw]))} \ {""} = Answer(Nested[raw])
      BY NestedWhole, Answers
    <2>4. AnswerUnder("outcome") = {own} \ {""}
      <3>1. CASE ObjectIn(body, "outcome") = {Nested[out]}
        <4>1. AnswerUnder("outcome") = Answer(Nested[out])  BY <3>1 DEF AnswerUnder
        <4> QED  BY <2>3, <4>1
      <3>2. CASE ObjectIn(body, "outcome") = {} /\ Nested[out] = NoBody
        <4>1. AnswerUnder("outcome") = {}  BY <3>2 DEF AnswerUnder
        <4>2. Answer(NoBody) = {}
          <5>1. \A key : TextIn(NoBody, key) = {}  BY NothingInNoBody DEF TextIn
          <5> QED  BY <5>1 DEF Answer, Said
        <4> QED  BY <2>3, <3>2, <4>1, <4>2
      <3> QED  BY <2>2, <3>1, <3>2
    <2>5. Serialization(Outcome(status)) = own
      <3>1. Outcome(status) = ParseDurableOutcome(Nested[out])  BY <2>2 DEF Outcome
      <3> QED  BY <3>1
    <2>6. \/ nested = AnswerUnder("durable")
          \/ AnswerUnder("durable") = {} /\ nested \in {{}, {own} \ {""}}
      <3>1. ASSUME NEW d \in DOMAIN Nested,
                   ObjectIn(body, "durable") = {Nested[d]},
                   status["durable"] = {ParseDurableOutcome(Nested[d])}
            PROVE  nested = AnswerUnder("durable")
        <4>1. AnswerUnder("durable") = Answer(Nested[d])  BY <3>1 DEF AnswerUnder
        <4>2. nested = {Serialization(ParseDurableOutcome(Nested[d]))} \ {""}  BY <3>1
        <4> QED  BY <2>3, <4>1, <4>2
      <3>2. ASSUME ObjectIn(body, "durable") = {},
                   status["durable"] \in {{}, {ParseDurableOutcome(Nested[out])}}
            PROVE  AnswerUnder("durable") = {} /\ nested \in {{}, {own} \ {""}}
        <4>1. AnswerUnder("durable") = {}  BY <3>2 DEF AnswerUnder
        <4>2. CASE status["durable"] = {}  BY <4>1, <4>2
        <4>3. CASE status["durable"] = {ParseDurableOutcome(Nested[out])}
          <5>1. nested = {own} \ {""}  BY <4>3
          <5> QED  BY <4>1, <5>1
        <4> QED  BY <3>2, <4>2, <4>3
      <3> HIDE DEF own, nested
      <3> QED  BY <2>2, <3>1, <3>2
    <2>7. nested = {} \/ \E x : nested = {x} /\ x # ""
      <3>1. \E y : status["durable"] = {y} \/ status["durable"] = {}  BY <2>2
      <3>2. PICK y : status["durable"] = {y} \/ status["durable"] = {}  BY <3>1
      <3>3. CASE status["durable"] = {y}
        <4>1. nested = {Serialization(y)} \ {""}  BY <3>3
        <4> HIDE DEF nested
        <4> QED  BY <4>1
      <3>4. CASE status["durable"] = {}  BY <3>4
      <3> QED  BY <3>2, <3>3, <3>4
    <2>8. SerializationState(status) = IF nested # {} THEN CHOOSE s \in nested : TRUE ELSE own
      BY <2>5 DEF SerializationState
    <2> HIDE DEF own, nested
    <2>9. {SerializationState(status)} \ {""} = IF nested # {} THEN nested ELSE {own} \ {""}
      <3>1. CASE nested = {}  BY <2>8, <3>1
      <3>2. CASE nested # {}
        <4>1. PICK x : nested = {x} /\ x # ""  BY <2>7, <3>2
        <4>2. (CHOOSE s \in nested : TRUE) = x  BY <4>1
        <4> QED  BY <2>8, <3>2, <4>1, <4>2
      <3> QED  BY <3>1, <3>2
    <2> QED  BY <2>4, <2>6, <2>9 DEF SerializationPrecedence
  <1> QED  BY <1>1, Inductive, PTL

-----------------------------------------------------------------------------
(* Types *)

LEMMA FieldTyped ==
    ASSUME NEW json, IsBody(json), NEW reads, IsTable(reads), NEW i \in 1..Len(reads)
    PROVE  \A v \in Read(json, reads)[reads[i].key] : Fits(reads[i], v)
  <1>1. Read(json, reads)[reads[i].key] \subseteq {Got(json, reads, i).out}
    BY FieldsRead DEF Found
  <1>2. Fits(reads[i], Got(json, reads, i).out)  BY ReadingFits
  <1> QED  BY <1>1, <1>2

LEMMA HlcTyped ==
    ASSUME NEW json, IsBody(json)
    PROVE  HlcOK(ParseCommitHlc(json)) /\ HlcOK(HlcIn(json))
  <1>1. ASSUME NEW b, IsBody(b) PROVE HlcOK(ParseCommitHlc(b))
    <2> DEFINE phys == GetUint64(b, "physical_micros", 0)
               logical == GetInt(b, "logical", 0).out
               tie == GetInt(b, "node_tiebreaker", 0).out
    <2>1. phys.out \in Nat
      <3>1. IsRead(UInt64("physical_micros")) /\ Fits(UInt64("physical_micros"), 0)
        BY DEF IsRead, Fits, UInt64
      <3>2. Fits(UInt64("physical_micros"), Lookup(b, UInt64("physical_micros"), 0).out)
        BY <1>1, <3>1, LookupFits
      <3>3. Lookup(b, UInt64("physical_micros"), 0) = phys  BY DEF Lookup, UInt64
      <3> QED  BY <3>2, <3>3 DEF Fits, UInt64
    <2>2. ASSUME NEW key PROVE GetInt(b, key, 0).out \in Int
      <3>1. IsRead(Int64(key)) /\ Fits(Int64(key), 0)  BY DEF IsRead, Fits, Int64
      <3>2. Fits(Int64(key), Lookup(b, Int64(key), 0).out)  BY <1>1, <3>1, LookupFits
      <3>3. Lookup(b, Int64(key), 0) = GetInt(b, key, 0)  BY DEF Lookup, Int64
      <3> QED  BY <3>2, <3>3 DEF Fits, Int64
    <2>3. logical \in Int /\ tie \in Int  BY <2>2
    <2> HIDE DEF phys, logical, tie
    <2>4. logical % Word \in 0..(Word - 1) /\ tie % Word \in 0..(Word - 1)
      BY <2>3, WordAssumption
    <2>5. ParseCommitHlc(b) \subseteq {[physical_micros |-> phys.out,
                                        logical |-> logical % Word,
                                        node_tiebreaker |-> tie % Word]}
      BY DEF ParseCommitHlc, phys, logical, tie
    <2> QED  BY <2>1, <2>4, <2>5 DEF HlcOK
  <1>2. ObjectIn(json, "last_commit_hlc") \subseteq {Nested[t] : t \in DOMAIN Nested}
    <2>1. \A m \in FirstFor(json, Obj("last_commit_hlc", "last_commit_hlc")) :
             m \in 1..Len(json.members)
      BY DEF FirstFor, MembersFor
    <2>2. \A m \in 1..Len(json.members) :
             At(json, m).kind = "obj" => At(json, m).val \in DOMAIN Nested
      BY BodyMembers
    <2> QED  BY <2>1, <2>2 DEF ObjectIn
  <1>3. \A b \in ObjectIn(json, "last_commit_hlc") : HlcOK(ParseCommitHlc(b))
    BY <1>1, <1>2, BodiesAssumption
  <1>4. HlcOK(HlcIn(json))  BY <1>3 DEF HlcIn, HlcOK
  <1> QED  BY <1>1, <1>4

(* What TypeOK says of the status and of every outcome in it.                *)
FieldsTyped(o) ==
    /\ o["last_commit_epoch"] \subseteq Nat
    /\ o["committed"] \subseteq BOOLEAN
    /\ \A i \in 1..Len(StatementCounts) : o[StatementCounts[i].key] \subseteq Int
    /\ HlcOK(o["last_commit_hlc"])

CountKeys == {"first_commit_statement_index", "last_commit_statement_index",
              "completed_statements", "statement_index"}

LEMMA CountEntries ==
    \A i \in 1..Len(StatementCounts) : StatementCounts[i].key \in CountKeys
  BY DEF StatementCounts, Int64, CountKeys

LEMMA StatusTyped ==
    ASSUME NEW json, IsBody(json)
    PROVE  FieldsTyped(ParseQueryStatus(json))
  <1> DEFINE st == ParseQueryStatus(json)
             f == Read(json, StatusReads)
  <1>1. \A i \in 1..19 : \A v \in f[StatusReads[i].key] : Fits(StatusReads[i], v)
    BY FieldTyped, StatusTable, StatusEntries
  <1>2. \A i \in 1..19 : StatusReads[i].key \notin Composed =>
           st[StatusReads[i].key] = f[StatusReads[i].key]
    BY StatusKeys, StatusShape
  <1> HIDE DEF st, f
  <1>3. \A i \in {6, 8, 11, 12, 13, 14} : StatusReads[i].key \notin Composed
    BY StatusEntries DEF Composed, Bool, Int64, UInt64
  <1>4. \A i \in {6, 8, 11, 12, 13, 14} :
           \A v \in st[StatusReads[i].key] : Fits(StatusReads[i], v)
    BY <1>1, <1>2, <1>3
  <1>5. st["committed"] \subseteq BOOLEAN
    <2>1. StatusReads[6].key = "committed" /\ StatusReads[6].get = "bool"
      BY StatusEntries DEF Bool
    <2> QED  BY <1>4, <2>1 DEF Fits
  <1>6. st["last_commit_epoch"] \subseteq Nat
    <2>1. StatusReads[8].key = "last_commit_epoch" /\ StatusReads[8].get = "uint64"
      BY StatusEntries DEF UInt64
    <2> QED  BY <1>4, <2>1 DEF Fits
  <1>7. \A k \in CountKeys : st[k] \subseteq Int
    <2>1. \A i \in {11, 12, 13, 14} : StatusReads[i].get = "int"
      BY StatusEntries DEF Int64
    <2>2. \A i \in {11, 12, 13, 14} : st[StatusReads[i].key] \subseteq Int
      BY <1>4, <2>1 DEF Fits
    <2>3. /\ StatusReads[11].key = "first_commit_statement_index"
          /\ StatusReads[12].key = "last_commit_statement_index"
          /\ StatusReads[13].key = "completed_statements"
          /\ StatusReads[14].key = "statement_index"
      BY StatusEntries DEF Int64
    <2> QED  BY <2>2, <2>3 DEF CountKeys
  <1>8. HlcOK(st["last_commit_hlc"])  BY HlcTyped, StatusHlc DEF st
  <1> QED  BY <1>5, <1>6, <1>7, <1>8, CountEntries DEF FieldsTyped, st

LEMMA OutcomeTyped ==
    ASSUME NEW json, IsBody(json)
    PROVE  FieldsTyped(ParseDurableOutcome(json))
  <1> DEFINE o == ParseDurableOutcome(json)
             f == Read(json, OutcomeReads)
  <1>1. \A i \in 1..12 : \A v \in f[OutcomeReads[i].key] : Fits(OutcomeReads[i], v)
    BY FieldTyped, OutcomeTable, OutcomeEntries
  <1>2. \A i \in 1..12 : OutcomeReads[i].key # "last_commit_hlc" =>
           o[OutcomeReads[i].key] = f[OutcomeReads[i].key]
    <2>1. \A i \in 1..12 : OutcomeReads[i].key \in KeysOf(OutcomeReads)
      BY OutcomeEntries DEF KeysOf
    <2> QED  BY <2>1, OutcomeShape
  <1> HIDE DEF o, f
  <1>3. \A i \in {1, 3, 6, 7, 8, 9} : OutcomeReads[i].key # "last_commit_hlc"
    BY OutcomeEntries DEF Bool, Int64, UInt64
  <1>4. \A i \in {1, 3, 6, 7, 8, 9} :
           \A v \in o[OutcomeReads[i].key] : Fits(OutcomeReads[i], v)
    BY <1>1, <1>2, <1>3
  <1>5. o["committed"] \subseteq BOOLEAN
    <2>1. OutcomeReads[1].key = "committed" /\ OutcomeReads[1].get = "bool"
      BY OutcomeEntries DEF Bool
    <2> QED  BY <1>4, <2>1 DEF Fits
  <1>6. o["last_commit_epoch"] \subseteq Nat
    <2>1. OutcomeReads[3].key = "last_commit_epoch" /\ OutcomeReads[3].get = "uint64"
      BY OutcomeEntries DEF UInt64
    <2> QED  BY <1>4, <2>1 DEF Fits
  <1>7. \A k \in CountKeys : o[k] \subseteq Int
    <2>1. \A i \in {6, 7, 8, 9} : OutcomeReads[i].get = "int"
      BY OutcomeEntries DEF Int64
    <2>2. \A i \in {6, 7, 8, 9} : o[OutcomeReads[i].key] \subseteq Int
      BY <1>4, <2>1 DEF Fits
    <2>3. /\ OutcomeReads[6].key = "first_commit_statement_index"
          /\ OutcomeReads[7].key = "last_commit_statement_index"
          /\ OutcomeReads[8].key = "completed_statements"
          /\ OutcomeReads[9].key = "statement_index"
      BY OutcomeEntries DEF Int64
    <2> QED  BY <2>2, <2>3 DEF CountKeys
  <1>8. HlcOK(o["last_commit_hlc"])  BY HlcTyped, OutcomeShape DEF o
  <1> QED  BY <1>5, <1>6, <1>7, <1>8, CountEntries DEF FieldsTyped, o

(* TypeOK, for every reply: a number never comes from a member of another    *)
(* kind, at any depth.                                                       *)
THEOREM TypeCorrect == Spec => []TypeOK
  <1>1. IInv => TypeOK
    <2> SUFFICES ASSUME IInv PROVE TypeOK  OBVIOUS
    <2>1. IsBody(body) /\ status = ParseQueryStatus(body)  BY DEF IInv
    <2>2. FieldsTyped(status)  BY <2>1, StatusTyped
    <2>3. \A raw \in DOMAIN Nested : FieldsTyped(ParseDurableOutcome(Nested[raw]))
      BY BodiesAssumption, OutcomeTyped
    <2>4. \A o \in status["outcome"] \cup status["durable"] :
             \E raw \in DOMAIN Nested : o = ParseDurableOutcome(Nested[raw])
      BY <2>1, Nesting
    <2>5. DOMAIN status = KeysOf(StatusReads)  BY <2>1, StatusShape
    <2>6. \A o \in {status} \cup status["outcome"] \cup status["durable"] : FieldsTyped(o)
      <3> HIDE DEF IInv
      <3> QED  BY <2>2, <2>3, <2>4
    <2> QED  BY <2>5, <2>6 DEF TypeOK, FieldsTyped, IInv
  <1> QED  BY <1>1, Inductive, PTL
=============================================================================
