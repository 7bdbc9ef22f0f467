----------------------------- MODULE TextCodecs -----------------------------
(* The conversions of the bundled JSON parser and serializer: json_escape,   *)
(* read_string_raw turn by turn of its loop, and what the readers of numbers *)
(* make of an integer.                                                       *)
(*                                                                           *)
(* Text is a sequence of bytes, each a number; the cursor counts from 0 as   *)
(* in the code.  A string literal arrives whole with a comma behind it, or   *)
(* cut off anywhere.  It is made of pieces, each a character or an escape    *)
(* with the bytes it means: the byte that json_escape was given, or the code *)
(* point that the daemon wrote in UTF-16.  The width of an integer and the   *)
(* integers that are doubles are constants.                                  *)
EXTENDS Integers, Sequences, SequencesExt

CONSTANTS
    Literals,   \* what stands between the quotes: sequences of [spelt, means]
    Numerals,   \* integers that stand in a text
    HalfWord,   \* 2^63: a std::int64_t lies in -HalfWord..HalfWord - 1
    Mantissa,   \* 2^53: integers up to here are doubles
    Doubles     \* the integers that are doubles

Byte == 0..255
Quote == 34
Backslash == 92
LetterU == 117
Comma == 44

ASSUME WidthAssumption == HalfWord \in Nat \ {0} /\ Mantissa \in Nat \ {0}
ASSUME NumeralAssumption == Numerals \subseteq Int
ASSUME DoubleAssumption == Doubles \subseteq Int /\ -Mantissa..Mantissa \subseteq Doubles

VARIABLES
    input,      \* [body], a literal, or [reader, num]
    text,       \* s_: what arrived of a literal
    cursor,     \* i_
    out,        \* the string read so far, or the number
    ok,         \* ok_
    stage       \* "reading" or "done"

vars == <<input, text, cursor, out, ok, stage>>

-----------------------------------------------------------------------------
(* json_escape *)

(* Escapes by one letter: \b \t \n \f \r, the quote and the backslash.       *)
Letters == [b |-> <<98, 8>>, t |-> <<116, 9>>, n |-> <<110, 10>>, f |-> <<102, 12>>,
            r |-> <<114, 13>>, q |-> <<Quote, Quote>>, s |-> <<Backslash, Backslash>>]

HexDigit(d) == IF d < 10 THEN 48 + d ELSE 87 + d

(* \u and the four hexadecimal digits of a code unit.                        *)
UnitEscape(u) ==
    <<Backslash, LetterU, HexDigit(u \div 4096), HexDigit((u \div 256) % 16),
      HexDigit((u \div 16) % 16), HexDigit(u % 16)>>

EscapeOf(c) ==
    IF \E l \in DOMAIN Letters : Letters[l][2] = c
    THEN <<Backslash, Letters[CHOOSE l \in DOMAIN Letters : Letters[l][2] = c][1]>>
    ELSE IF c < 32 THEN UnitEscape(c) ELSE <<c>>

(* The pieces that json_escape appends, and the bytes they stand for.        *)
JsonEscape(s) == [k \in 1..Len(s) |-> [spelt |-> EscapeOf(s[k]), means |-> <<s[k]>>]]

Spelt(pieces) == FlattenSeq([k \in 1..Len(pieces) |-> pieces[k].spelt])
Meant(pieces) == FlattenSeq([k \in 1..Len(pieces) |-> pieces[k].means])

-----------------------------------------------------------------------------
(* read_string_raw *)

Size == Len(text)
Char(k) == IF k < Size THEN text[k + 1] ELSE 0

Unescaped(c) ==
    IF \E l \in DOMAIN Letters : Letters[l][1] = c
    THEN Letters[CHOOSE l \in DOMAIN Letters : Letters[l][1] = c][2] ELSE c

IsHex(c) == c \in 48..57 \cup 65..70 \cup 97..102

(* What a digit adds to the number; anything else adds nothing.              *)
HexValue(c) ==
    IF c \in 48..57 THEN c - 48 ELSE IF c \in 97..102 THEN c - 87
    ELSE IF c \in 65..70 THEN c - 55 ELSE 0

Unit(k) ==
    4096 * HexValue(Char(k)) + 256 * HexValue(Char(k + 1)) + 16 * HexValue(Char(k + 2))
    + HexValue(Char(k + 3))

High == 55296..56319        \* 0xD800-0xDBFF
Low == 56320..57343         \* 0xDC00-0xDFFF
Replacement == 65533        \* 0xFFFD

Combined(high, low) == 65536 + (high - 55296) * 1024 + (low - 56320)

(* The low half that follows at k, in an escape of its own.                  *)
LowFollows(k) ==
    /\ k + 6 <= Size /\ Char(k) = Backslash /\ Char(k + 1) = LetterU
    /\ \A d \in 2..5 : IsHex(Char(k + d))
    /\ Unit(k + 2) \in Low

(* A reader that takes each escape for itself.                               *)
MCodePoint(k) == [cp |-> Unit(k), next |-> k + 4]

(* The code point whose digits start at k, and where the reader goes on.     *)
CodePoint(k) ==
    LET u == Unit(k) IN
    IF u \in High /\ LowFollows(k + 4)
    THEN [cp |-> Combined(u, Unit(k + 6)), next |-> k + 10]
    ELSE [cp |-> IF u \in High \cup Low THEN Replacement ELSE u, next |-> k + 4]

Utf8(cp) ==
    LET tail(unit) == 128 + ((cp \div unit) % 64) IN
    IF cp < 128 THEN <<cp>>
    ELSE IF cp < 2048 THEN <<192 + (cp \div 64), tail(1)>>
    ELSE IF cp < 65536 THEN <<224 + (cp \div 4096), tail(64), tail(1)>>
    ELSE <<240 + (cp \div 262144), tail(4096), tail(64), tail(1)>>

Reading == stage = "reading" /\ "body" \in DOMAIN input

EndOfText ==
    /\ Reading /\ cursor >= Size
    /\ ok' = FALSE /\ stage' = "done"
    /\ UNCHANGED <<input, text, cursor, out>>

CloseQuote ==
    /\ Reading /\ cursor < Size /\ Char(cursor) = Quote
    /\ cursor' = cursor + 1 /\ stage' = "done"
    /\ UNCHANGED <<input, text, out, ok>>

Escaped == Reading /\ cursor + 1 < Size /\ Char(cursor) = Backslash

(* A backslash that ends the text is a character like any other.             *)
Plain ==
    /\ Reading /\ cursor < Size /\ Char(cursor) # Quote /\ ~Escaped
    /\ out' = Append(out, Char(cursor)) /\ cursor' = cursor + 1
    /\ UNCHANGED <<input, text, ok, stage>>

LetterEscape ==
    /\ Escaped /\ Char(cursor + 1) # LetterU
    /\ out' = Append(out, Unescaped(Char(cursor + 1))) /\ cursor' = cursor + 2
    /\ UNCHANGED <<input, text, ok, stage>>

(* A test for three digits.                                                  *)
MUnitFits(k) == k + 3 <= Size

UnitFits(k) == k + 4 <= Size

(* \u without room for four digits yields nothing, and they are read plain.  *)
ReadUnit ==
    /\ Escaped /\ Char(cursor + 1) = LetterU
    /\ IF UnitFits(cursor + 2)
       THEN LET p == CodePoint(cursor + 2) IN out' = out \o Utf8(p.cp) /\ cursor' = p.next
       ELSE cursor' = cursor + 2 /\ UNCHANGED out
    /\ UNCHANGED <<input, text, ok, stage>>

-----------------------------------------------------------------------------
(* Integers: get_uint64 by strtoull, the cells of a row by strtoll, both of  *)
(* which stop at the ends of their type, and get_int through a double.       *)

Words == -HalfWord..(HalfWord - 1)
Unsigned == 0..(2 * HalfWord - 1)

Distance(m, n) == IF m < n THEN n - m ELSE m - n

(* What strtod makes of an integer: a double that no other is nearer to.     *)
ToDouble(n) == {d \in Doubles : \A e \in Doubles : Distance(d, n) <= Distance(e, n)}

Clamped(n, low, high) == IF n < low THEN low ELSE IF n > high THEN high ELSE n

(* A get_int that casts to a narrower type, and wraps.                       *)
MConverted(reader, n) ==
    {IF reader = "get_int" THEN ((n + Mantissa) % (2 * Mantissa)) - Mantissa ELSE n}

(* What a reader may return.  A double out of range is cast to anything.     *)
Converted(reader, n) ==
    CASE reader = "get_uint64" -> {Clamped(n, 0, 2 * HalfWord - 1)}
      [] reader = "read_value" -> {Clamped(n, -HalfWord, HalfWord - 1)}
      [] reader = "get_int" ->
            UNION {IF d \in Words THEN {d} ELSE Words : d \in ToDouble(n)}

(* get_uint64 does not stop at a minus sign.                                 *)
Readers(n) == {"get_int", "read_value"} \cup IF n >= 0 THEN {"get_uint64"} ELSE {}

ReadInteger ==
    /\ stage = "reading" /\ "num" \in DOMAIN input
    /\ out' \in Converted(input.reader, input.num)
    /\ stage' = "done"
    /\ UNCHANGED <<input, text, cursor, ok>>

-----------------------------------------------------------------------------
(* Literals *)

(* \u and four digits, from the k-th byte of s, and the code unit they are.  *)
IsUnitEscape(s, k) ==
    s[k] = Backslash /\ s[k + 1] = LetterU /\ \A d \in 2..5 : IsHex(s[k + d])

UnitOf(s, k) ==
    4096 * HexValue(s[k + 2]) + 256 * HexValue(s[k + 3]) + 16 * HexValue(s[k + 4])
    + HexValue(s[k + 5])

IsCharacter(p) == \E c \in Byte \ {Quote, Backslash} : p.spelt = <<c>> /\ p.means = <<c>>

Slash == 47

IsLetter(p) ==
    \/ \E l \in DOMAIN Letters :
          p.spelt = <<Backslash, Letters[l][1]>> /\ p.means = <<Letters[l][2]>>
    \/ p.spelt = <<Backslash, Slash>> /\ p.means = <<Slash>>

IsUnit(p) ==
    /\ Len(p.spelt) = 6 /\ IsUnitEscape(p.spelt, 1)
    /\ LET u == UnitOf(p.spelt, 1) IN
       p.means = Utf8(IF u \in High \cup Low THEN Replacement ELSE u)

IsPair(p) ==
    /\ Len(p.spelt) = 12 /\ IsUnitEscape(p.spelt, 1) /\ IsUnitEscape(p.spelt, 7)
    /\ UnitOf(p.spelt, 1) \in High /\ UnitOf(p.spelt, 7) \in Low
    /\ p.means = Utf8(Combined(UnitOf(p.spelt, 1), UnitOf(p.spelt, 7)))

(* Two lone units are no pair.                                               *)
IsLiteral(pieces) ==
    /\ pieces \in Seq([spelt : Seq(Byte), means : Seq(Byte)])
    /\ \A k \in 1..Len(pieces) :
          \/ IsCharacter(pieces[k]) \/ IsLetter(pieces[k])
          \/ IsUnit(pieces[k]) \/ IsPair(pieces[k])
    /\ \A k \in 1..Len(pieces) - 1 :
          IsUnit(pieces[k]) /\ IsUnit(pieces[k + 1]) =>
              ~(UnitOf(pieces[k].spelt, 1) \in High /\ UnitOf(pieces[k + 1].spelt, 1) \in Low)

ASSUME LiteralAssumption == \A l \in Literals : IsLiteral(l)

Whole(l) == <<Quote>> \o Spelt(l.body) \o <<Quote, Comma>>

(* The reader has skipped the opening quote.                                 *)
Init ==
    /\ stage = "reading" /\ ok = TRUE
    /\ \/ /\ input \in [body : Literals]
          /\ \E n \in 1..Len(Whole(input)) : text = SubSeq(Whole(input), 1, n)
          /\ cursor = 1 /\ out = <<>>
       \/ /\ input \in UNION {{[reader |-> r, num |-> n] : r \in Readers(n)} : n \in Numerals}
          /\ text = <<>> /\ cursor = 0 /\ out = 0

Next ==
    \/ EndOfText \/ CloseQuote \/ Plain \/ LetterEscape \/ ReadUnit \/ ReadInteger

Spec == Init /\ [][Next]_vars

-----------------------------------------------------------------------------
(* Properties *)

(* Types, and the reader never goes beyond the end of its text, wherever an  *)
(* escape breaks off.                                                        *)
TypeOK ==
    /\ text \in Seq(Byte) /\ cursor \in 0..Size
    /\ ok \in BOOLEAN /\ stage \in {"reading", "done"}
    /\ IF "num" \in DOMAIN input THEN out \in Int ELSE out \in Seq(Byte)

(* A literal is accepted exactly when it arrived whole, and yields the bytes *)
(* it stands for, the halves of a pair joined, lone ones replaced, and the   *)
(* cursor behind it: what json_escape wrote comes back, and a literal cut    *)
(* off between any two bytes is never taken for a shorter one.               *)
StringsAsMeant ==
    stage = "done" /\ "body" \in DOMAIN input =>
        LET size == Len(Spelt(input.body)) + 2 IN
        /\ ok <=> Len(text) >= size
        /\ ok => out = Meant(input.body) /\ cursor = size

(* The integers a reader returns as they stand.                              *)
Exact(reader) ==
    CASE reader = "get_uint64" -> Unsigned
      [] reader = "read_value" -> Words
      [] reader = "get_int" -> Words \cap -Mantissa..Mantissa

(* An integer is read as it stands while it fits the type and, by get_int,   *)
(* the mantissa; one beyond that comes out on its own side of all those,     *)
(* neither wrapped nor rounded past them, unless its double fits no int64_t. *)
IntegersAsMeant ==
    stage = "done" /\ "num" \in DOMAIN input =>
        LET n == input.num IN
        input.reader # "get_int" \/ ToDouble(n) \subseteq Words =>
            \A m \in Exact(input.reader) :
                (m <= n => m <= out) /\ (n <= m => out <= m)
=============================================================================
