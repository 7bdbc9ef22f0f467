---------------------------- MODULE MCTextCodecs ----------------------------
(* Literals for TextCodecs: what json_escape makes of short strings, and     *)
(* what a daemon writes, code unit by code unit.                             *)
EXTENDS TextCodecs, FiniteSets

CONSTANTS MaxUnits, MaxBytes

(* a, quote, backslash, slash, newline, a control character, and the bytes   *)
(* of an e with an accent.                                                   *)
SomeBytes == {97, 34, 92, 47, 10, 1, 195, 169}

(* A, an e with an accent, the euro sign, the last unit before the halves,   *)
(* two high halves, two low ones and the last unit.                          *)
Units == {65, 233, 8364, 55295, 55296, 56319, 56320, 57343, 65535}

PairAt(us, k) == k \in 1..(Len(us) - 1) /\ us[k] \in High /\ us[k + 1] \in Low

(* What unit k of a text adds to it: an escape, alone or with the next, or   *)
(* nothing when it ends a pair.                                              *)
PiecesAt(us, k) ==
    IF PairAt(us, k - 1) THEN <<>>
    ELSE IF PairAt(us, k)
    THEN <<[spelt |-> UnitEscape(us[k]) \o UnitEscape(us[k + 1]),
            means |-> Utf8(Combined(us[k], us[k + 1]))]>>
    ELSE <<[spelt |-> UnitEscape(us[k]),
            means |-> Utf8(IF us[k] \in High \cup Low THEN Replacement ELSE us[k])]>>

Written(us) == FlattenSeq([k \in 1..Len(us) |-> PiecesAt(us, k)])

(* One by hand, of two, three and four bytes in UTF-8, its digits in either  *)
(* case: a pair, an e with an accent and the euro sign, between plain bytes. *)
Grin ==
    <<[spelt |-> <<120>>, means |-> <<120>>],
      [spelt |-> <<92, 117, 68, 56, 51, 68, 92, 117, 68, 69, 48, 48>>,
       means |-> <<240, 159, 152, 128>>],
      [spelt |-> <<92, 117, 48, 48, 69, 57>>, means |-> <<195, 169>>],
      [spelt |-> <<92, 117, 50, 48, 97, 99>>, means |-> <<226, 130, 172>>],
      [spelt |-> <<92, 47>>, means |-> <<47>>]>>

MCLiterals ==
    {JsonEscape(s) : s \in BoundedSeq(SomeBytes, MaxBytes)}
    \cup {Written(us) : us \in BoundedSeq(Units, MaxUnits)} \cup {Grin}

MCNumerals == -70..140

(* Three bits of mantissa and one that is implied.                           *)
MCDoubles == {m * 2 ^ k : m \in -8..8, k \in 0..5}
=============================================================================
