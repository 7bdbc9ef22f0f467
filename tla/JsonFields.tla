----------------------------- MODULE JsonFields -----------------------------
(* The field lookups of the bundled JSON parser: get_string, get_number,     *)
(* get_int, get_uint64, get_bool, get_object_raw and get_array_raw.  Each    *)
(* scans the top-level object of a body from its first member and returns a  *)
(* flag; "out" is a reference parameter, so what it holds when the flag is   *)
(* TRUE matters, and an operator here returns both: [ret, out].              *)
(*                                                                           *)
(* A body is [open, members, closed].  open: its first character is '{'.     *)
(* members: the names of its members, in the order of the text.  closed: a   *)
(* '}' follows the last member; a body that was cut off, or whose next       *)
(* character is something else, has closed = FALSE.  Member maps a name to   *)
(* what the text says there, [key, kind, val].  The kinds are what the       *)
(* lookups tell apart by the first character of the value, and for the       *)
(* values the text ends in the middle of, the kinds that end in "Cut".  A    *)
(* "bool" starts with 't' or 'f', and val says whether it is the word true;  *)
(* of a "boolCut" the text has only the first letters ("tru"), and val is    *)
(* what the daemon was writing.  The val of a number is its integer part;    *)
(* one that is cut is a shorter number like any other, in a body that is     *)
(* not closed.                                                               *)
EXTENDS Integers, Sequences

CONSTANTS
    Member,
    Exact,      \* every integer up to here is a double (2^53)
    Rounded(_)  \* the double an integer beyond it is rounded to

ASSUME ExactAssumption == Exact \in Nat

Kinds == {"str", "strCut", "num", "frac", "neg", "bool", "boolCut", "null",
          "obj", "objCut", "arr", "arrCut"}
CutKinds == {"strCut", "boolCut", "objCut", "arrCut"}

(* Bodies a text can be: nothing follows a value that the text breaks off.   *)
WellFormedBody(body) ==
    /\ body.open \/ (body.members = <<>> /\ ~body.closed)
    /\ \A i \in 1..Len(body.members) :
          Member[body.members[i]].kind \in CutKinds =>
              i = Len(body.members) /\ ~body.closed

(* What is not an object: get_string and its siblings give up at once.       *)
NoBody == [open |-> FALSE, members |-> <<>>, closed |-> FALSE]

-----------------------------------------------------------------------------
(* The scan                                                                  *)

(* The value of the i-th member.                                             *)
At(body, i) == Member[body.members[i]]

(* The first of some positions, 0 when there is none.                        *)
First(I) == IF I = {} THEN 0 ELSE CHOOSE i \in I : \A j \in I : i <= j

(* A scan that stops at the key whatever the type of its value.              *)
MHit(body, key, kinds) == First({i \in 1..Len(body.members) : At(body, i).key = key})

(* The first member with this key whose value starts as one of "kinds" does. *)
(* A member with the key and another type is skipped like any other.         *)
Hit(body, key, kinds) ==
    First({i \in 1..Len(body.members) : At(body, i).key = key /\ At(body, i).kind \in kinds})

(* A scan that takes the end of the input for the end of the object.         *)
MScanEnd(body) == body.open /\ body.members # <<>>

(* The flag when the scan ran through the whole object without a match:      *)
(* "return ch == '}'", TRUE for a whole object with at least one member.     *)
ScanEnd(body) == body.open /\ body.members # <<>> /\ body.closed

GetString(body, key, out) ==
    LET i == Hit(body, key, {"str", "strCut"}) IN
    IF i = 0 THEN [ret |-> ScanEnd(body), out |-> out]
             ELSE [ret |-> At(body, i).kind = "str", out |-> At(body, i).val]

(* std::strtod of the digits of an integer.                                  *)
AsDouble(n) == IF n \in -Exact..Exact THEN n ELSE Rounded(n)

GetNumber(body, key, out) ==
    LET i == Hit(body, key, {"num", "frac", "neg"}) IN
    IF i = 0 THEN [ret |-> ScanEnd(body), out |-> out]
             ELSE [ret |-> TRUE, out |-> AsDouble(At(body, i).val)]

(* A get_int that hands its own "out" to get_number instead of a fresh 0.    *)
MGetInt(body, key, out) == GetNumber(body, key, out)

(* The double get_number returns is an integer, but perhaps not the one in   *)
(* the text.                                                                 *)
GetInt(body, key, out) ==
    LET d == GetNumber(body, key, 0) IN
    IF d.ret THEN d ELSE [ret |-> FALSE, out |-> out]

(* A get_uint64 that lets a minus sign start the number, as get_number does. *)
MGetUint64(body, key, out) ==
    LET i == Hit(body, key, {"num", "frac", "neg"}) IN
    IF i = 0 THEN [ret |-> ScanEnd(body), out |-> out]
             ELSE [ret |-> TRUE, out |-> At(body, i).val]

(* A fraction or an exponent stops strtoull before the end of the token.     *)
GetUint64(body, key, out) ==
    LET i == Hit(body, key, {"num", "frac"}) IN
    IF i = 0 THEN [ret |-> ScanEnd(body), out |-> out]
    ELSE IF At(body, i).kind = "num" THEN [ret |-> TRUE, out |-> At(body, i).val]
    ELSE [ret |-> FALSE, out |-> out]

(* Letters up to the first character that is none, or to the end of the      *)
(* text; whatever is not the word true is FALSE, and nothing is an error.    *)
GetBool(body, key, out) ==
    LET i == Hit(body, key, {"bool", "boolCut"}) IN
    IF i = 0 THEN [ret |-> ScanEnd(body), out |-> out]
    ELSE [ret |-> TRUE, out |-> At(body, i).kind = "bool" /\ At(body, i).val]

(* get_object_raw and get_array_raw: "out" is written only after the whole   *)
(* value was walked.                                                         *)
GetRaw(body, key, whole, cut, out) ==
    LET i == Hit(body, key, {whole, cut}) IN
    IF i = 0 THEN [ret |-> ScanEnd(body), out |-> out]
    ELSE IF At(body, i).kind = whole THEN [ret |-> TRUE, out |-> At(body, i).val]
    ELSE [ret |-> FALSE, out |-> out]

GetObjectRaw(body, key, out) == GetRaw(body, key, "obj", "objCut", out)
GetArrayRaw(body, key, out) == GetRaw(body, key, "arr", "arrCut", out)
=============================================================================
