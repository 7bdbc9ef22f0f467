---------------------------- MODULE ReplyDecode -----------------------------
(* query() and table_names() on what the daemon answered: the walk of the    *)
(* bundled parser over the "rows" array, its rows and their cells, and over  *)
(* the list of table names.  One action is one turn of one of their loops.   *)
(*                                                                           *)
(* A text is a sequence of tokens: the six structural characters, strings,   *)
(* numbers and words; behind its end stands "nothing".  pos is the parser's  *)
(* cursor; position 0 stands for a parser whose ok() is FALSE.  The daemon,  *)
(* which is external, renders a reply; the text that arrives may break off   *)
(* or miss a token.                                                          *)
EXTENDS Integers, Sequences, SequencesExt

CONSTANTS
    Strings,    \* the tokens that are strings, "rows", "cells", ... among them
    CutString,  \* the token of a string without a closing quote
    Numbers,    \* the tokens that are numbers -> the number
    Words,      \* "true", "false" and "null"
    Replies     \* what the daemon answers: [rows, names, truncated, first, rowId]

VARIABLES
    call,       \* "query" or "table_names"
    sent,       \* the reply as the daemon meant it
    text, pos,  \* what arrived, and the cursor
    at,         \* the loop the walk is in, "start" before it and "done" after
    row,        \* the row being read
    result,     \* rows or names read so far
    truncated,  \* Result::truncated
    outcome     \* "none", "returned" or "thrown"

vars == <<call, sent, text, pos, at, row, result, truncated, outcome>>

Structure == {"lbrace", "rbrace", "lbracket", "rbracket", "colon", "comma"}
Scalars == Strings \cup Words \cup DOMAIN Numbers
Tokens == Structure \cup Scalars

(* No token is two things, and those the daemon writes by name are tokens.   *)
ASSUME TokenAssumption ==
    /\ {"rows", "cells", "row_id", "truncated", "x"} \subseteq Strings
    /\ {"true", "false"} \subseteq Words
    /\ Strings \cap Words = {} /\ (Strings \cup Words) \cap DOMAIN Numbers = {}
    /\ CutString \notin Tokens /\ "nothing" \notin Tokens \cup {CutString}
    /\ Structure \cap Scalars = {}

-----------------------------------------------------------------------------
(* The parser *)

Peek(t, p) == IF p \in 1..Len(t) THEN t[p] ELSE "nothing"

(* The cursor behind a key and its colon, 0 when one of them is not there.   *)
AfterKey(t, p) == IF Peek(t, p) \in Strings /\ Peek(t, p + 1) = "colon" THEN p + 2 ELSE 0

Walks == {"value", "rbrace", "rbracket"}

(* skip_value at every position of a text: the cursor behind the value at p, *)
(* behind the members of an object from p on ("rbrace"), or behind the       *)
(* elements of an array ("rbracket").  It rests on positions behind p alone. *)
SkipFrom(t, skip, p) ==
    LET Container(close) == IF Peek(t, p + 1) = close THEN p + 2 ELSE skip[p + 1][close]
        Rest(after, close) == CASE Peek(t, after) = "comma" -> skip[after + 1][close]
                                [] Peek(t, after) = close -> after + 1
                                [] OTHER -> 0
        token == Peek(t, p)
        value == CASE token \in Scalars -> p + 1
                   [] token = "lbrace" -> Container("rbrace")
                   [] token = "lbracket" -> Container("rbracket")
                   [] OTHER -> 0
        member == IF AfterKey(t, p) = 0 THEN 0 ELSE skip[AfterKey(t, p)]["value"]
    IN  [walk \in Walks |->
            CASE walk = "value" -> value
              [] walk = "rbrace" -> Rest(member, "rbrace")
              [] walk = "rbracket" -> Rest(value, "rbracket")]

Skip(t) == LET skip[p \in 0..Len(t) + 1] == SkipFrom(t, skip, p) IN skip

(* The cursor behind the value at p.                                         *)
SkipValue(t, p) == Skip(t)[p]["value"]

(* A get_bool that looks at the first member only.                           *)
MFlag(t, p, key) ==
    LET value == AfterKey(t, p) IN value # 0 /\ t[p] = key /\ Peek(t, value) = "true"

(* get_bool from the member at p on; query() starts from FALSE and does not  *)
(* look at the flag get_bool returns.                                        *)
Flag(t, p, key) ==
    LET flag[q \in 0..Len(t) + 1] ==
            LET value == AfterKey(t, q)
                after == SkipValue(t, value)
            IN  IF value = 0 THEN FALSE
                ELSE IF t[q] = key /\ Peek(t, value) \in {"true", "false"}
                     THEN t[value] = "true"
                ELSE IF Peek(t, after) = "comma" THEN flag[after + 1]
                ELSE FALSE
    IN  flag[p]

-----------------------------------------------------------------------------
(* The daemon and the network *)

Separated(parts) == FlattenSeq([i \in 1..Len(parts) |->
                                  IF i = 1 THEN parts[i] ELSE <<"comma">> \o parts[i]])

RenderCells(cells) ==
    Separated([i \in 1..Len(cells) |-> <<cells[i].column, "comma">> \o cells[i].value])

RenderRow(cells, rowId) ==
    LET id == <<"row_id", "colon", "x">>
        body == <<"cells", "colon", "lbracket">> \o RenderCells(cells) \o <<"rbracket">>
    IN  <<"lbrace">> \o Separated(CASE rowId = "first" -> <<id, body>>
                               [] rowId = "last" -> <<body, id>>
                               [] OTHER -> <<body>>) \o <<"rbrace">>

RenderQuery(r) ==
    LET rows == <<"rows", "colon", "lbracket">>
                \o Separated([i \in 1..Len(r.rows) |-> RenderRow(r.rows[i], r.rowId)])
                \o <<"rbracket">>
        flag == <<"truncated", "colon", IF r.truncated THEN "true" ELSE "false">>
    IN  <<"lbrace">> \o Separated(IF r.first THEN <<flag, rows>> ELSE <<rows, flag>>)
                     \o <<"rbrace">>

RenderNames(r) ==
    <<"lbracket">> \o Separated([i \in 1..Len(r.names) |-> <<r.names[i]>>]) \o <<"rbracket">>

Rendered(c, r) == IF c = "query" THEN RenderQuery(r) ELSE RenderNames(r)

(* What it answers: every cell is the number of a column and one JSON value. *)
IsJson(value) == value \in Seq(Tokens) /\ SkipValue(value, 1) = Len(value) + 1
IsCell(cell) == cell.column \in DOMAIN Numbers /\ IsJson(cell.value)
IsReply(r) ==
    /\ Len(r.rows) \in Nat /\ r.names \in Seq(Strings)
    /\ \A i \in 1..Len(r.rows) :
          Len(r.rows[i]) \in Nat /\ \A j \in 1..Len(r.rows[i]) : IsCell(r.rows[i][j])
    /\ {r.truncated, r.first} \subseteq BOOLEAN /\ r.rowId \in {"first", "last", "none"}

ASSUME ReplyAssumption == \A r \in Replies : IsReply(r)

(* The text breaks off after n tokens, in the middle of a string, or misses  *)
(* the token at n.                                                           *)
Cut(t, n) == SubSeq(t, 1, n)
CutInString(t, n) == IF t[n] \in Strings THEN Append(Cut(t, n - 1), CutString) ELSE Cut(t, n)
Without(t, n) == Cut(t, n - 1) \o SubSeq(t, n + 1, Len(t))

Arriving(t) ==
    {t} \cup UNION {{Cut(t, n - 1), CutInString(t, n), Without(t, n)} : n \in 1..Len(t)}

-----------------------------------------------------------------------------
(* The walk *)

NoReply == [rows |-> << >>, names |-> << >>, truncated |-> FALSE, first |-> FALSE, rowId |-> "none"]

Init ==
    /\ call = "query" /\ sent = NoReply /\ text = << >> /\ pos = 0 /\ at = "done"
    /\ row = << >> /\ result = << >> /\ truncated = FALSE /\ outcome = "none"

Call(c, r) ==
    /\ at = "done" /\ outcome = "none"
    /\ call' = c /\ sent' = r /\ text' \in Arriving(Rendered(c, r))
    /\ pos' = 1 /\ at' = "start"
    /\ row' = << >> /\ result' = << >> /\ truncated' = FALSE /\ outcome' = "none"

(* The caller lets go of what it got before it calls again.                  *)
Discard ==
    /\ at = "done" /\ outcome # "none"
    /\ call' = "query" /\ sent' = NoReply /\ text' = << >> /\ pos' = 0
    /\ row' = << >> /\ result' = << >> /\ truncated' = FALSE /\ outcome' = "none"
    /\ UNCHANGED at

Token == Peek(text, pos)

Go(place, p) == at' = place /\ pos' = p /\ UNCHANGED outcome
End(how) == at' = "done" /\ outcome' = how /\ UNCHANGED pos

(* A loop that takes anything but its end for a comma.                       *)
MSeparator(p, again, close, next, otherwise) ==
    IF Peek(text, p) = close THEN Go(next, p + 1) ELSE Go(again, p + 1)

(* A loop that goes on without stepping over the comma.                      *)
MSeparatorStay(p, again, close, next, otherwise) ==
    CASE Peek(text, p) = "comma" -> Go(again, p)
      [] Peek(text, p) = close -> Go(next, p + 1)
      [] OTHER -> End(otherwise)

(* The separator at p: another turn of the loop, or what follows its end.    *)
Separator(p, again, close, next, otherwise) ==
    CASE Peek(text, p) = "comma" -> Go(again, p + 1)
      [] Peek(text, p) = close -> Go(next, p + 1)
      [] OTHER -> End(otherwise)

Reading == UNCHANGED <<call, sent, text, truncated>>

(* query(): the truncated flag, then the opening of the object.              *)
StartQuery ==
    /\ at = "start" /\ call = "query"
    /\ truncated' = (Token = "lbrace" /\ Flag(text, 2, "truncated"))
    /\ IF Token = "lbrace" THEN Go("members", 2) ELSE End("returned")
    /\ UNCHANGED <<call, sent, text, row, result>>

(* The search for "rows", one member a turn; it gives up without a word.     *)
FindRows ==
    /\ at = "members" /\ Reading /\ UNCHANGED <<row, result>>
    /\ LET value == AfterKey(text, pos)
           after == SkipValue(text, value)
       IN  CASE value = 0 -> End("returned")
             [] value # 0 /\ Token = "rows" /\ Peek(text, value) = "lbracket" ->
                  IF Peek(text, value + 1) = "rbracket" THEN End("returned")
                  ELSE Go("rows", value + 1)
             [] OTHER -> IF Peek(text, after) = "comma" THEN Go("members", after + 1)
                         ELSE End("returned")

NextRow ==
    /\ at = "rows" /\ Reading /\ UNCHANGED result
    /\ row' = << >>
    /\ CASE Token # "lbrace" -> End("thrown")
         [] Token = "lbrace" /\ Peek(text, pos + 1) = "rbrace" -> Go("rowEnd", pos + 2)
         [] OTHER -> Go("row", pos + 1)

RowMember ==
    /\ at = "row" /\ Reading /\ UNCHANGED <<row, result>>
    /\ LET value == AfterKey(text, pos)
           after == SkipValue(text, value)
       IN  CASE value = 0 -> End("thrown")
             [] value # 0 /\ Token = "cells" /\ Peek(text, value) = "lbracket" ->
                  IF Peek(text, value + 1) = "rbracket" THEN Go("memberEnd", value + 2)
                  ELSE Go("cells", value + 1)
             [] OTHER -> IF after = 0 THEN End("thrown") ELSE Go("memberEnd", after)

(* A walk that reads the column id without looking at what stands there.     *)
MNextCell ==
    /\ at = "cells" /\ Reading /\ UNCHANGED result
    /\ LET known == Token \in DOMAIN Numbers
           comma == IF known THEN pos + 1 ELSE pos
           value == IF Peek(text, comma) = "comma" THEN comma + 1 ELSE comma
           after == SkipValue(text, value)
       IN  IF after = 0 THEN End("thrown") /\ UNCHANGED row
           ELSE /\ row' = Append(row, [column |-> IF known THEN Numbers[Token] ELSE 0,
                                       value |-> SubSeq(text, value, after - 1)])
                /\ Separator(after, "cells", "rbracket", "memberEnd", "thrown")

(* A cell: its column id, a comma if there is one, its value.                *)
NextCell ==
    /\ at = "cells" /\ Reading /\ UNCHANGED result
    /\ LET value == IF Peek(text, pos + 1) = "comma" THEN pos + 2 ELSE pos + 1
           after == SkipValue(text, value)
       IN  IF Token \notin DOMAIN Numbers \/ after = 0
           THEN End("thrown") /\ UNCHANGED row
           ELSE /\ row' = Append(row, [column |-> Numbers[Token],
                                       value |-> SubSeq(text, value, after - 1)])
                /\ Separator(after, "cells", "rbracket", "memberEnd", "thrown")

MemberEnd ==
    /\ at = "memberEnd" /\ Reading /\ UNCHANGED <<row, result>>
    /\ Separator(pos, "row", "rbrace", "rowEnd", "thrown")

(* A walk that takes the end of the text for the end of the array.           *)
MRowEnd ==
    /\ at = "rowEnd" /\ Reading /\ UNCHANGED row
    /\ result' = Append(result, row)
    /\ IF Token = "comma" THEN Go("rows", pos + 1) ELSE End("returned")

RowEnd ==
    /\ at = "rowEnd" /\ Reading /\ UNCHANGED row
    /\ result' = Append(result, row)
    /\ CASE Token = "comma" -> Go("rows", pos + 1)
         [] Token = "rbracket" -> End("returned")
         [] OTHER -> End("thrown")

(* table_names().                                                            *)
StartNames ==
    /\ at = "start" /\ call = "table_names" /\ Reading /\ UNCHANGED <<row, result>>
    /\ IF Token # "lbracket" \/ Peek(text, 2) = "rbracket" THEN End("returned") ELSE Go("names", 2)

NextName ==
    /\ at = "names" /\ Reading /\ UNCHANGED row
    /\ IF Token \notin Strings THEN End("thrown") /\ UNCHANGED result
       ELSE /\ result' = Append(result, Token)
            /\ CASE Peek(text, pos + 1) = "comma" -> Go("names", pos + 2)
                 [] Peek(text, pos + 1) = "rbracket" -> End("returned")
                 [] OTHER -> End("thrown")

Next ==
    \/ \E c \in {"query", "table_names"}, r \in Replies : Call(c, r)
    \/ Discard \/ StartQuery \/ FindRows \/ NextRow \/ RowMember \/ NextCell \/ MemberEnd \/ RowEnd
    \/ StartNames \/ NextName

Spec == Init /\ [][Next]_vars

-----------------------------------------------------------------------------
(* What the caller may rely on *)

(* The rows the daemon meant, as Result holds them.                          *)
Meant == IF call = "table_names" THEN sent.names
         ELSE [i \in 1..Len(sent.rows) |->
                 [j \in 1..Len(sent.rows[i]) |->
                    [column |-> Numbers[sent.rows[i][j].column],
                     value |-> sent.rows[i][j].value]]]

Whole == text = Rendered(call, sent)
BrokenOff == IsStrictPrefix(text, Rendered(call, sent)) \/
             (text # << >> /\ text[Len(text)] = CutString)

(* The cursor stays on the text, and what has been read so far is no more    *)
(* than the text holds (the locals of query() and table_names()).            *)
TypeOK ==
    /\ call \in {"query", "table_names"} /\ pos \in 0..(Len(text) + 1)
    /\ at \in {"start", "members", "rows", "row", "cells", "memberEnd", "rowEnd",
               "names", "done"}
    /\ Len(result) <= Len(text) /\ Len(row) <= Len(text)
    /\ truncated \in BOOLEAN /\ outcome \in {"none", "returned", "thrown"}
    /\ (outcome = "none") <=> (at # "done" \/ (text = << >> /\ pos = 0))

(* A whole reply is returned as the daemon meant it, every row, cell and     *)
(* name in order and the flag with them, wherever row_id and truncated stand *)
(* and whatever objects a cell holds (query(), table_names()).               *)
WholeRepliesAreReported ==
    Whole /\ at = "done" =>
        /\ outcome = "returned" /\ result = Meant
        /\ call = "query" => truncated = sent.truncated

(* A reply that breaks off is never returned in part: the caller gets every  *)
(* row or name, none at all, or an exception.                                *)
NeverInPart ==
    BrokenOff /\ outcome = "returned" => result \in {<< >>, Meant}

(* A reply that misses one token is never read askew: a value is not taken   *)
(* for a column, a cell does not move to another row, none is dropped.  Only *)
(* inside an object or array that is a cell's value may the token be missing *)
(* unnoticed.                                                                *)
NothingMoves ==
    outcome = "returned" /\ result # << >> =>
        /\ Len(result) = Len(Meant)
        /\ \A i \in 1..Len(result) :
              IF call = "table_names" THEN result[i] = Meant[i]
              ELSE /\ Len(result[i]) = Len(Meant[i])
                   /\ \A j \in 1..Len(result[i]) :
                         /\ result[i][j].column = Meant[i][j].column
                         /\ Len(Meant[i][j].value) = 1 => result[i][j] = Meant[i][j]

(* The loops come to an end on every text, damaged or not: each turn moves   *)
(* the cursor on, and the text is finite.                                    *)
EveryTurnAdvances == [][at # "done" /\ at' # "done" => pos' > pos]_vars

-----------------------------------------------------------------------------
(* What the documents say, and the code does not do *)

(* "The bundled JSON parser is strict about structure and throws             *)
(* QueryException on malformed input" (SECURITY.md): no reply that breaks    *)
(* off before its end passes for an answer.                                  *)
MalformedThrows == BrokenOff => outcome # "returned"
=============================================================================
