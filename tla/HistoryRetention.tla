-------------------------- MODULE HistoryRetention --------------------------
(* The calls that answer with numbers of the daemon: history_retention(),    *)
(* set_history_retention_epochs(), the two getters, each a request of its    *)
(* own, count() and create_table(), made by several callers while commits go *)
(* on, calls time out and replies break off.                                 *)
(*                                                                           *)
(* The daemon is external: it keeps a window of epochs, prunes what falls    *)
(* out of it on every commit and resize, and cannot restore what it pruned.  *)
(* A PUT whose call timed out may still be on its way.  A body is one of     *)
(* JsonFields, a number a member <<key, "num", n>>.                          *)
EXTENDS JsonFields

CONSTANTS
    Callers,
    Windows,        \* what set_history_retention_epochs() is called with
    FirstWindow,
    FirstEpoch,     \* commits before the first call, each of them a row
    Radix,          \* of the numbers in a text: 10
    MaxCalls,       \* bound: calls of all callers
    Top             \* bound: the daemon's numbers, and with them its commits

PairOps == {"retention", "set", "epochs", "earliest"}
Ops == PairOps \cup {"count", "create"}
PairKeys == {"history_retention_epochs", "earliest_retained_epoch"}

FieldOf ==
    [history_retention_epochs |-> "window", earliest_retained_epoch |-> "earliest",
     count |-> "rows", table_id |-> "tables"]

Number(key, n) == <<key, "num", n>>
NullOf(key) == <<key, "null", 0>>
Foreign == <<"status", "str", 0>>

ASSUME BoundAssumption == MaxCalls \in Nat /\ Top \in Nat \ {0}
ASSUME WindowAssumption == Windows \subseteq 0..Top /\ FirstWindow \in Windows
ASSUME EpochAssumption == FirstEpoch \in 0..FirstWindow
ASSUME RoundedAssumption == \A n \in 0..Top : Rounded(n) \in Nat
ASSUME RadixAssumption == Radix \in Nat \ {0, 1}
ASSUME MemberAssumption ==
    /\ \A key \in DOMAIN FieldOf :
          /\ \A n \in 0..Top :
                Member[Number(key, n)] = [key |-> key, kind |-> "num", val |-> n]
          /\ Member[NullOf(key)] = [key |-> key, kind |-> "null", val |-> 0]
    /\ Member[Foreign] = [key |-> "status", kind |-> "str", val |-> 0]

VARIABLES
    daemon,     \* its window, earliest epoch kept, current epoch, rows and tables
    late,       \* windows of abandoned PUTs that may still arrive
    at,         \* of each caller: "idle", "sent", "served"
    call,       \* its call: [op, arg]
    reply,      \* the daemon's state its answer reports
    seen,       \* all states the daemon was in during the call
    floor,      \* the latest earliest epoch anybody had been told before the call
    told,       \* the latest earliest epoch anybody was told by now
    calls

caller == <<at, call, reply, floor, told, calls>>
vars == <<daemon, late, caller, seen>>

Object(ms) == [open |-> TRUE, members |-> ms, closed |-> TRUE]

States ==
    [window : Windows, earliest : 0..Top, epoch : 0..Top, rows : 0..Top, tables : 0..Top]

FirstState ==
    [window |-> FirstWindow, earliest |-> 0, epoch |-> FirstEpoch, rows |-> FirstEpoch,
     tables |-> 1]

NoCall == [op |-> "count", arg |-> FirstWindow]

Init ==
    /\ daemon = FirstState
    /\ late = {}
    /\ at = [c \in Callers |-> "idle"]
    /\ call = [c \in Callers |-> NoCall]
    /\ reply = [c \in Callers |-> FirstState] /\ seen = [c \in Callers |-> {}]
    /\ floor = [c \in Callers |-> 0] /\ told = 0 /\ calls = 0

-----------------------------------------------------------------------------
(* The daemon *)

Pruned(s) ==
    [s EXCEPT !.earliest = IF s.epoch > s.window + @ THEN s.epoch - s.window ELSE @]

Resized(s, n) == Pruned([s EXCEPT !.window = n])

(* It enters state s, and every call under way sees it.                      *)
Becomes(s) ==
    /\ daemon' = s
    /\ seen' = [c \in Callers |-> IF at[c] = "idle" THEN seen[c] ELSE seen[c] \cup {s}]

Works(s) ==
    /\ daemon.epoch < Top
    /\ Becomes(Pruned(s))
    /\ UNCHANGED <<late, caller>>

CommitPut == Works([daemon EXCEPT !.epoch = @ + 1, !.rows = @ + 1])

CommitDelete ==
    /\ daemon.rows > 0
    /\ Works([daemon EXCEPT !.epoch = @ + 1, !.rows = @ - 1])

LatePut ==
    /\ \E n \in late : Becomes(Resized(daemon, n)) /\ late' = late \ {n}
    /\ UNCHANGED caller

Applied(op, arg, s) ==
    IF op = "set" THEN Resized(s, arg)
    ELSE IF op = "create" THEN [s EXCEPT !.tables = @ + 1] ELSE s

Serve(c) ==
    /\ at[c] = "sent"
    /\ call[c].op = "create" => daemon.tables < Top
    /\ Becomes(Applied(call[c].op, call[c].arg, daemon))
    /\ at' = [at EXCEPT ![c] = "served"]
    /\ reply' = [reply EXCEPT ![c] = daemon']
    /\ UNCHANGED <<late, call, floor, told, calls>>

-----------------------------------------------------------------------------
(* The bodies that report a state, with their members in either order, and   *)
(* what may arrive of one: it, what is left when it breaks off, within the   *)
(* digits of a number too, an object that lacks a field or has it null, or   *)
(* an object of something in between.                                        *)

Bodies(op, s) ==
    LET w == Number("history_retention_epochs", s.window)
        e == Number("earliest_retained_epoch", s.earliest)
    IN  IF op \in PairOps THEN {Object(<<w, e>>), Object(<<e, w>>)}
        ELSE IF op = "count" THEN {Object(<<Number("count", s.rows)>>)}
        ELSE {Object(<<Number("table_id", s.tables)>>)}

Shortened(n) == {v \in 1..n : \E k \in 1..n : v = n \div (Radix ^ k)}

Cuts(body) ==
    {[body EXCEPT !.members = SubSeq(@, 1, n), !.closed = FALSE] : n \in 0..Len(body.members)}
    \cup UNION {{[body EXCEPT !.members = Append(SubSeq(@, 1, n - 1), Number(@[n][1], v)),
                              !.closed = FALSE] : v \in Shortened(body.members[n][3])} :
                n \in 1..Len(body.members)}

Lacking(body) ==
    {[body EXCEPT !.members = SubSeq(@, 1, n - 1) \o SubSeq(@, n + 1, Len(@))] :
        n \in 1..Len(body.members)}
    \cup {[body EXCEPT !.members[n] = NullOf(@[1])] : n \in 1..Len(body.members)}

Damaged(body) == {NoBody, Object(<<Foreign>>)} \cup Cuts(body) \cup Lacking(body)

-----------------------------------------------------------------------------
(* The client *)

(* A call that throws returns no field.                                      *)
Threw == <<>>

(* A variable that starts at a mark for "unset".                             *)
MFreshMark(c) == -1

(* The variable a lookup writes, before it does.                             *)
Fresh(c) == 0

(* A decode that returns its two numbers in the other order.                 *)
MDecodeHistoryRetention(body, out) ==
    LET epochs == GetUint64(body, "history_retention_epochs", out)
        earliest == GetUint64(body, "earliest_retained_epoch", out)
    IN  IF epochs.ret /\ earliest.ret THEN [window |-> earliest.out, earliest |-> epochs.out]
        ELSE Threw

DecodeHistoryRetention(body, out) ==
    LET epochs == GetUint64(body, "history_retention_epochs", out)
        earliest == GetUint64(body, "earliest_retained_epoch", out)
    IN  IF epochs.ret /\ earliest.ret THEN [window |-> epochs.out, earliest |-> earliest.out]
        ELSE Threw

(* A history_retention_epochs() that returns its neighbour's field.          *)
MGetter(op, pair) ==
    IF pair = Threw THEN Threw
    ELSE IF op = "epochs" THEN [window |-> pair.earliest] ELSE [earliest |-> pair.earliest]

Getter(op, pair) ==
    IF pair = Threw THEN Threw
    ELSE IF op = "epochs" THEN [window |-> pair.window] ELSE [earliest |-> pair.earliest]

(* count() and create_table() ignore the flag of their lookup.               *)
Decode(op, body, out) ==
    IF op \in {"retention", "set"} THEN DecodeHistoryRetention(body, out)
    ELSE IF op \in PairOps THEN Getter(op, DecodeHistoryRetention(body, out))
    ELSE IF op = "count" THEN [rows |-> GetInt(body, "count", out).out]
    ELSE [tables |-> GetInt(body, "table_id", out).out]

Arguments(op) == IF op = "set" THEN Windows ELSE {FirstWindow}

Call(c, op, arg) ==
    /\ at[c] = "idle" /\ calls < MaxCalls
    /\ calls' = calls + 1
    /\ at' = [at EXCEPT ![c] = "sent"] /\ call' = [call EXCEPT ![c] = [op |-> op, arg |-> arg]]
    /\ seen' = [seen EXCEPT ![c] = {daemon}] /\ floor' = [floor EXCEPT ![c] = told]
    /\ UNCHANGED <<daemon, late, reply, told>>

Ends(c) ==
    /\ at' = [at EXCEPT ![c] = "idle"] /\ call' = [call EXCEPT ![c] = NoCall]
    /\ reply' = [reply EXCEPT ![c] = FirstState]
    /\ seen' = [seen EXCEPT ![c] = {}] /\ floor' = [floor EXCEPT ![c] = 0]

(* What the call of c may return: the fields of its result, and whether they *)
(* are those of the whole reply.                                             *)
Answers(c) ==
    UNION {{[answer |-> Decode(call[c].op, body, Fresh(c)), body |-> body,
             whole |-> body = sent] : body \in {sent} \cup Damaged(sent)} :
           sent \in Bodies(call[c].op, reply[c])}

Tells(r) == r.whole /\ "earliest" \in DOMAIN r.answer

Return(c) ==
    /\ at[c] = "served"
    /\ Ends(c)
    /\ told' \in {IF Tells(r) /\ r.answer.earliest > told THEN r.answer.earliest ELSE told :
                 r \in Answers(c)}
    /\ UNCHANGED <<daemon, late, calls>>

(* The timeout.  Where the request was not served, a PUT may arrive later.   *)
TimeOut(c) ==
    /\ at[c] \in {"sent", "served"}
    /\ Ends(c)
    /\ late' \in IF at[c] = "sent" /\ call[c].op = "set" THEN {late, late \cup {call[c].arg}}
                 ELSE {late}
    /\ UNCHANGED <<daemon, told, calls>>

Next ==
    \/ CommitPut \/ CommitDelete \/ LatePut
    \/ \E c \in Callers :
          \/ Serve(c) \/ Return(c) \/ TimeOut(c)
          \/ \E op \in Ops : \E arg \in Arguments(op) : Call(c, op, arg)

Spec == Init /\ [][Next]_vars

-----------------------------------------------------------------------------
(* Properties *)

Returning == {c \in Callers : at[c] = "served"}

(* Types, and no call returns a number below zero.                           *)
TypeOK ==
    /\ daemon \in States
    /\ late \subseteq Windows
    /\ at \in [Callers -> {"idle", "sent", "served"}]
    /\ call \in [Callers -> [op : Ops, arg : Windows]]
    /\ floor \in [Callers -> Nat] /\ told \in Nat
    /\ calls \in 0..MaxCalls
    /\ \A c \in Returning : \A r \in Answers(c) :
          \A f \in DOMAIN r.answer : r.answer[f] \in Nat

(* The numbers one call returns from a whole reply were true together at an  *)
(* instant between its request and its answer, whatever the other callers    *)
(* and the commits did; and a resize returns the window it asked for.  Only  *)
(* a count or a table id that is no double comes back as another number.     *)
WholeAnswersAreTrue ==
    \A c \in Returning : \A r \in Answers(c) : r.whole =>
        /\ r.answer # Threw
        /\ \E s \in seen[c] :
              /\ \A f \in DOMAIN r.answer :
                    r.answer[f] = s[f] \/ (f \in {"rows", "tables"} /\ s[f] > Exact)
              /\ call[c].op = "set" => s.window = call[c].arg

(* Discarded history does not come back: no whole answer reports an earlier  *)
(* epoch as kept than an answer anybody had before the call was made, after  *)
(* any resize, by whichever of the calls, and after a PUT that came late.    *)
NothingComesBack ==
    \A c \in Returning : \A r \in Answers(c) : Tells(r) => r.answer.earliest >= floor[c]

(* A retention call whose reply broke off throws unless both fields stand in *)
(* what arrived, and then the number that stands first is the daemon's: only *)
(* the other one can have lost digits (decode_history_retention).            *)
Stands(key, body) == Hit(body, key, {"num"})

BrokenOffPairs ==
    \A c \in Returning : \A r \in Answers(c) :
        call[c].op \in PairOps /\ ~r.body.closed /\ r.answer # Threw =>
            \A key \in PairKeys :
                /\ Stands(key, r.body) # 0
                /\ Stands(key, r.body) = 1 /\ FieldOf[key] \in DOMAIN r.answer
                      => r.answer[FieldOf[key]] = reply[c][FieldOf[key]]
=============================================================================
