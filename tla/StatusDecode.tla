---------------------------- MODULE StatusDecode ----------------------------
(* query_status(): the reply to GET /queries/{id} decoded by                 *)
(* parse_query_status_json, parse_durable_outcome and parse_commit_hlc, and  *)
(* the two accessors that pick the authoritative HLC and serialization.      *)
(*                                                                           *)
(* Each parser reads its fields one after the other into a handful of        *)
(* scratch variables and copies a scratch variable into the result when the  *)
(* lookup's flag is TRUE.  A parser is a table of reads, in the order of the *)
(* code, folded over the scratch variables: what one read leaves in its      *)
(* scratch variable is what the next read of that type starts from.          *)
(*                                                                           *)
(* An optional or not yet assigned field is a set of at most one value.      *)
EXTENDS JsonFields

CONSTANTS
    Nested,    \* raw text of an object -> the body it is; Nested[""] = NoBody
    Bodies,    \* the reply bodies of /queries/{id}
    QueryIds,  \* the query ids a caller passes, "" among them
    Word       \* 2^32 in the program: the values of a std::uint32_t

ASSUME WordAssumption == Word \in Nat \ {0}

(* The value of a member is what its kind says, and an object has its text.  *)
ASSUME MemberAssumption ==
    \A m \in DOMAIN Member :
        /\ Member[m].kind \in Kinds
        /\ Member[m].kind = "num" => Member[m].val \in Nat
        /\ Member[m].kind \in {"frac", "neg"} => Member[m].val \in Int
        /\ Member[m].kind \in {"num", "frac", "neg"} => Rounded(Member[m].val) \in Int
        /\ Member[m].kind \in {"bool", "boolCut"} => Member[m].val \in BOOLEAN
        /\ Member[m].kind = "obj" => Member[m].val \in DOMAIN Nested \ {""}

(* A body has any members, in any order and number.                          *)
IsBody(json) ==
    /\ json.open \in BOOLEAN /\ json.closed \in BOOLEAN
    /\ json.members \in Seq(DOMAIN Member)

(* The text of an object that get_object_raw cuts out is a whole object.     *)
ASSUME BodiesAssumption ==
    /\ \A b \in Bodies : IsBody(b)
    /\ "" \in DOMAIN Nested /\ Nested[""] = NoBody
    /\ \A raw \in DOMAIN Nested : IsBody(Nested[raw]) /\ WellFormedBody(Nested[raw])
    /\ \A raw \in DOMAIN Nested \ {""} : Nested[raw].open /\ Nested[raw].closed

VARIABLES
    body,      \* the reply that was decoded last
    status,    \* the QueryStatus made of it
    outcome    \* how the last query_status call ended

vars == <<body, status, outcome>>

-----------------------------------------------------------------------------
(* The tables of reads                                                       *)

Str(key) == [key |-> key, get |-> "string"]
Int64(key) == [key |-> key, get |-> "int"]
UInt64(key) == [key |-> key, get |-> "uint64"]
Bool(key) == [key |-> key, get |-> "bool"]
Obj(key, into) == [key |-> key, get |-> "object", into |-> into]

StatementCounts ==
    << Int64("first_commit_statement_index"),
       Int64("last_commit_statement_index"),
       Int64("completed_statements"), Int64("statement_index") >>

CommitFields ==
    << Bool("committed"), Int64("committed_statements"),
       UInt64("last_commit_epoch"), Str("last_commit_epoch_text"),
       Obj("last_commit_hlc", "hlc_raw") >>

OutcomeReads ==
    CommitFields \o StatementCounts
    \o << Str("serialization"), Str("serialization_state"), Str("terminal_state") >>

StatusReads ==
    << Str("query_id"), Str("status"), Str("state"), Str("server_state"),
       Str("terminal_state") >>
    \o CommitFields \o StatementCounts
    \o << Str("cancel_outcome"), Str("cancellation_reason"), Bool("retryable"),
          Obj("outcome", "obj"), Obj("durable", "obj") >>

(* The scratch variables as the parsers declare them, and what each lookup   *)
(* reads into.                                                               *)
FreshScratch ==
    [s |-> "", b |-> FALSE, n |-> 0, u |-> 0, hlc_raw |-> "", obj |-> ""]

ScratchOf(read) == CASE read.get = "string" -> "s"
                     [] read.get = "bool"   -> "b"
                     [] read.get = "int"    -> "n"
                     [] read.get = "uint64" -> "u"
                     [] read.get = "object" -> read.into

Lookup(json, read, out) ==
    CASE read.get = "string" -> GetString(json, read.key, out)
      [] read.get = "bool"   -> GetBool(json, read.key, out)
      [] read.get = "int"    -> GetInt(json, read.key, out)
      [] read.get = "uint64" -> GetUint64(json, read.key, out)
      [] read.get = "object" -> GetObjectRaw(json, read.key, out)

(* One "if (get_x(json, key, scratch)) field = scratch;".                    *)
ReadField(json, acc, read) ==
    LET v == ScratchOf(read)
        r == Lookup(json, read, acc.scratch[v])
    IN  [scratch |-> [acc.scratch EXCEPT ![v] = r.out],
         field |-> [acc.field EXCEPT ![read.key] = IF r.ret THEN {r.out} ELSE {}]]

KeysOf(reads) == {reads[i].key : i \in 1..Len(reads)}

(* The reads of a table, one after the other.                                *)
Reading(json, reads) ==
    LET after[i \in 0..Len(reads)] ==
            IF i = 0 THEN [scratch |-> FreshScratch,
                           field   |-> [k \in KeysOf(reads) |-> {}]]
            ELSE ReadField(json, after[i - 1], reads[i])
    IN  after

Read(json, reads) == Reading(json, reads)[Len(reads)].field

-----------------------------------------------------------------------------
(* The parsers                                                               *)

(* parse_commit_hlc: {} for nullopt.                                         *)
ParseCommitHlc(json) ==
    LET phys == GetUint64(json, "physical_micros", 0) IN
    IF ~phys.ret THEN {}
    ELSE {[physical_micros |-> phys.out,
           logical         |-> GetInt(json, "logical", 0).out % Word,
           node_tiebreaker |-> GetInt(json, "node_tiebreaker", 0).out % Word]}

(* An object that was read is parsed where it is assigned.                   *)
ReadHlc(raw) == UNION {ParseCommitHlc(Nested[t]) : t \in raw}

ParseDurableOutcome(json) ==
    LET f == Read(json, OutcomeReads)
    IN  [f EXCEPT !["last_commit_hlc"] = ReadHlc(f["last_commit_hlc"])]

ParseQueryStatus(json) ==
    LET f == Read(json, StatusReads)
    IN  [f EXCEPT
          !["server_state"] = IF @ = {} THEN f["state"] ELSE @,
          !["last_commit_hlc"] = ReadHlc(@),
          !["outcome"] = {ParseDurableOutcome(IF @ = {} THEN NoBody ELSE Nested[CHOOSE t \in @ : TRUE])},
          !["durable"] = {ParseDurableOutcome(Nested[t]) : t \in @}]

(* The members that are not optional hold their default when they were never *)
(* assigned; Plain reads such a string.                                      *)
Plain(field) == IF field = {} THEN "" ELSE CHOOSE v \in field : TRUE

Outcome(st) == CHOOSE o \in st["outcome"] : TRUE

(* A commit_hlc that never looks at the durable payload.                     *)
MCommitHlc(st) ==
    LET o == Outcome(st)["last_commit_hlc"]
    IN  IF o # {} THEN o ELSE st["last_commit_hlc"]

(* QueryStatus::commit_hlc: nested durable, then outcome, then top-level.    *)
CommitHlc(st) ==
    LET nested == UNION {d["last_commit_hlc"] : d \in st["durable"]}
        o == Outcome(st)["last_commit_hlc"]
    IN  IF nested # {} THEN nested
        ELSE IF o # {} THEN o
        ELSE st["last_commit_hlc"]

(* What an outcome says of its serialization: "" when it says nothing.       *)
Serialization(o) ==
    IF Plain(o["serialization_state"]) # "" THEN Plain(o["serialization_state"])
    ELSE Plain(o["serialization"])

(* A serialization_state that asks the outcome first.                        *)
MSerializationState(st) ==
    IF Serialization(Outcome(st)) # "" THEN Serialization(Outcome(st))
    ELSE Plain({Serialization(d) : d \in st["durable"]})

(* QueryStatus::serialization_state.                                         *)
SerializationState(st) ==
    LET nested == {Serialization(d) : d \in st["durable"]} \ {""}
    IN  IF nested # {} THEN CHOOSE s \in nested : TRUE
        ELSE Serialization(Outcome(st))

-----------------------------------------------------------------------------
(* The state machine: a call, then the caller drops the result and calls on  *)

NoStatus == ParseQueryStatus(NoBody)

Init == body = NoBody /\ status = NoStatus /\ outcome = "none"

(* query_status(id): an empty id throws before anything is sent.             *)
QueryStatus(id) ==
    /\ outcome = "none"
    /\ \/ /\ id = ""
          /\ outcome' = "query_id is required"
          /\ UNCHANGED <<body, status>>
       \/ /\ id # ""
          /\ \E b \in Bodies : /\ WellFormedBody(b)
                               /\ body' = b
                               /\ status' = ParseQueryStatus(b)
          /\ outcome' = "returned"

Discard ==
    /\ outcome # "none"
    /\ body' = NoBody /\ status' = NoStatus /\ outcome' = "none"

Next == (\E id \in QueryIds : QueryStatus(id)) \/ Discard

Spec == Init /\ [][Next]_vars

-----------------------------------------------------------------------------
(* What the caller may rely on                                               *)

KindsOf(read) == CASE read.get = "string" -> {"str", "strCut"}
                   [] read.get = "bool"   -> {"bool", "boolCut"}
                   [] read.get = "int"    -> {"num", "frac", "neg"}
                   [] read.get = "uint64" -> {"num", "frac"}
                   [] read.get = "object" -> {"obj", "objCut"}

(* The values a lookup finds and gives up on: but for a word, whatever the   *)
(* text ends in the middle of, and a fraction where digits are wanted.       *)
Unreadable(read) == (CutKinds \ {"boolCut"}) \cup IF read.get = "uint64" THEN {"frac"} ELSE {}

(* What the lookup makes of a value it does not give up on: a word that is   *)
(* not all there is FALSE, an integer has been a double.                     *)
Reported(read, m) ==
    CASE read.get = "bool" -> m.kind = "bool" /\ m.val
      [] read.get = "int"  -> AsDouble(m.val)
      [] OTHER             -> m.val

Scalars(reads) == {i \in 1..Len(reads) : reads[i].get # "object"}

(* The members of the body that are this field, and the first of them.       *)
MembersFor(json, read) ==
    {i \in 1..Len(json.members) :
        At(json, i).key = read.key /\ At(json, i).kind \in KindsOf(read)}

FirstFor(json, read) ==
    {i \in MembersFor(json, read) : \A j \in MembersFor(json, read) : i <= j}

(* The nested objects of the reply that are whole.                           *)
ObjectIn(json, key) ==
    {Nested[At(json, i).val] :
        i \in {m \in FirstFor(json, Obj(key, key)) : At(json, m).kind = "obj"}}

(* Numbers are numbers, an unsigned one never comes from a negative member,  *)
(* and an HLC fits its 32-bit words (the declarations of QueryStatus,        *)
(* DurableOutcome and CommitHlc).                                            *)
HlcOK(hlc) == \A h \in hlc : /\ h.physical_micros \in Nat
                             /\ h.logical \in 0..(Word - 1)
                             /\ h.node_tiebreaker \in 0..(Word - 1)

TypeOK ==
    /\ DOMAIN status = KeysOf(StatusReads)
    /\ \A o \in {status} \cup status["outcome"] \cup status["durable"] :
          /\ o["last_commit_epoch"] \subseteq Nat
          /\ o["committed"] \subseteq BOOLEAN
          /\ \A i \in 1..Len(StatementCounts) : o[StatementCounts[i].key] \subseteq Int
          /\ HlcOK(o["last_commit_hlc"])
    /\ outcome \in {"none", "returned", "query_id is required"}

(* A field the body does carry, whole, is the one that is reported, with its *)
(* own value - an integer up to 2^53 exactly - and the first of its          *)
(* duplicates, whatever was read before it into the same scratch variable    *)
(* (parse_query_status_json).                                                *)
PresentFieldsAreReported ==
    \A r \in Scalars(StatusReads) :
        LET read == StatusReads[r] IN
        \A i \in FirstFor(body, read) :
            /\ At(body, i).kind \notin Unreadable(read) \cup CutKinds
            /\ read.get = "int" => At(body, i).val \in -Exact..Exact
            => status[read.key] = {At(body, i).val}

HlcIn(json) == UNION {ParseCommitHlc(hlc) : hlc \in ObjectIn(json, "last_commit_hlc")}

(* A body that breaks off before its closing brace never makes a field       *)
(* appear, and what is reported of it is what stands there: a scalar has the *)
(* value of the first member of its name - server_state may repeat state, a  *)
(* word broken off reads as FALSE - and the HLC, the outcome and the durable *)
(* payload are those of objects that are whole, an outcome that is not being *)
(* an empty one.  (The flag at the end of every get_* scan.)                 *)
CutBodyInventsNothing ==
    ~body.closed =>
        /\ \A r \in Scalars(StatusReads) :
              LET read == StatusReads[r]
                  field == status[read.key]
              IN  \/ field = {}
                  \/ \E i \in FirstFor(body, read) : field = {Reported(read, At(body, i))}
                  \/ read.key = "server_state" /\ field = status["state"]
        /\ status["last_commit_hlc"] = HlcIn(body)
        /\ status["durable"] = {ParseDurableOutcome(json) : json \in ObjectIn(body, "durable")}
        /\ status["outcome"] =
              IF ObjectIn(body, "outcome") = {} THEN {ParseDurableOutcome(NoBody)}
              ELSE {ParseDurableOutcome(json) : json \in ObjectIn(body, "outcome")}

(* A counter is never another counter's: an integer the body does not carry  *)
(* reads as 0 at worst, since get_int starts every scan from its own 0.      *)
CountersAreNotBorrowed ==
    \A r \in 1..Len(StatusReads) :
        LET read == StatusReads[r] IN
        read.get = "int" =>
            status[read.key] \subseteq
                {0} \cup {AsDouble(At(body, i).val) : i \in MembersFor(body, read)}

(* commit_hlc() is the HLC of the innermost object that carries one: the     *)
(* durable payload's, else the outcome's, else the top-level one, although   *)
(* a body without "durable" gets a copy of its outcome there (the scratch    *)
(* variable obj is read twice).                                              *)
HlcUnder(key) == UNION {HlcIn(json) : json \in ObjectIn(body, key)}

CommitHlcPrecedence ==
    CommitHlc(status) = IF HlcUnder("durable") # {} THEN HlcUnder("durable")
                        ELSE IF HlcUnder("outcome") # {} THEN HlcUnder("outcome")
                        ELSE HlcIn(body)

(* serialization_state() is what the durable payload answers, else what the  *)
(* outcome answers, else nothing, although a body without "durable" gets a   *)
(* copy of its outcome there.  A payload answers with its                    *)
(* serialization_state, else its serialization; one that has no member of    *)
(* that name answers with its last_commit_epoch_text, which was read into    *)
(* the same scratch variable, and hides what the outcome says: the comment on*)
(* serialization_state() has it "prefer nested durable/outcome               *)
(* serialization_state, then serialization".                                 *)
TextIn(json, key) ==
    {At(json, i).val : i \in {m \in FirstFor(json, Str(key)) : At(json, m).kind = "str"}} \ {""}

Said(json) ==
    IF TextIn(json, "serialization_state") # {} THEN TextIn(json, "serialization_state")
    ELSE TextIn(json, "serialization")

Answer(json) ==
    IF Said(json) = {} /\ MembersFor(json, Str("serialization")) = {}
    THEN TextIn(json, "last_commit_epoch_text")
    ELSE Said(json)

AnswerUnder(key) == UNION {Answer(json) : json \in ObjectIn(body, key)}

SerializationPrecedence ==
    {SerializationState(status)} \ {""} =
        IF AnswerUnder("durable") # {} THEN AnswerUnder("durable") ELSE AnswerUnder("outcome")

-----------------------------------------------------------------------------
(* What a comment says, and the code does not do                             *)

(* "Extract a scalar field from a top-level object. Returns true on success" *)
(* (the comment above get_string): an optional field has a value only when   *)
(* the reply carries it.                                                     *)
OptionalKeys == {"terminal_state", "committed", "committed_statements",
    "last_commit_epoch", "last_commit_epoch_text", "first_commit_statement_index",
    "last_commit_statement_index", "completed_statements", "statement_index",
    "cancel_outcome"}

AbsentFieldsAreUnset ==
    \A r \in 1..Len(StatusReads) :
        LET read == StatusReads[r] IN
        read.key \in OptionalKeys /\ status[read.key] # {} =>
            MembersFor(body, read) # {}
=============================================================================
