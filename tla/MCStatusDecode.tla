--------------------------- MODULE MCStatusDecode ---------------------------
(* Small replies for StatusDecode: every sequence of up to MaxMembers        *)
(* members of a top-level object, closed or cut off.                         *)
EXTENDS StatusDecode, TLC

CONSTANT MaxMembers

MCMember ==
      (* top level: one neighbour before and after each scratch reuse *)
    [ query_id |-> [key |-> "query_id", kind |-> "str", val |-> "q1"],
      state |-> [key |-> "state", kind |-> "str", val |-> "running"],
      state2 |-> [key |-> "state", kind |-> "str", val |-> "done"],
      stateNull |-> [key |-> "state", kind |-> "null", val |-> ""],
      server_state |-> [key |-> "server_state", kind |-> "str", val |-> "committed"],
      cancel_outcome |-> [key |-> "cancel_outcome", kind |-> "str", val |-> "too_late"],
      cancelCut |-> [key |-> "cancel_outcome", kind |-> "strCut", val |-> "too"],
      committedCut |-> [key |-> "committed", kind |-> "boolCut", val |-> TRUE],
      committed |-> [key |-> "committed", kind |-> "bool", val |-> TRUE],
      statements |-> [key |-> "committed_statements", kind |-> "num", val |-> 3],
      statementsBig |-> [key |-> "committed_statements", kind |-> "num", val |-> 7],
      firstIndex |-> [key |-> "first_commit_statement_index", kind |-> "neg", val |-> -1],
      epoch |-> [key |-> "last_commit_epoch", kind |-> "num", val |-> 7],
      epochNeg |-> [key |-> "last_commit_epoch", kind |-> "neg", val |-> -7],
      epochFrac |-> [key |-> "last_commit_epoch", kind |-> "frac", val |-> 7],
      hlcTop |-> [key |-> "last_commit_hlc", kind |-> "obj", val |-> "hlc1"],
      outcome |-> [key |-> "outcome", kind |-> "obj", val |-> "out"],
      outcomeBare |-> [key |-> "outcome", kind |-> "obj", val |-> "bare"],
      durable |-> [key |-> "durable", kind |-> "obj", val |-> "dur"],
      durableText |-> [key |-> "durable", kind |-> "obj", val |-> "text"],
      durableSilent |-> [key |-> "durable", kind |-> "obj", val |-> "silent"],
      durableEmpty |-> [key |-> "durable", kind |-> "obj", val |-> "emptied"],
      durableCut |-> [key |-> "durable", kind |-> "objCut", val |-> "dur"],
      (* inside the nested objects *)
      phys |-> [key |-> "physical_micros", kind |-> "num", val |-> 9],
      physTwo |-> [key |-> "physical_micros", kind |-> "num", val |-> 8],
      logical |-> [key |-> "logical", kind |-> "num", val |-> 5],
      tie |-> [key |-> "node_tiebreaker", kind |-> "neg", val |-> -1],
      hlcTwo |-> [key |-> "last_commit_hlc", kind |-> "obj", val |-> "hlc2"],
      hlcLogical |-> [key |-> "last_commit_hlc", kind |-> "obj", val |-> "hlc3"],
      text |-> [key |-> "last_commit_epoch_text", kind |-> "str", val |-> "epoch-7"],
      serial |-> [key |-> "serialization", kind |-> "str", val |-> "serialized"],
      serialEmpty |-> [key |-> "serialization", kind |-> "str", val |-> ""],
      serialState |-> [key |-> "serialization_state", kind |-> "str", val |-> "partial"] ]

Closed(ms) == [open |-> TRUE, members |-> ms, closed |-> TRUE]

MCNested ==
    ("" :> NoBody) @@
    ("hlc1" :> Closed(<<"phys", "logical">>)) @@
    ("hlc2" :> Closed(<<"physTwo", "tie">>)) @@
    ("hlc3" :> Closed(<<"logical">>)) @@
    ("out" :> Closed(<<"hlcTwo", "serial">>)) @@
    ("bare" :> Closed(<<>>)) @@
    ("dur" :> Closed(<<"serialState", "hlcLogical">>)) @@
    ("text" :> Closed(<<"text", "serial">>)) @@
    ("silent" :> Closed(<<"text">>)) @@
    ("emptied" :> Closed(<<"serialEmpty", "text">>))

(* With Exact = 4 the 7 of statementsBig comes back as 8.                    *)
MCRounded(n) == IF n = 7 THEN 8 ELSE n

TopLevel == {"query_id", "state", "state2", "stateNull", "server_state",
    "cancel_outcome", "cancelCut", "committed", "committedCut",
    "statements", "statementsBig", "firstIndex", "epoch",
    "epochNeg", "epochFrac", "hlcTop", "outcome", "outcomeBare", "durable",
    "durableText", "durableSilent", "durableEmpty",
    "durableCut"}

MCBodies ==
    {NoBody} \cup
    [open : {TRUE}, closed : BOOLEAN,
     members : UNION {[1..n -> TopLevel] : n \in 0..MaxMembers}]
=============================================================================
