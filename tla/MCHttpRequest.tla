--------------------------- MODULE MCHttpRequest ---------------------------
(* A cap of three bytes, chunks of one and two, and the replies request()    *)
(* tells apart.                                                              *)
EXTENDS HttpRequest, TLC

M(key, kind, val) == [key |-> key, kind |-> kind, val |-> val]

MCMember ==
    ("message" :> M("message", "str", "duplicate key")) @@
    ("gone" :> M("message", "str", "not found: table t")) @@
    ("opIndex" :> M("op_index", "num", 1)) @@
    ("error" :> M("error", "obj", "nested"))

Closed(ms) == [open |-> TRUE, members |-> ms, closed |-> TRUE]

MCNested == ("" :> NoBody) @@ ("nested" :> Closed(<<"message", "opIndex">>))

R(code, text, body) == [code |-> code, text |-> text, body |-> body]

MCReplies ==
    { R(200, "", NoBody), R(200, "[1]", NoBody),
      R(302, "", NoBody),
      R(401, "", NoBody), R(403, "forbidden", NoBody),
      R(401, "{gone}", Closed(<<"gone">>)),
      R(404, "", NoBody), R(500, "not found: x", NoBody),
      R(409, "{message,op_index}", Closed(<<"message", "opIndex">>)),
      R(409, "{error}", Closed(<<"error">>)),
      R(503, "{message}", Closed(<<"message">>)) }

MCRounded(n) == n

MCNotFoundTexts == {"not found: table t", "not found: x"}
=============================================================================
