-------------------------- MODULE MCMiniHttpServer --------------------------
(* Two clients, one with a body and one without, and two responses.          *)
EXTENDS MiniHttpServer

CONSTANTS get, post

MCSize == [c \in {get, post} |-> IF c = post THEN 3 ELSE 2]

MCBodyOf == [s \in {200, 503} |-> IF s = 200 THEN "{}" ELSE "error"]
=============================================================================
