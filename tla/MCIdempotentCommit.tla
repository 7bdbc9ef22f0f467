------------------------- MODULE MCIdempotentCommit -------------------------
(* Two callers, one key that both may pass, and every batch either may send. *)
EXTENDS IdempotentCommit
=============================================================================
