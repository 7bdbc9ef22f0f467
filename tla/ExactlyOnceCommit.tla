-------------------------- MODULE ExactlyOnceCommit --------------------------
(* What a caller is promised of commit(ops, key), retries included: a batch  *)
(* submitted under a key takes effect at most once however often it is sent, *)
(* and a call that returns was applied - as exactly this batch under exactly *)
(* this key (docs/transactions.md, "Idempotency keys for safe retries").     *)
(* There are no messages, attempts, crashes or timeouts here.                *)
EXTENDS Naturals, Sequences

CONSTANTS Callers, Batches, Keys,
          NoKey,   \* the empty key: idempotency is off
          Empty    \* a batch without operations

VARIABLES
    intent,   \* the call each caller makes: [ops, key]
    result,   \* "idle", "pending", "returned" or "conflict"
    ledger    \* the batches that took effect, in order: [ops, key]

vars == <<intent, result, ledger>>

Intents == [ops : Batches \cup {Empty}, key : Keys \cup {NoKey}]
Applied(i) == \E n \in DOMAIN ledger : ledger[n] = i
KeyUsed(k) == \E n \in DOMAIN ledger : ledger[n].key = k

Init ==
    /\ intent \in [Callers -> Intents]
    /\ result = [c \in Callers |-> "idle"]
    /\ ledger = << >>

Submit(c) ==
    /\ result[c] = "idle"
    /\ result' = [result EXCEPT ![c] = "pending"]
    /\ UNCHANGED <<intent, ledger>>

(* A pending or abandoned batch takes effect; under a key, only the first.   *)
Apply(c) ==
    /\ result[c] # "idle" /\ intent[c].ops # Empty
    /\ intent[c].key # NoKey => ~KeyUsed(intent[c].key)
    /\ ledger' = Append(ledger, intent[c])
    /\ UNCHANGED <<intent, result>>

Return(c) ==
    /\ intent[c].ops = Empty \/ (result[c] = "pending" /\ Applied(intent[c]))
    /\ result[c] \in {"idle", "pending"}
    /\ result' = [result EXCEPT ![c] = "returned"]
    /\ UNCHANGED <<intent, ledger>>

Conflict(c) ==
    /\ result[c] = "pending"
    /\ result' = [result EXCEPT ![c] = "conflict"]
    /\ UNCHANGED <<intent, ledger>>

Next == \E c \in Callers : Submit(c) \/ Apply(c) \/ Return(c) \/ Conflict(c)

Spec == Init /\ [][Next]_vars
=============================================================================
