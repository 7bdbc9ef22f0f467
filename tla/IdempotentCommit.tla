-------------------------- MODULE IdempotentCommit --------------------------
(* commit(), put(), upsert(), del() and delete_by_pk() against a daemon that *)
(* may crash and a network that may lose or delay what it carries.           *)
(*                                                                           *)
(* The client sends one POST /kit/txn per attempt and blocks until an answer *)
(* or a transport failure; it never retries by itself.  The application does *)
(* so, with the same operations and key, as docs/transactions.md tells it    *)
(* to.  An attempt that timed out may still be on its way to the daemon.     *)
(*                                                                           *)
(* The daemon is external: it applies a batch atomically, remembers the key  *)
(* in the same transaction, answers a remembered key from memory, refuses    *)
(* the key for other operations (409), and loses nothing durable in a crash. *)
EXTENDS Naturals, Sequences, FiniteSets

CONSTANTS
    Callers,       \* application threads or processes, each with one call to make
    Batches,       \* batches with at least one operation
    Puts, Deletes, \* those of them put()/upsert() and del()/delete_by_pk() build
    Keys,          \* non-empty idempotency keys
    KeyArgs,       \* the key arguments callers pass: keys, NoKey
    NoKey,         \* the empty string
    Empty,         \* a batch without operations
    MaxLog,        \* bound: batches applied
    MaxCrashes     \* bound: crashes of the daemon

ASSUME BatchAssumption == Puts \subseteq Batches /\ Deletes \subseteq Batches /\ Empty \notin Batches
ASSUME KeyAssumption == KeyArgs \subseteq Keys \cup {NoKey} /\ NoKey \notin Keys
ASSUME BoundAssumption == MaxLog \in Nat /\ MaxCrashes \in Nat

VARIABLES
    call,        \* [ops, key]: the arguments of each caller's call
    pc,          \* "idle", "waiting", "failed", "returned" or "conflict"
    requests,    \* requests on their way: [from, ops, key, live]
    answers,     \* answers on their way back: [to, status]
    up,          \* the daemon is running
    crashes,
    log,         \* the batches the daemon applied, in order: [from, ops, key]
    remembered   \* the daemon's durable table: the batch of each key, or Empty

client == <<call, pc>>
network == <<requests, answers>>
daemon == <<up, crashes, log, remembered>>
vars == <<client, network, daemon>>

CallArgs == [ops : Batches \cup {Empty}, key : Keys \cup {NoKey}]
Request == [from : Callers, ops : Batches, key : Keys \cup {NoKey}, live : BOOLEAN]
Answer == [to : Callers, status : {"ok", "conflict"}]

-----------------------------------------------------------------------------
(* The client *)

(* The arguments a call may have: commit takes any batch and any key, put    *)
(* and upsert their single operation and any key, del and delete_by_pk have  *)
(* no key to give.                                                           *)
ViaCommit(a) == a.ops \in Batches \cup {Empty} /\ a.key \in KeyArgs
ViaPut(a) == a.ops \in Puts /\ a.key \in KeyArgs
ViaDelete(a) == a.ops \in Deletes /\ a.key = NoKey

(* A body without the key.                                                   *)
MWire(c) == [from |-> c, ops |-> call[c].ops, key |-> NoKey, live |-> TRUE]

(* The body of the request: the key stands in it unless it is empty.         *)
Wire(c) == [from |-> c, ops |-> call[c].ops, key |-> call[c].key, live |-> TRUE]

(* A commit that returns before the answer is there.                         *)
MCommit(c) ==
    /\ pc' = [pc EXCEPT ![c] = "returned"]
    /\ requests' = IF call[c].ops = Empty THEN requests ELSE requests \cup {Wire(c)}

(* A commit that posts an empty batch like any other.                        *)
MCommitEmpty(c) ==
    /\ pc' = [pc EXCEPT ![c] = "waiting"]
    /\ requests' = requests \cup {Wire(c)}

(* commit(ops, key): nothing to do for an empty batch, else POST /kit/txn    *)
(* and wait.                                                                 *)
Commit(c) ==
    \/ /\ call[c].ops = Empty
       /\ pc' = [pc EXCEPT ![c] = "returned"]
       /\ UNCHANGED requests
    \/ /\ call[c].ops # Empty
       /\ pc' = [pc EXCEPT ![c] = "waiting"]
       /\ requests' = requests \cup {Wire(c)}

(* The application makes its call.                                           *)
Call(c) ==
    /\ pc[c] = "idle"
    /\ Commit(c)
    /\ UNCHANGED <<call, answers, daemon>>

(* The application, told of a network failure, calls again as it did.        *)
Retry(c) ==
    /\ pc[c] = "failed"
    /\ Commit(c)
    /\ UNCHANGED <<call, answers, daemon>>

(* The connection is refused, reset or timed out: QueryException.  An answer *)
(* on its way finds nobody; a request on its way may still arrive.  An       *)
(* answer with another status than 2xx and 409 (401, 403, 404, 5xx), or with *)
(* a message that starts with "not found:", ends the call in the same way:   *)
(* an exception that does not say whether the batch was applied.             *)
NetworkError(c) ==
    /\ pc[c] = "waiting"
    /\ pc' = [pc EXCEPT ![c] = "failed"]
    /\ requests' = {IF m.from = c THEN [m EXCEPT !.live = FALSE] ELSE m : m \in requests}
    /\ answers' = {a \in answers : a.to # c}
    /\ UNCHANGED <<call, daemon>>

(* A client that takes every error answer for a failure worth a retry.       *)
MReceive(a) ==
    /\ a \in answers
    /\ pc' = [pc EXCEPT ![a.to] = IF a.status = "ok" THEN "returned" ELSE "failed"]
    /\ answers' = answers \ {a}
    /\ UNCHANGED <<call, requests, daemon>>

(* The answer: 2xx returns, 409 throws ConflictException; for the others see *)
(* NetworkError.                                                             *)
Receive(a) ==
    /\ a \in answers
    /\ pc' = [pc EXCEPT ![a.to] = IF a.status = "ok" THEN "returned" ELSE "conflict"]
    /\ answers' = answers \ {a}
    /\ UNCHANGED <<call, requests, daemon>>

-----------------------------------------------------------------------------
(* The network and the daemon *)

Lose(m) ==
    /\ m \in requests
    /\ requests' = requests \ {m}
    /\ UNCHANGED <<client, answers, daemon>>

Respond(m, status) ==
    answers' = IF m.live THEN answers \cup {[to |-> m.from, status |-> status]} ELSE answers

(* A batch is committed, and its key remembered, in one transaction.         *)
Apply(m) ==
    /\ m.key # NoKey => remembered[m.key] = Empty
    /\ Len(log) < MaxLog
    /\ log' = Append(log, [from |-> m.from, ops |-> m.ops, key |-> m.key])
    /\ remembered' = IF m.key = NoKey THEN remembered
                     ELSE [remembered EXCEPT ![m.key] = m.ops]
    /\ Respond(m, "ok")

(* A known key: the original result, unless the batch is another one.        *)
Replay(m) ==
    /\ m.key # NoKey /\ remembered[m.key] # Empty
    /\ Respond(m, IF remembered[m.key] = m.ops THEN "ok" ELSE "conflict")
    /\ UNCHANGED <<log, remembered>>

(* A constraint refuses the batch, and nothing of it remains.                *)
Refuse(m) ==
    /\ m.key # NoKey => remembered[m.key] = Empty
    /\ Respond(m, "conflict")
    /\ UNCHANGED <<log, remembered>>

Execute(m) ==
    /\ up /\ m \in requests
    /\ requests' = requests \ {m}
    /\ Apply(m) \/ Replay(m) \/ Refuse(m)
    /\ UNCHANGED <<client, up, crashes>>

(* A crash loses the answers that were not sent; the log and the key table   *)
(* are durable.                                                              *)
Crash ==
    /\ up /\ crashes < MaxCrashes
    /\ up' = FALSE /\ crashes' = crashes + 1
    /\ answers' = {}
    /\ UNCHANGED <<client, requests, log, remembered>>

Restart ==
    /\ ~up
    /\ up' = TRUE
    /\ UNCHANGED <<client, network, crashes, log, remembered>>

-----------------------------------------------------------------------------
Init ==
    /\ call \in {f \in [Callers -> CallArgs] :
                    \A c \in Callers : ViaCommit(f[c]) \/ ViaPut(f[c]) \/ ViaDelete(f[c])}
    /\ pc = [c \in Callers |-> "idle"]
    /\ requests = {} /\ answers = {}
    /\ up = TRUE /\ crashes = 0
    /\ log = << >> /\ remembered = [k \in Keys |-> Empty]

Next ==
    \/ \E c \in Callers : Call(c) \/ Retry(c) \/ NetworkError(c)
    \/ \E a \in answers : Receive(a)
    \/ \E m \in requests : Lose(m) \/ Execute(m)
    \/ Crash \/ Restart

Spec == Init /\ [][Next]_vars

(* Every request of the client ends (CURLOPT_TIMEOUT), a caller that retries *)
(* keeps retrying, the daemon comes back, and a network and a daemon that    *)
(* get infinitely many chances to serve a caller eventually do.              *)
FairSpec ==
    /\ Spec
    /\ WF_vars(Restart)
    /\ \A c \in Callers :
          /\ WF_vars(Call(c)) /\ WF_vars(Retry(c)) /\ WF_vars(NetworkError(c))
          /\ SF_vars(\E m \in requests : m.from = c /\ m.live /\ Execute(m))
          /\ SF_vars(\E a \in answers : a.to = c /\ Receive(a))

-----------------------------------------------------------------------------
(* What retries may rely on *)

TypeOK ==
    /\ call \in [Callers -> CallArgs]
    /\ pc \in [Callers -> {"idle", "waiting", "failed", "returned", "conflict"}]
    /\ requests \subseteq Request /\ answers \subseteq Answer
    /\ up \in BOOLEAN /\ crashes \in 0..MaxCrashes
    /\ log \in Seq([from : Callers, ops : Batches, key : Keys \cup {NoKey}])
    /\ remembered \in [Keys -> Batches \cup {Empty}]

Keyed(c) == call[c].key # NoKey

(* However often the calls under one key were sent, retried, delayed or      *)
(* answered by a daemon that crashed since, one batch at most took effect:   *)
(* the key of the call is in every body it sends (commit()).                 *)
AtMostOncePerKey ==
    \A i, j \in 1..Len(log) :
        Keyed(log[i].from) /\ call[log[i].from].key = call[log[j].from].key => i = j

(* A call that returned was applied, as this batch and under this key, and   *)
(* stays applied whatever crashes afterwards (commit() returns only on 2xx). *)
ReturnedMeansApplied ==
    \A c \in Callers :
        pc[c] = "returned" /\ call[c].ops # Empty =>
            \E i \in 1..Len(log) : log[i].ops = call[c].ops /\ log[i].key = call[c].key

(* The abstract commit: messages, attempts and crashes are gone, a failed    *)
(* call is still pending, and the ledger is the log under the callers' keys. *)
Result == [c \in Callers |-> IF pc[c] \in {"waiting", "failed"} THEN "pending" ELSE pc[c]]
Ledger == [i \in 1..Len(log) |-> [ops |-> log[i].ops, key |-> call[log[i].from].key]]

Abs == INSTANCE ExactlyOnceCommit WITH intent <- call, result <- Result, ledger <- Ledger

(* The client and the daemon together are the commit the caller is promised. *)
ImplementsExactlyOnce == Abs!Spec

(* A caller that keeps retrying under a key gets an answer in the end, over  *)
(* a network that loses, delays and times out, from a daemon that crashes.   *)
KeyedCallsAreAnswered ==
    \A c \in Callers :
        Keyed(c) /\ pc[c] \in {"waiting", "failed"} ~> pc[c] \in {"returned", "conflict"}

-----------------------------------------------------------------------------
(* What the documents say, and the API does not offer *)

(* "Attach an idempotency key to any mutating call, and the server will      *)
(* deduplicate retries" (docs/errors.md, Idempotent retries): a delete too   *)
(* would take effect once however often it is retried.                       *)
DeletesApplyOnce ==
    \A c \in Callers :
        call[c].ops \in Deletes =>
            Cardinality({i \in 1..Len(log) : log[i].from = c}) <= 1
=============================================================================
