----------------------- MODULE IdempotentCommit_proofs -----------------------
(* Proofs about IdempotentCommit: its types, its two safety invariants from  *)
(* an inductive strengthening, and that it implements ExactlyOnceCommit.     *)
EXTENDS IdempotentCommit, SequenceTheorems, TLAPS

-----------------------------------------------------------------------------
(* The inductive invariant *)

(* Every request in the network is one its caller's call stands for, and a   *)
(* connection that is still open has its caller waiting at the other end.    *)
RequestsAreCalls ==
    \A m \in requests :
        /\ m.ops = call[m.from].ops /\ m.key = call[m.from].key
        /\ pc[m.from] # "idle"
        /\ m.live => pc[m.from] = "waiting"

LogIsOfCalls ==
    \A i \in 1..Len(log) :
        /\ log[i].ops = call[log[i].from].ops /\ log[i].key = call[log[i].from].key
        /\ pc[log[i].from] # "idle"

(* The key table and the log tell the same story.                            *)
TableIsLog ==
    /\ \A i \in 1..Len(log) :
          log[i].key # NoKey => remembered[log[i].key] = log[i].ops
    /\ \A k \in Keys :
          remembered[k] # Empty =>
              \E i \in 1..Len(log) : log[i].key = k /\ log[i].ops = remembered[k]

KeysAreUnique ==
    \A i, j \in 1..Len(log) : log[i].key # NoKey /\ log[i].key = log[j].key => i = j

IsApplied(c) ==
    \E i \in 1..Len(log) : log[i].ops = call[c].ops /\ log[i].key = call[c].key

(* A waiting caller has at most one answer, and none while its request is    *)
(* still to be executed; a good answer is about a batch that was applied.    *)
AnswersAreOwed ==
    /\ \A a \in answers : pc[a.to] = "waiting" /\ (a.status = "ok" => IsApplied(a.to))
    /\ \A a, b \in answers : a.to = b.to => a = b
    /\ \A a \in answers, m \in requests : m.live => m.from # a.to

WaitingHasBatch == \A c \in Callers : pc[c] \in {"waiting", "failed"} => call[c].ops # Empty

IInv ==
    /\ TypeOK /\ RequestsAreCalls /\ LogIsOfCalls /\ TableIsLog /\ KeysAreUnique
    /\ AnswersAreOwed /\ WaitingHasBatch /\ ReturnedMeansApplied

-----------------------------------------------------------------------------
(* The call of every caller is of the right type from the start.             *)
LEMMA InitType == Init => TypeOK
  BY BoundAssumption, KeyAssumption DEF Init, TypeOK, CallArgs

(* What executing a request does to the answers and to the log.              *)
LEMMA RespondType ==
    ASSUME TypeOK, NEW m \in requests, NEW status \in {"ok", "conflict"}, Respond(m, status)
    PROVE  answers' \subseteq Answer
  BY DEF TypeOK, Respond, Answer, Request

LEMMA ApplyType ==
    ASSUME TypeOK, NEW m \in requests, Apply(m)
    PROVE  /\ log' \in Seq([from : Callers, ops : Batches, key : Keys \cup {NoKey}])
           /\ remembered' \in [Keys -> Batches \cup {Empty}]
           /\ Len(log') = Len(log) + 1
           /\ \A i \in 1..Len(log) : log'[i] = log[i]
           /\ log'[Len(log) + 1] = [from |-> m.from, ops |-> m.ops, key |-> m.key]
  <1>1. m \in Request  BY DEF TypeOK
  <1>2. [from |-> m.from, ops |-> m.ops, key |-> m.key]
            \in [from : Callers, ops : Batches, key : Keys \cup {NoKey}]
    BY <1>1 DEF Request
  <1>3. log \in Seq([from : Callers, ops : Batches, key : Keys \cup {NoKey}])  BY DEF TypeOK
  <1>4. /\ log' \in Seq([from : Callers, ops : Batches, key : Keys \cup {NoKey}])
        /\ Len(log') = Len(log) + 1
        /\ \A i \in 1..Len(log) : log'[i] = log[i]
        /\ log'[Len(log) + 1] = [from |-> m.from, ops |-> m.ops, key |-> m.key]
    BY <1>2, <1>3 DEF Apply
  <1>5. remembered' \in [Keys -> Batches \cup {Empty}]
    BY <1>1 DEF TypeOK, Apply, Request
  <1> QED  BY <1>4, <1>5

LEMMA NextType == TypeOK /\ [Next]_vars => TypeOK'
  <1> SUFFICES ASSUME TypeOK, [Next]_vars PROVE TypeOK'  OBVIOUS
  <1> USE DEF TypeOK
  <1>1. ASSUME NEW c \in Callers, Commit(c)
        PROVE  /\ pc' \in [Callers -> {"idle", "waiting", "failed", "returned", "conflict"}]
               /\ requests' \subseteq Request
    <2>1. call[c].ops # Empty => Wire(c) \in Request
      BY DEF Wire, Request, CallArgs
    <2> QED  BY <1>1, <2>1 DEF Commit
  <1>2. CASE \E c \in Callers : Call(c) \/ Retry(c)
    BY <1>1, <1>2 DEF Call, Retry, daemon
  <1>3. ASSUME NEW c \in Callers, NetworkError(c) PROVE TypeOK'
    <2>1. requests' \subseteq Request  BY <1>3 DEF NetworkError, Request
    <2> QED  BY <1>3, <2>1 DEF NetworkError, daemon
  <1>4. ASSUME NEW a \in answers, Receive(a) PROVE TypeOK'
    BY <1>4 DEF Receive, Answer, daemon
  <1>5. ASSUME NEW m \in requests, Lose(m) PROVE TypeOK'
    BY <1>5 DEF Lose, client, daemon
  <1>6. ASSUME NEW m \in requests, Execute(m) PROVE TypeOK'
    <2>1. CASE Apply(m)
      BY <1>6, <2>1, ApplyType, RespondType DEF Execute, Apply, client
    <2>2. CASE Replay(m)
      BY <1>6, <2>2, RespondType DEF Execute, Replay, client
    <2>3. CASE Refuse(m)
      BY <1>6, <2>3, RespondType DEF Execute, Refuse, client
    <2> QED  BY <1>6, <2>1, <2>2, <2>3 DEF Execute
  <1>7. CASE Crash
    <2>1. crashes' \in 0..MaxCrashes  BY <1>7, BoundAssumption DEF Crash
    <2>2. up' \in BOOLEAN  BY <1>7 DEF Crash
    <2>3. /\ call' = call /\ pc' = pc /\ requests' = requests /\ answers' = {}
          /\ log' = log /\ remembered' = remembered
      BY <1>7 DEF Crash, client
    <2> QED  BY <2>1, <2>2, <2>3
  <1>8. CASE Restart  BY <1>8 DEF Restart, client, network
  <1>9. CASE UNCHANGED vars  BY <1>9 DEF vars, client, network, daemon
  <1> QED  BY <1>2, <1>3, <1>4, <1>5, <1>6, <1>7, <1>8, <1>9 DEF Next

(* The variables keep their types: in particular only batches with an        *)
(* operation ever reach the network, and only they are remembered.           *)
THEOREM TypeCorrect == Spec => []TypeOK
  BY InitType, NextType, PTL DEF Spec

-----------------------------------------------------------------------------
(* The inductive step *)

LEMMA LogEntry ==
    ASSUME TypeOK, NEW i \in 1..Len(log)
    PROVE  /\ log[i] \in [from : Callers, ops : Batches, key : Keys \cup {NoKey}]
           /\ log[i].from \in Callers /\ log[i].ops \in Batches
           /\ log[i].key \in Keys \cup {NoKey}
  <1> DEFINE Entry == [from : Callers, ops : Batches, key : Keys \cup {NoKey}]
  <1>1. log \in Seq(Entry)  BY DEF TypeOK
  <1>2. log[i] \in Entry
    <2> HIDE DEF Entry
    <2> QED  BY <1>1
  <1> QED  BY <1>2

(* A step that leaves the log alone and makes no caller idle again.          *)
LEMMA SameLog ==
    ASSUME TypeOK, LogIsOfCalls, TableIsLog, KeysAreUnique,
           UNCHANGED <<call, log, remembered>>,
           \A c \in Callers : pc[c] # "idle" => pc'[c] # "idle"
    PROVE  LogIsOfCalls' /\ TableIsLog' /\ KeysAreUnique'
  <1>1. LogIsOfCalls'  BY LogEntry DEF LogIsOfCalls
  <1>2. TableIsLog' /\ KeysAreUnique'  BY DEF TableIsLog, KeysAreUnique
  <1> QED  BY <1>1, <1>2

(* Sending: the caller was not waiting, so nobody owes it an answer.         *)
LEMMA CommitStep ==
    ASSUME IInv, NEW c \in Callers, Call(c) \/ Retry(c)
    PROVE  IInv'
  <1> USE DEF IInv
  <1>1. TypeOK'  BY NextType DEF Next
  <1>2. /\ call' = call /\ answers' = answers /\ log' = log /\ remembered' = remembered
        /\ pc[c] \in {"idle", "failed"} /\ Commit(c)
    BY DEF Call, Retry, daemon
  <1>3. pc' = [pc EXCEPT ![c] = pc'[c]] /\ pc'[c] \in {"waiting", "returned"}
    BY <1>2 DEF Commit, TypeOK
  <1>4. \A d \in Callers : d # c => pc'[d] = pc[d]  BY <1>3 DEF TypeOK
  <1>5. \A m \in requests : m \in Request  BY DEF TypeOK
  <1>6. RequestsAreCalls'
    <2> SUFFICES ASSUME NEW m \in requests'
                 PROVE  /\ m.ops = call[m.from].ops /\ m.key = call[m.from].key
                        /\ pc'[m.from] # "idle"
                        /\ m.live => pc'[m.from] = "waiting"
      BY <1>2 DEF RequestsAreCalls
    <2>1. CASE m \in requests
      BY <2>1, <1>2, <1>3, <1>4, <1>5 DEF RequestsAreCalls, Request
    <2>2. CASE m \notin requests
      <3>1. m = Wire(c) /\ pc'[c] = "waiting"
        BY <2>2, <1>2, <1>3 DEF Commit, TypeOK
      <3> QED  BY <3>1 DEF Wire
    <2> QED  BY <2>1, <2>2
  <1>7. LogIsOfCalls' /\ TableIsLog' /\ KeysAreUnique'
    BY <1>2, <1>3, <1>4, SameLog
  <1>8. AnswersAreOwed'
    <2>1. \A a \in answers : a.to # c /\ a.to \in Callers
      BY <1>2 DEF AnswersAreOwed, TypeOK, Answer
    <2>2. \A a \in answers : pc'[a.to] = pc[a.to]  BY <2>1, <1>4
    <2>3. \A m \in requests' : m \in requests \/ m.from = c
      BY <1>2 DEF Commit, Wire
    <2> QED  BY <2>1, <2>2, <2>3, <1>2 DEF AnswersAreOwed, IsApplied
  <1>9. WaitingHasBatch'
    BY <1>2, <1>3, <1>4 DEF Commit, WaitingHasBatch, TypeOK
  <1>10. ReturnedMeansApplied'
    BY <1>2, <1>3, <1>4 DEF Commit, ReturnedMeansApplied, TypeOK
  <1> QED  BY <1>1, <1>6, <1>7, <1>8, <1>9, <1>10

(* Giving an attempt up closes its connection on both sides.                 *)
LEMMA NetworkErrorStep ==
    ASSUME IInv, NEW c \in Callers, NetworkError(c)
    PROVE  IInv'
  <1> USE DEF IInv
  <1>1. TypeOK'  BY NextType DEF Next
  <1>2. /\ call' = call /\ log' = log /\ remembered' = remembered
        /\ pc[c] = "waiting" /\ pc' = [pc EXCEPT ![c] = "failed"]
        /\ answers' = {a \in answers : a.to # c}
    BY DEF NetworkError, daemon
  <1>3. \A d \in Callers : pc'[d] = IF d = c THEN "failed" ELSE pc[d]
    BY <1>2 DEF TypeOK
  <1>4. \A m \in requests' : \E o \in requests :
            /\ m.from = o.from /\ m.ops = o.ops /\ m.key = o.key /\ m.from \in Callers
            /\ m.live => o.live /\ o.from # c
    BY DEF NetworkError, TypeOK, Request
  <1>5. RequestsAreCalls'  BY <1>2, <1>3, <1>4 DEF RequestsAreCalls
  <1>6. LogIsOfCalls' /\ TableIsLog' /\ KeysAreUnique'  BY <1>2, <1>3, SameLog
  <1>7. \A a \in answers' : a \in answers /\ a.to # c /\ a.to \in Callers
    BY <1>2 DEF TypeOK, Answer
  <1>8. AnswersAreOwed'
    BY <1>2, <1>3, <1>4, <1>7 DEF AnswersAreOwed, IsApplied
  <1>9. WaitingHasBatch' /\ ReturnedMeansApplied'
    BY <1>2, <1>3 DEF WaitingHasBatch, ReturnedMeansApplied
  <1> QED  BY <1>1, <1>5, <1>6, <1>8, <1>9

(* Receiving: a good answer is only ever about a batch that was applied.     *)
LEMMA ReceiveStep ==
    ASSUME IInv, NEW a \in answers, Receive(a)
    PROVE  IInv'
  <1> USE DEF IInv
  <1>1. TypeOK'  BY NextType DEF Next
  <1>2. /\ call' = call /\ log' = log /\ remembered' = remembered
        /\ requests' = requests /\ answers' = answers \ {a}
        /\ a.to \in Callers /\ pc[a.to] = "waiting"
    BY DEF Receive, daemon, TypeOK, Answer, AnswersAreOwed
  <1>3. \A d \in Callers : d # a.to => pc'[d] = pc[d]
    BY <1>2 DEF Receive, TypeOK
  <1>4. /\ pc'[a.to] \in {"returned", "conflict"}
        /\ pc'[a.to] = "returned" => a.status = "ok"
    BY <1>2 DEF Receive, TypeOK
  <1>5. \A m \in requests : m.from \in Callers /\ (m.live => m.from # a.to)
    BY DEF TypeOK, Request, AnswersAreOwed
  <1>6. RequestsAreCalls'  BY <1>2, <1>3, <1>4, <1>5 DEF RequestsAreCalls
  <1>7. LogIsOfCalls' /\ TableIsLog' /\ KeysAreUnique'
    BY <1>2, <1>3, <1>4, SameLog
  <1>8. \A b \in answers' : b \in answers /\ b.to # a.to /\ b.to \in Callers
    BY <1>2 DEF AnswersAreOwed, TypeOK, Answer
  <1>9. AnswersAreOwed'
    BY <1>2, <1>3, <1>8 DEF AnswersAreOwed, IsApplied
  <1>10. WaitingHasBatch'
    BY <1>2, <1>3, <1>4 DEF WaitingHasBatch
  <1>11. ReturnedMeansApplied'
    <2>1. a.status = "ok" => IsApplied(a.to)  BY DEF AnswersAreOwed
    <2> QED  BY <2>1, <1>2, <1>3, <1>4 DEF ReturnedMeansApplied, IsApplied
  <1> QED  BY <1>1, <1>6, <1>7, <1>9, <1>10, <1>11

LEMMA LoseStep ==
    ASSUME IInv, NEW m \in requests, Lose(m)
    PROVE  IInv'
  <1> USE DEF IInv
  <1>1. TypeOK'  BY NextType DEF Next
  <1>2. /\ UNCHANGED <<call, pc, answers, log, remembered>>
        /\ requests' \subseteq requests
    BY DEF Lose, client, daemon
  <1>3. RequestsAreCalls'  BY <1>2 DEF RequestsAreCalls
  <1>4. LogIsOfCalls' /\ TableIsLog' /\ KeysAreUnique'  BY <1>2, SameLog
  <1>5. AnswersAreOwed'  BY <1>2 DEF AnswersAreOwed, IsApplied
  <1>6. WaitingHasBatch' /\ ReturnedMeansApplied'
    BY <1>2 DEF WaitingHasBatch, ReturnedMeansApplied
  <1> QED  BY <1>1, <1>3, <1>4, <1>5, <1>6

(* Executing a request whose answer, if it gets one, is a good one only if   *)
(* the batch is in the log afterwards.                                       *)
LEMMA AnswersStep ==
    ASSUME IInv, NEW m \in requests, NEW status \in {"ok", "conflict"},
           Respond(m, status), requests' = requests \ {m}, UNCHANGED <<call, pc>>,
           \A c \in Callers : IsApplied(c) => IsApplied(c)',
           status = "ok" => IsApplied(m.from)'
    PROVE  AnswersAreOwed'
  <1> USE DEF IInv
  <1>1. m \in Request /\ m.from \in Callers  BY DEF TypeOK, Request
  <1>2. \A a \in answers : a \in Answer /\ a.to \in Callers  BY DEF TypeOK, Answer
  <1>3. CASE ~m.live
    <2>1. answers' = answers  BY <1>3 DEF Respond
    <2> QED  BY <1>2, <2>1 DEF AnswersAreOwed
  <1>4. CASE m.live
    <2>1. answers' = answers \cup {[to |-> m.from, status |-> status]}
      BY <1>4 DEF Respond
    <2>2. \A a \in answers : a.to # m.from  BY <1>4 DEF AnswersAreOwed
    <2>3. pc[m.from] = "waiting"  BY <1>4 DEF RequestsAreCalls
    <2>4. \A o \in requests' : o.live => o.from # m.from
      <3> SUFFICES ASSUME NEW o \in requests, o # m, o.live, o.from = m.from PROVE FALSE
        OBVIOUS
      <3>1. o.ops = m.ops /\ o.key = m.key  BY DEF RequestsAreCalls
      <3>2. o \in Request /\ m \in Request  BY DEF TypeOK
      <3>3. o.live = TRUE /\ m.live = TRUE  BY <1>4, <3>2 DEF Request
      <3> QED  BY <3>1, <3>2, <3>3 DEF Request
    <2>5. \A a \in answers' : /\ pc'[a.to] = "waiting"
                              /\ a.status = "ok" => IsApplied(a.to)'
      BY <1>2, <2>1, <2>3 DEF AnswersAreOwed
    <2>6. \A a, b \in answers' : a.to = b.to => a = b
      BY <2>1, <2>2 DEF AnswersAreOwed
    <2>7. \A a \in answers', o \in requests' : o.live => o.from # a.to
      BY <2>1, <2>4 DEF AnswersAreOwed
    <2> QED  BY <2>5, <2>6, <2>7 DEF AnswersAreOwed
  <1> QED  BY <1>3, <1>4

(* A request that is executed leaves the network; the others stay.           *)
LEMMA ExecuteFrame ==
    ASSUME IInv, NEW m \in requests, Execute(m)
    PROVE  /\ TypeOK' /\ UNCHANGED <<call, pc>> /\ requests' = requests \ {m}
           /\ RequestsAreCalls' /\ WaitingHasBatch'
           /\ m.from \in Callers /\ m.ops \in Batches /\ m.key \in Keys \cup {NoKey}
           /\ m.ops = call[m.from].ops /\ m.key = call[m.from].key /\ pc[m.from] # "idle"
  <1> USE DEF IInv
  <1>1. TypeOK'  BY NextType DEF Next
  <1>2. UNCHANGED <<call, pc>> /\ requests' = requests \ {m}
    BY DEF Execute, client
  <1>3. RequestsAreCalls'  BY <1>2 DEF RequestsAreCalls
  <1>4. WaitingHasBatch'  BY <1>2 DEF WaitingHasBatch
  <1>5. m.from \in Callers /\ m.ops \in Batches /\ m.key \in Keys \cup {NoKey}
    BY DEF TypeOK, Request
  <1> QED  BY <1>1, <1>2, <1>3, <1>4, <1>5 DEF RequestsAreCalls

LEMMA ApplyStep ==
    ASSUME IInv, NEW m \in requests, Execute(m), Apply(m)
    PROVE  IInv'
  <1> USE DEF IInv
  <1> DEFINE n == Len(log) + 1
  <1>1. /\ TypeOK' /\ UNCHANGED <<call, pc>> /\ requests' = requests \ {m}
        /\ RequestsAreCalls' /\ WaitingHasBatch'
    BY ExecuteFrame
  <1>2. /\ m.from \in Callers /\ m.ops \in Batches /\ m.key \in Keys \cup {NoKey}
        /\ m.ops = call[m.from].ops /\ m.key = call[m.from].key /\ pc[m.from] # "idle"
    BY ExecuteFrame
  <1>3. /\ Len(log) \in Nat /\ Len(log') = n
        /\ \A i \in 1..Len(log) : log'[i] = log[i]
        /\ log'[n] = [from |-> m.from, ops |-> m.ops, key |-> m.key]
    BY ApplyType DEF TypeOK
  <1>4. log'[n].from = m.from /\ log'[n].ops = m.ops /\ log'[n].key = m.key
    BY <1>3
  <1>5. \A i \in 1..Len(log') : i \in 1..Len(log) \/ i = n
    BY <1>3
  <1>6. \A i \in 1..Len(log) : i \in 1..Len(log') /\ i # n
    BY <1>3
  <1>7. n \in 1..Len(log')  BY <1>3
  <1>8. LogIsOfCalls'
    BY <1>1, <1>2, <1>3, <1>4, <1>5 DEF LogIsOfCalls
  <1>9. m.key # NoKey => \A i \in 1..Len(log) : log[i].key # m.key
    <2> SUFFICES ASSUME m.key # NoKey, NEW i \in 1..Len(log), log[i].key = m.key
                 PROVE FALSE
      OBVIOUS
    <2>1. remembered[m.key] = log[i].ops  BY DEF TableIsLog
    <2>2. remembered[m.key] = Empty  BY DEF Apply
    <2>3. log[i].ops \in Batches  BY LogEntry
    <2> QED  BY <2>1, <2>2, <2>3, BatchAssumption
  <1>10. KeysAreUnique'
    BY <1>3, <1>4, <1>5, <1>9 DEF KeysAreUnique
  <1>11. TableIsLog'
    <2>1. CASE m.key = NoKey
      <3>1. remembered' = remembered  BY <2>1 DEF Apply
      <3> QED  BY <2>1, <3>1, <1>3, <1>4, <1>5, <1>6 DEF TableIsLog
    <2>2. CASE m.key # NoKey
      <3>1. \A k \in Keys : remembered'[k] = IF k = m.key THEN m.ops ELSE remembered[k]
        BY <2>2, <1>2 DEF Apply, TypeOK
      <3>2. ASSUME NEW i \in 1..Len(log'), log'[i].key # NoKey
            PROVE  remembered'[log'[i].key] = log'[i].ops
        <4>1. CASE i \in 1..Len(log)
          <5>1. log[i].key \in Keys  BY <4>1, <3>2, <1>3, LogEntry
          <5> QED  BY <5>1, <4>1, <3>1, <3>2, <2>2, <1>3, <1>9 DEF TableIsLog
        <4>2. CASE i = n  BY <4>2, <3>1, <2>2, <1>2, <1>4
        <4> QED  BY <4>1, <4>2, <1>5
      <3>3. ASSUME NEW k \in Keys, remembered'[k] # Empty
            PROVE  \E i \in 1..Len(log') : log'[i].key = k /\ log'[i].ops = remembered'[k]
        BY <3>1, <3>3, <1>3, <1>4, <1>6, <1>7 DEF TableIsLog
      <3> QED  BY <3>2, <3>3 DEF TableIsLog
    <2> QED  BY <2>1, <2>2
  <1>12. \A c \in Callers : IsApplied(c) => IsApplied(c)'
    BY <1>1, <1>3, <1>6 DEF IsApplied
  <1>13. IsApplied(m.from)'
    BY <1>1, <1>2, <1>4, <1>7 DEF IsApplied
  <1>14. AnswersAreOwed'
    BY <1>1, <1>12, <1>13, AnswersStep DEF Apply
  <1>15. ReturnedMeansApplied'
    BY <1>1, <1>12 DEF ReturnedMeansApplied, IsApplied
  <1> QED  BY <1>1, <1>8, <1>10, <1>11, <1>14, <1>15

(* A known key: the answer is good only if the batch is the one remembered.  *)
LEMMA AnsweredFromTable ==
    ASSUME IInv, NEW m \in requests, Execute(m), Replay(m) \/ Refuse(m)
    PROVE  IInv'
  <1> USE DEF IInv
  <1>1. /\ TypeOK' /\ UNCHANGED <<call, pc>> /\ requests' = requests \ {m}
        /\ RequestsAreCalls' /\ WaitingHasBatch'
    BY ExecuteFrame
  <1>2. /\ m.from \in Callers /\ m.key \in Keys \cup {NoKey}
        /\ m.ops = call[m.from].ops /\ m.key = call[m.from].key
    BY ExecuteFrame
  <1>3. log' = log /\ remembered' = remembered  BY DEF Replay, Refuse
  <1>4. LogIsOfCalls' /\ TableIsLog' /\ KeysAreUnique'  BY <1>1, <1>3, SameLog
  <1>5. \A c \in Callers : IsApplied(c)' <=> IsApplied(c)
    BY <1>1, <1>3 DEF IsApplied
  <1>6. AnswersAreOwed'
    <2>1. CASE Refuse(m)
      BY <2>1, <1>1, <1>5, AnswersStep DEF Refuse
    <2>2. CASE Replay(m)
      <3> DEFINE status == IF remembered[m.key] = m.ops THEN "ok" ELSE "conflict"
      <3>1. status = "ok" => IsApplied(m.from)'
        BY <2>2, <1>2, <1>5 DEF Replay, TableIsLog, IsApplied
      <3>2. status \in {"ok", "conflict"} /\ Respond(m, status)
        BY <2>2 DEF Replay
      <3> QED  BY <3>1, <3>2, <1>1, <1>5, AnswersStep
    <2> QED  BY <2>1, <2>2
  <1>7. ReturnedMeansApplied'
    BY <1>1, <1>3 DEF ReturnedMeansApplied
  <1> QED  BY <1>1, <1>4, <1>6, <1>7

(* Crashes and restarts touch nothing durable; a crash only forgets answers. *)
LEMMA DaemonStep ==
    ASSUME IInv, Crash \/ Restart \/ UNCHANGED vars
    PROVE  IInv'
  <1> USE DEF IInv
  <1>1. TypeOK'  BY NextType DEF Next
  <1>2. /\ UNCHANGED <<call, pc, requests, log, remembered>>
        /\ answers' \subseteq answers
    BY DEF Crash, Restart, vars, client, network, daemon
  <1>3. RequestsAreCalls'  BY <1>2 DEF RequestsAreCalls
  <1>4. LogIsOfCalls' /\ TableIsLog' /\ KeysAreUnique'  BY <1>2, SameLog
  <1>5. AnswersAreOwed'  BY <1>2 DEF AnswersAreOwed, IsApplied
  <1>6. WaitingHasBatch' /\ ReturnedMeansApplied'
    BY <1>2 DEF WaitingHasBatch, ReturnedMeansApplied
  <1> QED  BY <1>1, <1>3, <1>4, <1>5, <1>6

LEMMA InitInv == Init => IInv
  <1> SUFFICES ASSUME Init PROVE IInv  OBVIOUS
  <1>1. TypeOK  BY InitType
  <1>2. Len(log) = 0 /\ requests = {} /\ answers = {}  BY DEF Init
  <1>3. \A c \in Callers : pc[c] = "idle"  BY DEF Init
  <1>4. \A k \in Keys : remembered[k] = Empty  BY DEF Init
  <1> QED
    BY <1>1, <1>2, <1>3, <1>4 DEF IInv, RequestsAreCalls, LogIsOfCalls, TableIsLog,
       KeysAreUnique, AnswersAreOwed, WaitingHasBatch, ReturnedMeansApplied

LEMMA NextInv == IInv /\ [Next]_vars => IInv'
  <1> SUFFICES ASSUME IInv, [Next]_vars PROVE IInv'  OBVIOUS
  <1>1. CASE \E c \in Callers : Call(c) \/ Retry(c)  BY <1>1, CommitStep
  <1>2. CASE \E c \in Callers : NetworkError(c)  BY <1>2, NetworkErrorStep
  <1>3. CASE \E a \in answers : Receive(a)  BY <1>3, ReceiveStep
  <1>4. CASE \E m \in requests : Lose(m)  BY <1>4, LoseStep
  <1>5. ASSUME NEW m \in requests, Execute(m) PROVE IInv'
    <2>1. Apply(m) \/ Replay(m) \/ Refuse(m)  BY <1>5 DEF Execute
    <2> QED  BY <1>5, <2>1, ApplyStep, AnsweredFromTable
  <1>6. CASE Crash \/ Restart \/ UNCHANGED vars  BY <1>6, DaemonStep
  <1> QED  BY <1>1, <1>2, <1>3, <1>4, <1>5, <1>6 DEF Next

LEMMA Inductive == Spec => []IInv
  BY InitInv, NextInv, PTL DEF Spec

-----------------------------------------------------------------------------
(* The theorems *)

(* One batch at most takes effect under a key (commit(), and every key a     *)
(* caller passes to it).                                                     *)
THEOREM AtMostOnce == Spec => []AtMostOncePerKey
  <1>1. IInv => AtMostOncePerKey
    <2> SUFFICES ASSUME IInv, NEW i \in 1..Len(log), NEW j \in 1..Len(log),
                        Keyed(log[i].from),
                        call[log[i].from].key = call[log[j].from].key
                 PROVE  i = j
      BY DEF AtMostOncePerKey
    <2>1. log[i].key # NoKey /\ log[i].key = log[j].key
      BY DEF IInv, LogIsOfCalls, Keyed
    <2> QED  BY <2>1 DEF IInv, KeysAreUnique
  <1> QED  BY <1>1, Inductive, PTL

(* A call that returned was applied and stays so.                            *)
THEOREM ReturnedIsApplied == Spec => []ReturnedMeansApplied
  BY Inductive, PTL DEF IInv

-----------------------------------------------------------------------------
(* The refinement *)

LEMMA LedgerType ==
    ASSUME TypeOK
    PROVE  /\ Ledger \in Seq(CallArgs) /\ Len(Ledger) = Len(log) /\ Len(log) \in Nat
           /\ \A i \in 1..Len(log) :
                 Ledger[i] = [ops |-> log[i].ops, key |-> call[log[i].from].key]
  <1>1. Len(log) \in Nat  BY DEF TypeOK
  <1>2. \A i \in 1..Len(log) :
            [ops |-> log[i].ops, key |-> call[log[i].from].key] \in CallArgs
    BY LogEntry DEF TypeOK, CallArgs
  <1>3. Ledger \in [1..Len(log) -> CallArgs]  BY <1>2 DEF Ledger
  <1> QED  BY <1>1, <1>3 DEF Ledger

(* A step that leaves calls and log alone leaves the ledger alone.           *)
LEMMA SameLedger ==
    ASSUME UNCHANGED <<call, log>> PROVE Ledger' = Ledger
  BY DEF Ledger

LEMMA SameResult ==
    ASSUME \A c \in Callers : Result'[c] = Result[c] PROVE Result' = Result
  <1>1. Result' = [c \in Callers |-> Result'[c]]  BY DEF Result
  <1>2. Result = [c \in Callers |-> Result[c]]  BY DEF Result
  <1> QED  BY <1>1, <1>2

LEMMA ResultOf ==
    \A c \in Callers :
        /\ Result[c] = IF pc[c] \in {"waiting", "failed"} THEN "pending" ELSE pc[c]
        /\ Result'[c] = IF pc'[c] \in {"waiting", "failed"} THEN "pending" ELSE pc'[c]
  BY DEF Result

(* One caller's result changes and the others' do not.                       *)
LEMMA ResultStep ==
    ASSUME NEW c \in Callers, NEW r, Result'[c] = r,
           \A d \in Callers : d # c => Result'[d] = Result[d]
    PROVE  Result' = [Result EXCEPT ![c] = r]
  <1>1. Result' = [d \in Callers |-> Result'[d]]  BY DEF Result
  <1>2. DOMAIN Result = Callers  BY DEF Result
  <1> QED  BY <1>1, <1>2

LEMMA RefinesInit == Init => Abs!Init
  <1> SUFFICES ASSUME Init PROVE Abs!Init  OBVIOUS
  <1>1. TypeOK  BY InitType
  <1>2. call \in [Callers -> Abs!Intents]  BY <1>1 DEF TypeOK, CallArgs, Abs!Intents
  <1>3. Result = [c \in Callers |-> "idle"]  BY DEF Init, Result
  <1>4. Ledger = << >>
    <2>1. Len(Ledger) = 0 /\ Ledger \in Seq(CallArgs)  BY <1>1, LedgerType DEF Init
    <2> QED  BY <2>1, EmptySeq
  <1> QED  BY <1>2, <1>3, <1>4 DEF Abs!Init

LEMMA RefinesCommit ==
    ASSUME IInv, NEW c \in Callers, Call(c) \/ Retry(c)
    PROVE  Abs!Submit(c) \/ Abs!Return(c) \/ UNCHANGED Abs!vars
  <1>1. /\ call' = call /\ log' = log /\ Commit(c)
        /\ pc[c] = "idle" \/ (pc[c] = "failed" /\ call[c].ops # Empty)
    BY DEF IInv, WaitingHasBatch, Call, Retry, daemon
  <1>2. \A d \in Callers : d # c => Result'[d] = Result[d]
    BY <1>1, ResultOf DEF Commit, IInv, TypeOK
  <1>3. Ledger' = Ledger  BY <1>1, SameLedger
  <1>4. CASE call[c].ops = Empty
    <2>1. pc[c] = "idle" /\ pc'[c] = "returned"  BY <1>1, <1>4 DEF Commit, IInv, TypeOK
    <2>2. Result' = [Result EXCEPT ![c] = "returned"]
      BY <2>1, <1>2, ResultOf, ResultStep
    <2>3. Result[c] = "idle"  BY <2>1, ResultOf
    <2> QED  BY <2>2, <2>3, <1>1, <1>3, <1>4 DEF Abs!Return
  <1>5. CASE call[c].ops # Empty
    <2>1. pc'[c] = "waiting"  BY <1>1, <1>5 DEF Commit, IInv, TypeOK
    <2>2. Result'[c] = "pending"  BY <2>1, ResultOf
    <2>3. CASE pc[c] = "idle"
      <3>1. Result[c] = "idle"  BY <2>3, ResultOf
      <3>2. Result' = [Result EXCEPT ![c] = "pending"]  BY <2>2, <1>2, ResultStep
      <3> QED  BY <3>1, <3>2, <1>1, <1>3 DEF Abs!Submit
    <2>4. CASE pc[c] = "failed"
      <3>1. Result[c] = "pending"  BY <2>4, ResultOf
      <3>2. Result' = Result  BY <3>1, <2>2, <1>2, SameResult
      <3> QED  BY <3>2, <1>1, <1>3 DEF Abs!vars
    <2> QED  BY <1>1, <2>3, <2>4
  <1> QED  BY <1>4, <1>5

LEMMA RefinesReceive ==
    ASSUME IInv, NEW a \in answers, Receive(a)
    PROVE  Abs!Return(a.to) \/ Abs!Conflict(a.to)
  <1>1. /\ a.to \in Callers /\ a.status \in {"ok", "conflict"} /\ pc[a.to] = "waiting"
        /\ a.status = "ok" => IsApplied(a.to)
    BY DEF IInv, TypeOK, Answer, AnswersAreOwed
  <1>2. call' = call /\ log' = log  BY DEF Receive, daemon
  <1>3. \A d \in Callers : d # a.to => Result'[d] = Result[d]
    BY <1>1, ResultOf DEF Receive, IInv, TypeOK
  <1>4. pc'[a.to] = IF a.status = "ok" THEN "returned" ELSE "conflict"
    BY <1>1 DEF Receive, IInv, TypeOK
  <1>5. Result[a.to] = "pending" /\ Ledger' = Ledger  BY <1>1, <1>2, ResultOf, SameLedger
  <1>6. CASE a.status = "ok"
    <2>1. Result' = [Result EXCEPT ![a.to] = "returned"]
      BY <1>1, <1>3, <1>4, <1>6, ResultOf, ResultStep
    <2>2. Abs!Applied(call[a.to])
      <3>1. PICK i \in 1..Len(log) : log[i].ops = call[a.to].ops /\ log[i].key = call[a.to].key
        BY <1>1, <1>6 DEF IsApplied
      <3>2. Ledger[i] = [ops |-> log[i].ops, key |-> call[log[i].from].key]
        BY LedgerType DEF IInv
      <3>3. log[i].key = call[log[i].from].key  BY DEF IInv, LogIsOfCalls
      <3>4. call[a.to] = [ops |-> call[a.to].ops, key |-> call[a.to].key]
        BY <1>1 DEF IInv, TypeOK, CallArgs
      <3>5. i \in DOMAIN Ledger /\ Ledger[i] = call[a.to]
        BY <3>1, <3>2, <3>3, <3>4 DEF Ledger
      <3> QED  BY <3>5 DEF Abs!Applied
    <2> QED  BY <2>1, <2>2, <1>2, <1>5 DEF Abs!Return
  <1>7. CASE a.status = "conflict"
    <2>1. Result' = [Result EXCEPT ![a.to] = "conflict"]
      BY <1>1, <1>3, <1>4, <1>7, ResultOf, ResultStep
    <2> QED  BY <2>1, <1>2, <1>5 DEF Abs!Conflict
  <1> QED  BY <1>1, <1>6, <1>7

LEMMA RefinesApply ==
    ASSUME IInv, NEW m \in requests, Execute(m), Apply(m)
    PROVE  Abs!Apply(m.from)
  <1> DEFINE c == m.from
  <1>1. /\ TypeOK' /\ UNCHANGED <<call, pc>>
        /\ c \in Callers /\ m.ops \in Batches /\ m.key \in Keys \cup {NoKey}
        /\ m.ops = call[c].ops /\ m.key = call[c].key /\ pc[c] # "idle"
    BY ExecuteFrame
  <1>2. Result[c] # "idle" /\ Result' = Result
    BY <1>1, ResultOf DEF Result
  <1>3. call[c].ops # Empty  BY <1>1, BatchAssumption
  <1>4. call[c].key # NoKey => ~Abs!KeyUsed(call[c].key)
    <2> SUFFICES ASSUME call[c].key # NoKey, NEW i \in DOMAIN Ledger,
                        Ledger[i].key = call[c].key
                 PROVE  FALSE
      BY DEF Abs!KeyUsed
    <2>1. i \in 1..Len(log)  BY DEF Ledger
    <2>2. log[i].key = call[c].key
      <3>1. Ledger[i] = [ops |-> log[i].ops, key |-> call[log[i].from].key]
        BY <2>1 DEF Ledger
      <3>2. Ledger[i].key = call[log[i].from].key  BY <3>1
      <3> QED  BY <2>1, <3>2 DEF IInv, LogIsOfCalls
    <2>3. remembered[m.key] = log[i].ops  BY <2>1, <2>2, <1>1 DEF IInv, TableIsLog
    <2>4. remembered[m.key] = Empty  BY <1>1 DEF Apply
    <2>5. log[i].ops \in Batches  BY <2>1, LogEntry DEF IInv
    <2> QED  BY <2>3, <2>4, <2>5, BatchAssumption
  <1>5. Ledger' = Append(Ledger, call[c])
    <2>1. /\ Ledger \in Seq(CallArgs) /\ Len(Ledger) = Len(log) /\ Len(log) \in Nat
          /\ \A i \in 1..Len(log) :
                Ledger[i] = [ops |-> log[i].ops, key |-> call[log[i].from].key]
      BY LedgerType DEF IInv
    <2>2. /\ Ledger' \in Seq(CallArgs) /\ Len(Ledger') = Len(log')
          /\ \A i \in 1..Len(log') :
                Ledger'[i] = [ops |-> log'[i].ops, key |-> call[log'[i].from].key]
      <3>1. (TypeOK => /\ Ledger \in Seq(CallArgs) /\ Len(Ledger) = Len(log)
                      /\ \A i \in 1..Len(log) :
                            Ledger[i] = [ops |-> log[i].ops, key |-> call[log[i].from].key])'
        BY LedgerType, PTL
      <3> QED  BY <3>1, <1>1
    <2>3. /\ Len(log') = Len(log) + 1
          /\ \A i \in 1..Len(log) : log'[i] = log[i]
          /\ log'[Len(log) + 1] = [from |-> c, ops |-> m.ops, key |-> m.key]
      BY ApplyType DEF IInv
    <2>4. call[c] \in CallArgs /\ call[c] = [ops |-> call[c].ops, key |-> call[c].key]
      BY <1>1 DEF IInv, TypeOK, CallArgs
    <2>5. /\ Append(Ledger, call[c]) \in Seq(CallArgs)
          /\ Len(Append(Ledger, call[c])) = Len(log) + 1
          /\ \A i \in 1..Len(log) : Append(Ledger, call[c])[i] = Ledger[i]
          /\ Append(Ledger, call[c])[Len(log) + 1] = call[c]
      BY <2>1, <2>4, AppendProperties
    <2>6. \A i \in 1..Len(Ledger') : Ledger'[i] = Append(Ledger, call[c])[i]
      <3> SUFFICES ASSUME NEW i \in 1..(Len(log) + 1)
                   PROVE  Ledger'[i] = Append(Ledger, call[c])[i]
        BY <2>2, <2>3
      <3>1. CASE i \in 1..Len(log)
        <4>1. i \in 1..Len(log')  BY <2>1, <2>3
        <4>2. log'[i] = log[i]  BY <3>1, <2>3
        <4>3. Ledger'[i] = Ledger[i]
          BY <3>1, <4>1, <4>2, <2>1, <2>2, <1>1
        <4>4. Append(Ledger, call[c])[i] = Ledger[i]  BY <3>1, <2>5
        <4> QED  BY <4>3, <4>4
      <3>2. CASE i = Len(log) + 1
        BY <3>2, <2>2, <2>3, <2>4, <2>5, <1>1
      <3> QED  BY <3>1, <3>2, <2>1
    <2> QED  BY <2>2, <2>3, <2>5, <2>6, SeqEqual
  <1> QED  BY <1>1, <1>2, <1>3, <1>4, <1>5 DEF Abs!Apply

LEMMA RefinesNext == IInv /\ [Next]_vars => [Abs!Next]_(Abs!vars)
  <1> SUFFICES ASSUME IInv, [Next]_vars PROVE Abs!Next \/ UNCHANGED Abs!vars
    OBVIOUS
  <1>1. ASSUME UNCHANGED <<call, pc, log>> PROVE UNCHANGED Abs!vars
    BY <1>1, SameLedger DEF Abs!vars, Result
  <1>2. ASSUME NEW c \in Callers, Call(c) \/ Retry(c)
        PROVE  Abs!Next \/ UNCHANGED Abs!vars
    BY <1>2, RefinesCommit DEF Abs!Next
  <1>3. ASSUME NEW c \in Callers, NetworkError(c) PROVE UNCHANGED Abs!vars
    <2>1. call' = call /\ log' = log  BY <1>3 DEF NetworkError, daemon
    <2>2. Result' = Result
      BY <1>3, ResultOf, SameResult DEF NetworkError, IInv, TypeOK
    <2> QED  BY <2>1, <2>2, SameLedger DEF Abs!vars
  <1>4. ASSUME NEW a \in answers, Receive(a) PROVE Abs!Next
    <2>1. a.to \in Callers  BY DEF IInv, TypeOK, Answer
    <2> QED  BY <1>4, <2>1, RefinesReceive DEF Abs!Next
  <1>5. ASSUME NEW m \in requests, Lose(m) PROVE UNCHANGED Abs!vars
    BY <1>1, <1>5 DEF Lose, client, daemon
  <1>6. ASSUME NEW m \in requests, Execute(m) PROVE Abs!Next \/ UNCHANGED Abs!vars
    <2>1. CASE Apply(m)
      <3>1. m.from \in Callers  BY DEF IInv, TypeOK, Request
      <3> QED  BY <1>6, <2>1, <3>1, RefinesApply DEF Abs!Next
    <2>2. CASE Replay(m) \/ Refuse(m)
      BY <1>1, <1>6, <2>2 DEF Execute, Replay, Refuse, client
    <2> QED  BY <1>6, <2>1, <2>2 DEF Execute
  <1>7. CASE Crash \/ Restart \/ UNCHANGED vars
    BY <1>1, <1>7 DEF Crash, Restart, vars, client, network, daemon
  <1> QED  BY <1>2, <1>3, <1>4, <1>5, <1>6, <1>7 DEF Next

(* Client, network and daemon together implement the commit the caller is    *)
(* promised: every step is one of the abstract commit or none at all.        *)
THEOREM Refinement == Spec => ImplementsExactlyOnce
  BY RefinesInit, RefinesNext, Inductive, PTL
     DEF Spec, ImplementsExactlyOnce, Abs!Spec
=============================================================================
