------------------------- MODULE HttpRequest_proofs -------------------------
(* Proofs about HttpRequest: its types, the release of the easy handle, the  *)
(* header list, the completeness of what is sent and the cap on what is      *)
(* received, for every cap, chunk size, set of replies and timeout.          *)
EXTENDS HttpRequest, TLAPS

-----------------------------------------------------------------------------
(* The inductive invariant *)

OwnHeaders == 1 + (IF call.body THEN 1 ELSE 0)

(* What the header list looks like at each statement of request().           *)
ListShape ==
    /\ pc \in {"idle", "init", "accept", "classify"} => headers = 0
    /\ pc = "content" => headers = 1 /\ call.body
    /\ pc \in {"setopt", "auth"} => headers = OwnHeaders
    /\ pc = "auth" => attached /\ credentials = "none" /\ "userpwd" \notin refused
    /\ pc \in {"init", "accept", "content", "setopt"} => credentials = "none"
    /\ pc = "unwind" => headers <= 2

(* Every node that is allocated is on the list, but for those an append that *)
(* failed has left behind.                                                   *)
NodesAreListed == headers <= nodes /\ (~appendFailed => nodes = headers)

(* A transfer that ended well has delivered every byte, and a reply.         *)
TransferIsWhole ==
    /\ rc = "OK" => response = sent
    /\ pc \in {"init", "accept", "content", "setopt", "auth", "perform"} => rc = "OK"
    /\ pc \in {"release", "classify"} /\ rc = "OK" => reply \in Replies
    /\ pc # "idle" => outcome = NoOutcome

IInv ==
    /\ TypeOK /\ HandleReleased /\ ListShape /\ NodesAreListed /\ RequestIsComplete
    /\ ResponseCapped /\ TransferIsWhole /\ VerdictNeedsWholeReply

-----------------------------------------------------------------------------
(* What the verdict on a reply can be *)

LEMMA ErrorClasses ==
    ASSUME NEW r
    PROVE  ErrorFor(r).what \in {"Auth", "NotFound", "Conflict", "Query"}
  BY DEF ErrorFor, Ended

LEMMA VerdictClasses ==
    ASSUME NEW result, NEW buffered, NEW r
    PROVE  LET v == Verdict(result, buffered, r) IN
           /\ v.what \in {"returned", "Auth", "NotFound", "Conflict", "Query"}
           /\ v.what = "returned" => result = "OK" /\ r.code \in 200..299
           /\ v.what \in {"Auth", "NotFound", "Conflict"} => result = "OK"
  BY ErrorClasses DEF Verdict, Ended

LEMMA SeenClasses ==
    ASSUME NEW c, NEW o
    PROVE  /\ Seen(c, o).what \in {"true", "false", o.what}
           /\ Seen(c, o).what = "true" => o.what \in {"returned", "true"}
           /\ o.what = "Query" => Seen(c, o).what \in {"Query", "false"}
  BY DEF Seen, Ended

-----------------------------------------------------------------------------
LEMMA InitInv == Init => IInv
  <1> SUFFICES ASSUME Init PROVE IInv  OBVIOUS
  <1> USE DEF Init
  <1>1. call \in Calls  BY DEF Calls
  <1>2. outcome.what = "none"  BY DEF NoOutcome
  <1>0. attached \in BOOLEAN /\ appendFailed \in BOOLEAN  BY Zenon
  <1>3. TypeOK
    <2> HIDE DEF Init
    <2>1. /\ auth \in {"none", "token", "basic"} /\ timeout = 30 /\ pc = "idle"
          /\ handles = 0 /\ headers = 0 /\ nodes = 0 /\ credentials = "none" /\ refused = {}
          /\ response = 0 /\ sent = 0 /\ rc = "OK"
      BY Zenon DEF Init
    <2> QED  BY <1>0, <1>1, <1>2, <2>1 DEF TypeOK, PCs, Whats
  <1>4. HandleReleased /\ ListShape /\ NodesAreListed /\ RequestIsComplete
    BY DEF HandleReleased, ListShape, NodesAreListed, RequestIsComplete
  <1>5. ResponseCapped  BY CapAssumption DEF ResponseCapped
  <1>6. TransferIsWhole /\ VerdictNeedsWholeReply
    BY <1>2 DEF TransferIsWhole, VerdictNeedsWholeReply
  <1> QED  BY <1>3, <1>4, <1>5, <1>6 DEF IInv

(* Between calls: set_timeout, and the start of the next one.                *)
LEMMA IdleStep ==
    ASSUME IInv,
           (\E seconds \in Timeouts : SetTimeout(seconds)) \/ (\E c \in Calls : Begin(c))
    PROVE  IInv'
  <1> USE DEF IInv
  <1>1. ASSUME NEW seconds \in Timeouts, SetTimeout(seconds) PROVE IInv'
    <2>1. timeout' \in Nat \ {0}  BY <1>1, BoundAssumption DEF SetTimeout
    <2>2. UNCHANGED <<auth, pc, call, handles, headers, nodes, attached, credentials,
                      refused, appendFailed, response, sent, rc, reply, outcome>>
      BY <1>1 DEF SetTimeout, heap, transfer
    <2> QED
      BY <2>1, <2>2 DEF TypeOK, HandleReleased, ListShape, OwnHeaders, NodesAreListed,
         RequestIsComplete, ResponseCapped, TransferIsWhole, VerdictNeedsWholeReply
  <1>2. ASSUME NEW c \in Calls, Begin(c) PROVE IInv'
    <2>1. outcome' = NoOutcome /\ outcome'.what = "none"  BY <1>2 DEF Begin, NoOutcome
    <2>2. TypeOK'  BY <1>2, <2>1 DEF TypeOK, Begin, PCs, Whats
    <2>3. HandleReleased' /\ ListShape' /\ NodesAreListed' /\ RequestIsComplete'
      BY <1>2 DEF Begin, HandleReleased, ListShape, NodesAreListed, RequestIsComplete
    <2>4. ResponseCapped'  BY <1>2, CapAssumption DEF Begin, ResponseCapped
    <2>5. TransferIsWhole' /\ VerdictNeedsWholeReply'
      BY <1>2, <2>1 DEF Begin, TransferIsWhole, VerdictNeedsWholeReply
    <2> QED  BY <2>2, <2>3, <2>4, <2>5
  <1> QED  BY <1>1, <1>2

LEMMA EasyInitStep == ASSUME IInv, EasyInit PROVE IInv'
  <1> USE DEF IInv
  <1>1. /\ pc = "init" /\ headers = 0 /\ handles = 0
        /\ UNCHANGED <<auth, timeout, call, headers, nodes, attached, credentials,
                       refused, appendFailed, response, sent, rc, reply>>
    BY DEF EasyInit, transfer, ListShape, HandleReleased
  <1>2. CASE handles' = handles + 1 /\ pc' = "accept" /\ UNCHANGED outcome
    BY <1>1, <1>2
       DEF TypeOK, PCs, HandleReleased, ListShape, NodesAreListed, RequestIsComplete,
           ResponseCapped, TransferIsWhole, VerdictNeedsWholeReply
  <1>3. CASE /\ pc' = "idle" /\ handles' = handles
             /\ outcome' = Seen(call, Ended("Query", "curl_easy_init failed"))
    <2>1. outcome'.what \in {"Query", "false"}
      BY <1>3, SeenClasses DEF Ended
    <2>2. TypeOK'  BY <1>1, <1>3, <2>1 DEF TypeOK, PCs, Whats
    <2>3. HandleReleased' /\ ListShape' /\ NodesAreListed' /\ RequestIsComplete'
      BY <1>1, <1>3 DEF HandleReleased, ListShape, NodesAreListed, RequestIsComplete
    <2>4. ResponseCapped' /\ TransferIsWhole' /\ VerdictNeedsWholeReply'
      BY <1>1, <1>3, <2>1 DEF ResponseCapped, TransferIsWhole, VerdictNeedsWholeReply
    <2> QED  BY <2>2, <2>3, <2>4
  <1> QED  BY <1>2, <1>3 DEF EasyInit

(* The header list, from its first node to the transfer.                     *)
LEMMA SetupStep ==
    ASSUME IInv, AppendAccept \/ AppendContentType \/ SetOptions \/ AddAuth
    PROVE  IInv'
  <1> USE DEF IInv
  <1>1. /\ UNCHANGED <<auth, timeout, call, handles, response, sent, rc, reply, outcome>>
        /\ pc \in {"accept", "content", "setopt", "auth"}
        /\ pc' \in {"content", "setopt", "auth", "perform", "unwind"}
    BY DEF AppendAccept, AppendContentType, SetOptions, AddAuth, SlistAppend, transfer
  <1>2. call.body \in BOOLEAN  BY DEF TypeOK, Calls
  <1>3. ASSUME NEW next \in {"content", "setopt", "perform"}, SlistAppend(next)
        PROVE  /\ NodesAreListed' /\ nodes' \in Nat /\ appendFailed' \in BOOLEAN
               /\ \/ pc' = next /\ headers' = headers + 1
                  \/ pc' = "unwind" /\ headers' = 0
    <2>1. appendFailed' \in BOOLEAN  BY <1>3 DEF SlistAppend, TypeOK
    <2>2. headers \in Nat /\ nodes \in Nat  BY DEF TypeOK
    <2>3. CASE headers' = headers + 1 /\ nodes' = nodes + 1 /\ pc' = next
               /\ appendFailed' = appendFailed
      BY <2>1, <2>2, <2>3 DEF NodesAreListed
    <2>4. CASE /\ headers' = 0 /\ nodes' = nodes /\ pc' = "unwind"
               /\ appendFailed' = (appendFailed \/ headers > 0)
      <3>1. ~appendFailed' => ~appendFailed /\ ~(headers > 0)  BY <2>4, Zenon
      <3>2. ~appendFailed' => nodes' = headers'
        <4> SUFFICES ASSUME ~appendFailed' PROVE nodes' = headers'  OBVIOUS
        <4>1. nodes = headers  BY <3>1, Zenon DEF NodesAreListed
        <4>2. headers = 0  BY <2>2, <3>1
        <4> QED  BY <2>4, <4>1, <4>2
      <3> QED  BY <2>1, <2>2, <2>4, <3>2 DEF NodesAreListed
    <2> QED  BY <1>3, <2>3, <2>4 DEF SlistAppend
  <1>4. /\ NodesAreListed' /\ nodes' \in Nat /\ appendFailed' \in BOOLEAN
        /\ headers' \in 0..3 /\ attached' \in BOOLEAN
        /\ credentials' \in {"none", "token", "basic"}
        /\ refused' \subseteq {"url", "method", "userpwd"}
        /\ ListShape' /\ RequestIsComplete'
    <2>1. CASE AppendAccept
      <3>1. UNCHANGED <<attached, credentials, refused>>  BY <2>1 DEF AppendAccept
      <3> QED
        BY <2>1, <3>1, <1>1, <1>2, <1>3
           DEF AppendAccept, ListShape, OwnHeaders, RequestIsComplete, TypeOK
    <2>2. CASE AppendContentType
      <3>1. UNCHANGED <<attached, credentials, refused>>  BY <2>2 DEF AppendContentType
      <3> QED
        BY <2>2, <3>1, <1>1, <1>2, <1>3
           DEF AppendContentType, ListShape, OwnHeaders, RequestIsComplete, TypeOK
    <2>3. CASE SetOptions
      BY <2>3, <1>1, <1>2
         DEF SetOptions, ListShape, OwnHeaders, RequestIsComplete, TypeOK, NodesAreListed
    <2>4. CASE AddAuth
      <3>1. attached' = attached /\ attached /\ headers = OwnHeaders /\ pc = "auth"
        BY <2>4 DEF AddAuth, ListShape
      <3>2. CASE /\ auth = "token" /\ SlistAppend("perform")
                 /\ credentials' = IF pc' = "perform" THEN "token" ELSE credentials
                 /\ refused' = refused
        <4>1. /\ NodesAreListed' /\ nodes' \in Nat /\ appendFailed' \in BOOLEAN
              /\ \/ pc' = "perform" /\ headers' = headers + 1
                 \/ pc' = "unwind" /\ headers' = 0
          BY <3>2, <1>3
        <4>2. credentials = "none" /\ "userpwd" \notin refused
          BY <3>1 DEF ListShape
        <4>3. refused' \subseteq {"url", "method", "userpwd"}  BY <3>2 DEF TypeOK
        <4>4. headers' \in 0..3 /\ ListShape'
          BY <3>1, <4>1, <1>2 DEF ListShape, OwnHeaders
        <4>5. RequestIsComplete'
          BY <3>1, <3>2, <4>1, <4>2, <1>1, <1>2 DEF OwnHeaders, RequestIsComplete
        <4>6. attached' \in BOOLEAN /\ credentials' \in {"none", "token", "basic"}
          BY <3>1, <3>2 DEF TypeOK
        <4> QED  BY <4>1, <4>3, <4>4, <4>5, <4>6
      <3>3. CASE /\ auth # "token" /\ pc' = "perform" /\ credentials' = auth
                 /\ UNCHANGED <<headers, nodes, refused, appendFailed>>
        BY <3>1, <3>3, <1>1, <1>2
           DEF ListShape, OwnHeaders, RequestIsComplete, TypeOK, NodesAreListed
      <3>4. CASE /\ pc' = "unwind"
                 /\ UNCHANGED <<headers, nodes, credentials, refused, appendFailed>>
        BY <3>1, <3>4, <1>1, <1>2
           DEF ListShape, OwnHeaders, RequestIsComplete, TypeOK, NodesAreListed
      <3>5. CASE /\ auth = "basic" /\ pc' = "perform" /\ refused' = refused \cup {"userpwd"}
                 /\ UNCHANGED <<headers, nodes, credentials, appendFailed>>
        BY <3>1, <3>5, <1>1, <1>2
           DEF ListShape, OwnHeaders, RequestIsComplete, TypeOK, NodesAreListed
      <3>6. \/ /\ auth = "token" /\ SlistAppend("perform")
               /\ credentials' = IF pc' = "perform" THEN "token" ELSE credentials
               /\ refused' = refused
            \/ /\ auth # "token" /\ pc' = "perform" /\ credentials' = auth
               /\ UNCHANGED <<headers, nodes, refused, appendFailed>>
            \/ /\ auth = "basic" /\ pc' = "perform" /\ refused' = refused \cup {"userpwd"}
               /\ UNCHANGED <<headers, nodes, credentials, appendFailed>>
            \/ /\ pc' = "unwind"
               /\ UNCHANGED <<headers, nodes, credentials, refused, appendFailed>>
        BY <2>4, Zenon DEF AddAuth
      <3> QED  BY <3>2, <3>3, <3>4, <3>5, <3>6
    <2> QED  BY <2>1, <2>2, <2>3, <2>4
  <1>5. TypeOK'  BY <1>1, <1>4 DEF TypeOK, PCs
  <1>6. HandleReleased' /\ ResponseCapped' /\ TransferIsWhole' /\ VerdictNeedsWholeReply'
    BY <1>1 DEF HandleReleased, ResponseCapped, TransferIsWhole, VerdictNeedsWholeReply
  <1> QED  BY <1>4, <1>5, <1>6

(* The catch block.                                                          *)
LEMMA UnwindStep == ASSUME IInv, Unwind PROVE IInv'
  <1> USE DEF IInv
  <1>1. /\ UNCHANGED <<auth, timeout, call, credentials, refused, appendFailed, response, sent,
                       rc, reply>>
        /\ pc = "unwind" /\ pc' = "idle" /\ outcome'.what = "bad_alloc"
    BY DEF Unwind, Ended, transfer
  <1>2. handles' = 0 /\ headers' = 0 /\ attached' = FALSE /\ nodes' = nodes - headers
    <2>1. handles = 1  BY <1>1 DEF HandleReleased
    <2>2. /\ handles' = handles - 1 /\ headers' = 0 /\ attached' = FALSE
          /\ nodes' = nodes - headers
      BY Zenon DEF Unwind
    <2>3. handles' = 0  BY <2>1, <2>2
    <2> QED  BY <2>2, <2>3, Zenon
  <1>3. nodes' \in Nat /\ NodesAreListed'
    <2>1. headers \in Nat /\ nodes \in Nat  BY DEF TypeOK
    <2> QED  BY <1>1, <1>2, <2>1 DEF NodesAreListed
  <1>4. TypeOK'
    <2>1. attached' \in BOOLEAN  BY <1>2, Zenon
    <2> QED  BY <1>1, <1>2, <1>3, <2>1 DEF TypeOK, PCs, Whats
  <1>5. HandleReleased' /\ ListShape' /\ RequestIsComplete'
    BY <1>1, <1>2 DEF HandleReleased, ListShape, RequestIsComplete
  <1>6. ResponseCapped' /\ TransferIsWhole' /\ VerdictNeedsWholeReply'
    BY <1>1 DEF ResponseCapped, TransferIsWhole, VerdictNeedsWholeReply
  <1> QED  BY <1>3, <1>4, <1>5, <1>6

(* The transfer: the cap, and a reply only when it is whole.                 *)
LEMMA TransferStep == ASSUME IInv, Transfer PROVE IInv'
  <1> USE DEF IInv
  <1>1. /\ UNCHANGED <<auth, timeout, call, handles, headers, nodes, attached, credentials,
                       refused, appendFailed, outcome>>
        /\ pc = "perform" /\ pc' \in {"perform", "release"}
    BY DEF Transfer, WriteChunk, Complete, Break, TimeOut, NoUrl, Performing, EndTransfer, heap
  <1> DEFINE Codes == {"OK", "WRITE_ERROR", "COULDNT_CONNECT", "PARTIAL_FILE",
                       "FILESIZE_EXCEEDED", "OPERATION_TIMEDOUT", "URL_MALFORMAT"}
             Whole == /\ rc' \in Codes
                      /\ response' \in Nat /\ sent' \in Nat /\ ResponseCapped'
                      /\ rc' = "OK" => response' = sent'
                      /\ pc' = "perform" => rc' = "OK"
                      /\ pc' = "release" /\ rc' = "OK" => reply' \in Replies
  <1>2. ASSUME NEW n \in ChunkSizes, WriteChunk(n) PROVE Whole
    <2>1. n \in Nat /\ MaxResponseBytes \in Nat  BY CapAssumption
    <2>2. sent' \in Nat  BY <2>1, <1>2 DEF WriteChunk, TypeOK
    <2>3. CASE /\ n <= MaxResponseBytes - response /\ response' = response + n
               /\ UNCHANGED <<pc, rc, reply>>
      <3>1. sent' = sent + n  BY <1>2 DEF WriteChunk
      <3> QED
        BY <1>1, <2>1, <2>2, <2>3, <3>1 DEF TypeOK, ResponseCapped, TransferIsWhole
    <2>4. CASE response' = response /\ rc' = "WRITE_ERROR" /\ pc' = "release"
      BY <2>2, <2>4 DEF TypeOK, ResponseCapped
    <2> QED  BY <1>2, <2>3, <2>4 DEF WriteChunk, EndTransfer
  <1>3. ASSUME NEW r \in Replies, Complete(r) PROVE Whole
    <2>1. rc' = "OK" /\ reply' = r /\ response' = response /\ sent' = sent
      BY <1>3 DEF Complete, EndTransfer
    <2>2. response = sent
      BY <1>3 DEF Complete, Performing, TransferIsWhole
    <2> QED  BY <2>1, <2>2 DEF TypeOK, ResponseCapped
  <1>4. ASSUME NEW e \in {"COULDNT_CONNECT", "PARTIAL_FILE", "FILESIZE_EXCEEDED"}, Break(e)
        PROVE  Whole
    <2>1. rc' = e /\ pc' = "release" /\ response' = response /\ sent' = sent
      BY <1>4 DEF Break, EndTransfer
    <2> QED  BY <2>1, <1>4 DEF TypeOK, ResponseCapped
  <1>5. ASSUME TimeOut PROVE Whole
    <2>1. rc' = "OPERATION_TIMEDOUT" /\ pc' = "release" /\ response' = response /\ sent' = sent
      BY <1>5 DEF TimeOut, EndTransfer
    <2> QED  BY <2>1 DEF TypeOK, ResponseCapped
  <1>10. ASSUME NoUrl PROVE Whole
    <2>1. rc' = "URL_MALFORMAT" /\ pc' = "release" /\ response' = response /\ sent' = sent
      BY <1>10 DEF NoUrl, EndTransfer
    <2> QED  BY <2>1 DEF TypeOK, ResponseCapped
  <1>6. Whole  BY <1>2, <1>3, <1>4, <1>5, <1>10 DEF Transfer
  <1>0. outcome.what = "none"
    <2>1. outcome = NoOutcome  BY <1>1 DEF TransferIsWhole
    <2> QED  BY <2>1 DEF NoOutcome
  <1>7. TypeOK'  BY <1>1, <1>6 DEF TypeOK, PCs
  <1>8. /\ HandleReleased' /\ ListShape' /\ NodesAreListed' /\ RequestIsComplete'
    BY <1>1 DEF HandleReleased, ListShape, NodesAreListed, RequestIsComplete
  <1>9. TransferIsWhole' /\ VerdictNeedsWholeReply'
    <2>1. outcome' = NoOutcome  BY <1>1 DEF TransferIsWhole
    <2>2. rc' = "OK" => response' = sent'  BY <1>6
    <2>3. pc' \in {"release", "classify"} /\ rc' = "OK" => reply' \in Replies
      BY <1>1, <1>6
    <2>4. pc' = "perform" => rc' = "OK"  BY <1>6
    <2> HIDE DEF Whole
    <2>5. TransferIsWhole'  BY <1>1, <2>1, <2>2, <2>3, <2>4 DEF TransferIsWhole
    <2>6. VerdictNeedsWholeReply'
      BY <1>1, <1>0 DEF VerdictNeedsWholeReply
    <2> QED  BY <2>5, <2>6
  <1> QED  BY <1>6, <1>7, <1>8, <1>9
(* curl_slist_free_all and curl_easy_cleanup, after the transfer.            *)
LEMMA ReleaseStep == ASSUME IInv, Release PROVE IInv'
  <1> USE DEF IInv
  <1>1. /\ UNCHANGED <<auth, timeout, call, credentials, refused, appendFailed, response, sent,
                       rc, reply, outcome>>
        /\ pc = "release" /\ pc' = "classify"
    BY DEF Release, transfer
  <1>2. handles' = 0 /\ headers' = 0 /\ attached' = FALSE /\ nodes' = nodes - headers
    <2>1. handles = 1  BY <1>1 DEF HandleReleased
    <2>2. /\ handles' = handles - 1 /\ headers' = 0 /\ attached' = FALSE
          /\ nodes' = nodes - headers
      BY Zenon DEF Release
    <2>3. handles' = 0  BY <2>1, <2>2
    <2> QED  BY <2>2, <2>3, Zenon
  <1>3. nodes' \in Nat /\ NodesAreListed'
    <2>1. headers \in Nat /\ nodes \in Nat  BY DEF TypeOK
    <2> QED  BY <1>1, <1>2, <2>1 DEF NodesAreListed
  <1>4. TypeOK'
    <2>1. attached' \in BOOLEAN  BY <1>2, Zenon
    <2> QED  BY <1>1, <1>2, <1>3, <2>1 DEF TypeOK, PCs
  <1>5. HandleReleased' /\ ListShape' /\ RequestIsComplete'
    BY <1>1, <1>2 DEF HandleReleased, ListShape, RequestIsComplete
  <1>6. ResponseCapped' /\ TransferIsWhole' /\ VerdictNeedsWholeReply'
    BY <1>1 DEF ResponseCapped, TransferIsWhole, VerdictNeedsWholeReply
  <1> QED  BY <1>3, <1>4, <1>5, <1>6

(* The verdict: a 2xx or the server's own error only of a whole reply.       *)
LEMMA ClassifyStep == ASSUME IInv, Classify PROVE IInv'
  <1> USE DEF IInv
  <1>1. /\ UNCHANGED <<auth, timeout, call, handles, headers, nodes, attached, credentials,
                       refused, appendFailed, response, sent, rc, reply>>
        /\ pc = "classify" /\ pc' = "idle"
    BY DEF Classify, heap, transfer
  <1> DEFINE v == Verdict(rc, response, reply)
  <1>2. /\ outcome'.what \in {"true", "false", v.what}
        /\ outcome'.what = "true" => v.what \in {"returned", "true"}
    BY SeenClasses DEF Classify
  <1>3. /\ v.what \in {"returned", "Auth", "NotFound", "Conflict", "Query"}
        /\ v.what = "returned" => rc = "OK" /\ reply.code \in 200..299
        /\ v.what \in {"Auth", "NotFound", "Conflict"} => rc = "OK"
    BY VerdictClasses
  <1>4. rc = "OK" => response = sent /\ reply \in Replies
    BY <1>1 DEF TransferIsWhole
  <1> HIDE DEF v
  <1>5. outcome'.what \in Whats  BY <1>2, <1>3 DEF Whats
  <1>6. VerdictNeedsWholeReply'
    BY <1>1, <1>2, <1>3, <1>4 DEF VerdictNeedsWholeReply
  <1> QED
    BY <1>1, <1>4, <1>5, <1>6
       DEF TypeOK, PCs, HandleReleased, ListShape, NodesAreListed, RequestIsComplete,
           ResponseCapped, TransferIsWhole

LEMMA StutterStep == ASSUME IInv, UNCHANGED vars PROVE IInv'
  BY DEF vars, heap, transfer, IInv, TypeOK, HandleReleased, ListShape, OwnHeaders,
         NodesAreListed, RequestIsComplete, ResponseCapped, TransferIsWhole,
         VerdictNeedsWholeReply

LEMMA NextInv == IInv /\ [Next]_vars => IInv'
  BY IdleStep, EasyInitStep, SetupStep, UnwindStep, TransferStep, ReleaseStep,
     ClassifyStep, StutterStep
     DEF Next

LEMMA Inductive == Spec => []IInv
  BY InitInv, NextInv, PTL DEF Spec

-----------------------------------------------------------------------------
(* Theorems                                                                  *)

(* Every member of Impl and every local of request() keeps its type; the     *)
(* timeout libcurl is given is never 0, so no transfer is without one.       *)
THEOREM TypeCorrect == Spec => []TypeOK
  <1>1. IInv => TypeOK  BY DEF IInv
  <1> QED  BY <1>1, Inductive, PTL

(* The easy handle is cleaned up exactly once on every way out of request(). *)
THEOREM HandleIsReleased == Spec => []HandleReleased
  <1>1. IInv => HandleReleased  BY DEF IInv
  <1> QED  BY <1>1, Inductive, PTL

(* A transfer only starts with every header, the bearer token among them; a  *)
(* basic client's credentials are missing only where libcurl refused the     *)
(* option, and of no other client.                                           *)
THEOREM RequestsAreComplete == Spec => []RequestIsComplete
  <1>1. IInv => RequestIsComplete  BY DEF IInv
  <1> QED  BY <1>1, Inductive, PTL

(* Header nodes are lost only by an append that failed on a non-empty list.  *)
THEOREM OnlyFailedAppendsLeak == Spec => []LeaksOnlyOnFailedAppend
  <1>1. IInv => LeaksOnlyOnFailedAppend
    BY DEF IInv, ListShape, NodesAreListed, LeaksOnlyOnFailedAppend
  <1> QED  BY <1>1, Inductive, PTL

(* The response buffer stays under the cap, for every cap and every cutting  *)
(* of a body into chunks.                                                    *)
THEOREM ResponseIsCapped == Spec => []ResponseCapped
  <1>1. IInv => ResponseCapped  BY DEF IInv
  <1> QED  BY <1>1, Inductive, PTL

(* A result, or an exception that reports the server's verdict, needs a      *)
(* reply that was received whole.                                            *)
THEOREM VerdictsAreFounded == Spec => []VerdictNeedsWholeReply
  <1>1. IInv => VerdictNeedsWholeReply  BY DEF IInv
  <1> QED  BY <1>1, Inductive, PTL
=============================================================================
