----------------------------- MODULE HttpRequest ----------------------------
(* MongrelDBClient::Impl::request: one blocking HTTP request through a       *)
(* libcurl easy handle, its header list, the write callback that buffers the *)
(* reply under a cap, and the mapping of the reply to an exception; health() *)
(* on top of it, set_timeout() and the constructors that choose the          *)
(* credentials.                                                              *)
(*                                                                           *)
(* pc is the statement request() is at.  The heap is counted: handles is the *)
(* number of easy handles libcurl has created and not cleaned up, nodes the  *)
(* number of header nodes it has allocated and not freed, headers the number *)
(* of nodes reachable through the local pointer of that name (0: nullptr).   *)
(* Every allocation may fail.  curl_easy_setopt copies the options that are  *)
(* strings, and request() does not look at what it returns: such an option   *)
(* may be refused for want of memory and the call goes on without it.        *)
(* libcurl and the server are external: they choose the chunks, the result   *)
(* code and the reply.                                                       *)
EXTENDS JsonFields

CONSTANTS
    MaxResponseBytes,  \* kMaxResponseBytes
    ChunkSizes,        \* sizes libcurl may hand to the write callback
    Replies,           \* [code, text, body]: status, raw text, what it parses as
    Nested,            \* raw text of an object -> the body it is
    NotFoundTexts,     \* the message texts that start with "not found:"
    Timeouts,          \* arguments of set_timeout
    MaxLost            \* bound: no new call once more nodes than this are lost

ASSUME CapAssumption == MaxResponseBytes \in Nat /\ ChunkSizes \subseteq Nat
ASSUME BoundAssumption == MaxLost \in Nat /\ Timeouts \subseteq Int

VARIABLES
    auth,         \* "none", "token" or "basic": which credentials Impl holds
    timeout,      \* Impl::timeout_seconds
    pc,           \* the statement request() is at; "idle" between calls
    call,         \* [name, body]: health() or another call, and whether it has a body
    handles, headers, nodes,
    attached,     \* the list behind CURLOPT_HTTPHEADER is this call's list
    credentials,  \* the credentials the prepared request carries
    refused,      \* the string options libcurl had no memory to copy
    appendFailed, \* some curl_slist_append on a non-empty list has failed
    response,     \* bytes in the response buffer
    sent,         \* bytes of the body that reached libcurl
    rc,           \* the CURLcode of curl_easy_perform
    reply,        \* the reply that was received
    outcome       \* how the last call ended: [what, text, opIndex]

heap == <<handles, headers, nodes, attached, credentials, refused, appendFailed>>
transfer == <<response, sent, rc, reply>>
vars == <<auth, timeout, pc, call, heap, transfer, outcome>>

Calls == [name : {"health", "other"}, body : BOOLEAN]
NoReply == [code |-> 0, text |-> "", body |-> NoBody]
NoOutcome == [what |-> "none", text |-> "", opIndex |-> {}]
Ended(what, text) == [what |-> what, text |-> text, opIndex |-> {}]

-----------------------------------------------------------------------------
(* From the reply to the outcome                                             *)

(* The envelope: the text of a top-level "message"; the raw body when        *)
(* get_string says there is none.                                            *)
Message(r) ==
    LET m == GetString(r.body, "message", "") IN
    IF m.ret THEN m.out ELSE r.text

OpIndex(r) ==
    LET oi == GetNumber(r.body, "op_index", -1) IN
    IF oi.ret /\ oi.out >= 0 THEN {oi.out} ELSE {}

Text(message, default) == IF message = "" THEN default ELSE message

ErrorFor(r) ==
    LET message == Message(r) IN
    IF message \in NotFoundTexts THEN Ended("NotFound", message)
    ELSE CASE r.code \in {401, 403} -> Ended("Auth", Text(message, "authentication failed"))
           [] r.code = 404 -> Ended("NotFound", Text(message, "resource not found"))
           [] r.code = 409 -> [what |-> "Conflict",
                               text |-> Text(message, "constraint violation"),
                               opIndex |-> OpIndex(r)]
           [] OTHER -> Ended("Query", Text(message, "server error"))

(* A verdict that looks at the status code before the result code.           *)
MVerdict(result, buffered, r) ==
    IF r.code \in 300..599 THEN ErrorFor(r)
    ELSE IF result # "OK" THEN Ended("Query", "network error")
    ELSE Ended("returned", r.text)

Verdict(result, buffered, r) ==
    IF result \in {"FILESIZE_EXCEEDED", "WRITE_ERROR"} \/ buffered > MaxResponseBytes
    THEN Ended("Query", "response body exceeds")
    ELSE IF result # "OK" THEN Ended("Query", "network error")
    ELSE IF r.code \in 200..299 THEN Ended("returned", r.text)
    ELSE ErrorFor(r)

(* health() turns a QueryException into false and lets any other through.    *)
Seen(c, o) ==
    IF c.name # "health" THEN o
    ELSE CASE o.what = "returned" -> Ended("true", "")
           [] o.what = "Query" -> Ended("false", "")
           [] OTHER -> o

-----------------------------------------------------------------------------
(* The call                                                                  *)

(* A client constructed without credentials, with a token, with BasicAuth.   *)
Init ==
    /\ auth \in {"none", "token", "basic"} /\ timeout = 30
    /\ pc = "idle" /\ call = [name |-> "other", body |-> FALSE]
    /\ handles = 0 /\ headers = 0 /\ nodes = 0
    /\ attached = FALSE /\ credentials = "none" /\ refused = {} /\ appendFailed = FALSE
    /\ response = 0 /\ sent = 0 /\ rc = "OK" /\ reply = NoReply
    /\ outcome = NoOutcome

(* set_timeout that stores what it is given.                                 *)
MSetTimeout(seconds) ==
    /\ pc = "idle"
    /\ timeout' = seconds
    /\ UNCHANGED <<auth, pc, call, heap, transfer, outcome>>

SetTimeout(seconds) ==
    /\ pc = "idle"
    /\ timeout' = IF seconds > 0 THEN seconds ELSE 30
    /\ UNCHANGED <<auth, pc, call, heap, transfer, outcome>>

(* A call: the URL is put together, nothing is allocated from libcurl yet.   *)
Begin(c) ==
    /\ pc = "idle" /\ nodes <= MaxLost
    /\ c.name = "health" => ~c.body
    /\ call' = c /\ pc' = "init" /\ outcome' = NoOutcome
    /\ response' = 0 /\ sent' = 0 /\ rc' = "OK" /\ reply' = NoReply
    /\ credentials' = "none" /\ refused' = {}
    /\ UNCHANGED <<auth, timeout, handles, headers, nodes, attached, appendFailed>>

EasyInit ==
    /\ pc = "init"
    /\ \/ handles' = handles + 1 /\ pc' = "accept" /\ UNCHANGED outcome
       \/ /\ pc' = "idle"
          /\ outcome' = Seen(call, Ended("Query", "curl_easy_init failed"))
          /\ UNCHANGED handles
    /\ UNCHANGED <<auth, timeout, call, headers, nodes, attached, credentials,
                   refused, appendFailed, transfer>>

(* headers = curl_slist_append(headers, ...); if (!headers) throw bad_alloc. *)
(* A failed append returns NULL and leaves the list it was given allocated,  *)
(* so the assignment drops the only pointer to it.                           *)
SlistAppend(next) ==
    \/ headers' = headers + 1 /\ nodes' = nodes + 1 /\ pc' = next /\ UNCHANGED appendFailed
    \/ /\ headers' = 0 /\ UNCHANGED nodes /\ pc' = "unwind"
       /\ appendFailed' = (appendFailed \/ headers > 0)

AppendAccept ==
    /\ pc = "accept"
    /\ SlistAppend(IF call.body THEN "content" ELSE "setopt")
    /\ UNCHANGED <<auth, timeout, call, handles, attached, credentials, refused,
                   transfer, outcome>>

AppendContentType ==
    /\ pc = "content"
    /\ SlistAppend("setopt")
    /\ UNCHANGED <<auth, timeout, call, handles, attached, credentials, refused,
                   transfer, outcome>>

(* The options, the header list among them, and the body if there is one.    *)
(* The URL and the method are copied, and either copy may be refused; the    *)
(* list, the body and the numbers are not copied.                            *)
SetOptions ==
    /\ pc = "setopt"
    /\ \E lost \in SUBSET {"url", "method"} : refused' = lost
    /\ attached' = TRUE /\ pc' = "auth"
    /\ UNCHANGED <<auth, timeout, call, handles, headers, nodes, credentials,
                   appendFailed, transfer, outcome>>

(* An AddAuth that goes on without the header it could not append.           *)
MAddAuth ==
    /\ pc = "auth"
    /\ \/ /\ auth = "token"
          /\ \/ headers' = headers + 1 /\ nodes' = nodes + 1 /\ credentials' = "token"
             \/ UNCHANGED <<headers, nodes, credentials>>
       \/ auth # "token" /\ credentials' = auth /\ UNCHANGED <<headers, nodes>>
    /\ pc' = "perform"
    /\ UNCHANGED <<auth, timeout, call, handles, attached, refused, appendFailed,
                   transfer, outcome>>

(* The bearer token is one more header, which request() checks; the basic    *)
(* credentials are an option, which it does not; the string either is put    *)
(* together in may fail to allocate.                                         *)
AddAuth ==
    /\ pc = "auth"
    /\ \/ /\ auth = "token"
          /\ SlistAppend("perform")
          /\ credentials' = IF pc' = "perform" THEN "token" ELSE credentials
          /\ UNCHANGED refused
       \/ /\ auth # "token"
          /\ pc' = "perform" /\ credentials' = auth
          /\ UNCHANGED <<headers, nodes, refused, appendFailed>>
       \/ /\ auth = "basic"
          /\ pc' = "perform" /\ refused' = refused \cup {"userpwd"}
          /\ UNCHANGED <<headers, nodes, credentials, appendFailed>>
       \/ /\ auth # "none"
          /\ pc' = "unwind"
          /\ UNCHANGED <<headers, nodes, credentials, refused, appendFailed>>
    /\ UNCHANGED <<auth, timeout, call, handles, attached, transfer, outcome>>

(* An Unwind that rethrows before the handle is cleaned up.                  *)
MUnwind ==
    /\ pc = "unwind"
    /\ nodes' = nodes - headers /\ headers' = 0 /\ attached' = FALSE
    /\ pc' = "idle" /\ outcome' = Ended("bad_alloc", "")
    /\ UNCHANGED <<auth, timeout, call, handles, credentials, refused, appendFailed, transfer>>

(* An Unwind that forgets the header list.                                   *)
MUnwindList ==
    /\ pc = "unwind"
    /\ headers' = 0 /\ handles' = handles - 1 /\ attached' = FALSE
    /\ pc' = "idle" /\ outcome' = Ended("bad_alloc", "")
    /\ UNCHANGED <<auth, timeout, call, nodes, credentials, refused, appendFailed, transfer>>

(* catch (...) : free the list, clean the handle up, throw again.            *)
Unwind ==
    /\ pc = "unwind"
    /\ nodes' = nodes - headers /\ headers' = 0
    /\ handles' = handles - 1 /\ attached' = FALSE
    /\ pc' = "idle" /\ outcome' = Ended("bad_alloc", "")
    /\ UNCHANGED <<auth, timeout, call, credentials, refused, appendFailed, transfer>>

-----------------------------------------------------------------------------
(* curl_easy_perform: libcurl and the server                                 *)

(* A transfer that ends early: the status line may have come through, the    *)
(* body did not, or not all of it.                                           *)
Interrupted ==
    {NoReply} \cup {[code |-> r.code, text |-> "", body |-> NoBody] : r \in Replies}

(* A request that reaches the network: libcurl has been told its address.    *)
Performing == pc = "perform" /\ "url" \notin refused

EndTransfer(result, r) == rc' = result /\ reply' = r /\ pc' = "release"

(* A handle without an address is refused before anything is sent.           *)
NoUrl ==
    /\ pc = "perform" /\ "url" \in refused
    /\ EndTransfer("URL_MALFORMAT", NoReply)
    /\ UNCHANGED <<auth, timeout, call, heap, outcome, response, sent>>

(* A callback without the cap.                                               *)
MWriteChunk(n) ==
    /\ Performing
    /\ sent' = sent + n /\ response' = response + n
    /\ UNCHANGED <<auth, timeout, call, heap, outcome, pc, rc, reply>>

(* write_cb: a chunk that would exceed the cap, or that cannot be appended   *)
(* for want of memory, is refused and ends the transfer.                     *)
WriteChunk(n) ==
    /\ Performing
    /\ sent' = sent + n
    /\ \/ /\ response <= MaxResponseBytes /\ n <= MaxResponseBytes - response
          /\ response' = response + n
          /\ UNCHANGED <<pc, rc, reply>>
       \/ /\ UNCHANGED response
          /\ \E r \in Interrupted : EndTransfer("WRITE_ERROR", r)
    /\ UNCHANGED <<auth, timeout, call, heap, outcome>>

(* The reply is complete.                                                    *)
Complete(r) ==
    /\ Performing
    /\ (r.text = "") <=> (sent = 0)
    /\ EndTransfer("OK", r)
    /\ UNCHANGED <<auth, timeout, call, heap, outcome, response, sent>>

(* The connection is refused or breaks, or libcurl itself finds that the     *)
(* announced length exceeds CURLOPT_MAXFILESIZE_LARGE.                       *)
Break(result) ==
    /\ Performing
    /\ result = "COULDNT_CONNECT" => sent = 0
    /\ \E r \in Interrupted :
          /\ result = "COULDNT_CONNECT" => r = NoReply
          /\ EndTransfer(result, r)
    /\ UNCHANGED <<auth, timeout, call, heap, outcome, response, sent>>

(* CURLOPT_TIMEOUT; 0 would mean no timeout at all.                          *)
TimeOut ==
    /\ Performing /\ timeout > 0
    /\ \E r \in Interrupted : EndTransfer("OPERATION_TIMEDOUT", r)
    /\ UNCHANGED <<auth, timeout, call, heap, outcome, response, sent>>

Transfer ==
    \/ \E n \in ChunkSizes : WriteChunk(n)
    \/ \E r \in Replies : Complete(r)
    \/ \E e \in {"COULDNT_CONNECT", "PARTIAL_FILE", "FILESIZE_EXCEEDED"} : Break(e)
    \/ TimeOut \/ NoUrl

(* curl_slist_free_all and curl_easy_cleanup.                                *)
Release ==
    /\ pc = "release"
    /\ nodes' = nodes - headers /\ headers' = 0
    /\ handles' = handles - 1 /\ attached' = FALSE
    /\ pc' = "classify"
    /\ UNCHANGED <<auth, timeout, call, credentials, refused, appendFailed, transfer, outcome>>

Classify ==
    /\ pc = "classify"
    /\ outcome' = Seen(call, Verdict(rc, response, reply))
    /\ pc' = "idle"
    /\ UNCHANGED <<auth, timeout, call, heap, transfer>>

-----------------------------------------------------------------------------
ClientStep == EasyInit \/ AppendAccept \/ AppendContentType \/ SetOptions \/ AddAuth
              \/ Unwind \/ Release \/ Classify

Next ==
    \/ \E seconds \in Timeouts : SetTimeout(seconds)
    \/ \E c \in Calls : Begin(c)
    \/ EasyInit \/ AppendAccept \/ AppendContentType \/ SetOptions \/ AddAuth
    \/ Unwind \/ Transfer \/ Release \/ Classify

Spec == Init /\ [][Next]_vars

(* The calling thread runs its own statements, and libcurl honours a timeout *)
(* it was given and gives up at once on a handle without an address; nothing *)
(* is assumed of the server or the network.                                  *)
FairSpec == Spec /\ WF_vars(ClientStep) /\ WF_vars(TimeOut) /\ WF_vars(NoUrl)

-----------------------------------------------------------------------------
(* What makes a request correct                                              *)

PCs == {"idle", "init", "accept", "content", "setopt", "auth", "unwind", "perform",
        "release", "classify"}
Whats == {"none", "returned", "true", "false", "Auth", "NotFound", "Conflict", "Query",
          "bad_alloc"}

(* The members of Impl and the locals of request(); the timeout is never 0,  *)
(* which libcurl would take for "none", nor negative (set_timeout).          *)
TypeOK ==
    /\ auth \in {"none", "token", "basic"}
    /\ timeout \in Nat \ {0}
    /\ pc \in PCs /\ call \in Calls
    /\ handles \in {0, 1} /\ headers \in 0..3 /\ nodes \in Nat
    /\ attached \in BOOLEAN /\ appendFailed \in BOOLEAN
    /\ credentials \in {"none", "token", "basic"}
    /\ refused \subseteq {"url", "method", "userpwd"}
    /\ response \in Nat /\ sent \in Nat
    /\ rc \in {"OK", "WRITE_ERROR", "COULDNT_CONNECT", "PARTIAL_FILE",
               "FILESIZE_EXCEEDED", "OPERATION_TIMEDOUT", "URL_MALFORMAT"}
    /\ outcome.what \in Whats

(* However a call ends - returned, thrown from the setup, thrown from the    *)
(* verdict - its easy handle has been cleaned up, and none is ever cleaned   *)
(* up twice (request(), both its exits and its catch block).                 *)
HandleReleased ==
    handles = IF pc \in {"idle", "init", "classify"} THEN 0 ELSE 1

(* What request() does check it never goes on without: a transfer starts     *)
(* with every header of the call, the bearer token among them, on the list   *)
(* curl was given, and basic credentials are missing only where libcurl      *)
(* refused that option - what request() allocates for them itself ends the   *)
(* call when it fails (request(), setup block).  That the call goes on       *)
(* without a refused option is against docs/auth.md, which has the same      *)
(* Authorization header attached "to every request".                         *)
RequestIsComplete ==
    pc = "perform" =>
        /\ attached
        /\ headers = 1 + (IF call.body THEN 1 ELSE 0) + (IF auth = "token" THEN 1 ELSE 0)
        /\ credentials = IF "userpwd" \in refused THEN "none" ELSE auth
        /\ "userpwd" \in refused => auth = "basic"

(* Between calls every header node is freed again, unless an append on a     *)
(* non-empty list has failed at some point.                                  *)
LeaksOnlyOnFailedAppend == pc = "idle" /\ ~appendFailed => nodes = 0

(* The buffered reply never exceeds the cap, whatever the server sends and   *)
(* in whatever pieces (write_cb).                                            *)
ResponseCapped == response <= MaxResponseBytes

(* A call that returns normally - or reports health - was answered with a    *)
(* 2xx and holds every byte of the body; one that throws the server's        *)
(* verdict read all of that reply too: a refused credential, a missing table *)
(* or a conflict is never inferred from a transfer that broke off.           *)
VerdictNeedsWholeReply ==
    /\ outcome.what \in {"returned", "true"} =>
          rc = "OK" /\ reply.code \in 200..299 /\ response = sent
    /\ outcome.what \in {"Auth", "NotFound", "Conflict"} =>
          rc = "OK" /\ reply \in Replies /\ response = sent

(* Every call ends: whatever the server does, or fails to do, the calling    *)
(* thread gets its result or its exception (CURLOPT_TIMEOUT, set_timeout).   *)
EveryCallEnds == (pc # "idle") ~> (pc = "idle")
=============================================================================
