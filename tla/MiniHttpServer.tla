--------------------------- MODULE MiniHttpServer ---------------------------
(* The HTTP server of the wire-shape tests: a test thread that starts it,    *)
(* sets its response, takes what it captured and stops it, and a thread that *)
(* accepts one connection after the other.  The threads share a mutex, an    *)
(* atomic flag, and the descriptor of the listening socket, which nothing    *)
(* guards.                                                                   *)
(*                                                                           *)
(* Clients are libcurl calls under a timeout; each makes one request, which  *)
(* arrives in pieces.  The pieces up to HeadSize hold the request line and   *)
(* the headers, the rest, up to Size[c], the body Content-Length announces.  *)
(* The kernel is external: a listening socket lives as long as a descriptor  *)
(* or a blocked accept refers to it, and shutdown() wakes that accept.       *)
EXTENDS Naturals, Sequences

CONSTANTS
    Clients, Nobody,
    HeadSize,           \* pieces of the request line and the headers
    Size,           \* pieces of each client's request
    Statuses,       \* the responses a test sets: status and body
    BodyOf,
    FirstStatus,    \* of the default response
    NoReply

ASSUME ClientAssumption == Nobody \notin Clients
ASSUME SizeAssumption == HeadSize \in Nat \ {0} /\ Size \in [Clients -> Nat \ 0..(HeadSize - 1)]
ASSUME ResponseAssumption ==
    FirstStatus \in Statuses /\ NoReply \notin [status : Statuses, body : {BodyOf[s] : s \in Statuses}]

VARIABLES
    owner,      \* the test thread: the statement of start(), stop(), set_response()
    stopFlag,   \* stop_
    listenFd,   \* listen_fd_, "sock" or "none" for -1
    fdOpen,     \* the descriptor is open in the process
    listener,   \* the kernel's socket: "none", "listening", "shut"
    mu,         \* "free", or "owner" while set_response() is inside
    response,   \* response_status_, response_body_
    requests,   \* requests_
    taken,      \* all that take_requests() returned so far
    server,     \* the accept thread: the statement of run() or handle()
    fd,         \* the value accept() is called with
    conn,       \* the client of the connection being handled, or Nobody
    buf,        \* pieces in the buffer of handle()
    answer,     \* the response handle() built
    phase,      \* of each client: "idle", "waiting", "answered", "gaveUp"
    link,       \* its connection: "none", "queued", "accepted", "over"
    arrived,    \* pieces of its request at the server
    reply       \* the response on its connection, or NoReply

test == <<owner, stopFlag, listenFd, fdOpen, response, taken>>
thread == <<server, fd, conn, buf, answer>>
network == <<phase, link, arrived, reply>>
vars == <<test, thread, network, listener, mu, requests>>

Response(s) == [status |-> s, body |-> BodyOf[s]]
Responses == {Response(s) : s \in Statuses}
AnyResponse == [status : Statuses, body : {BodyOf[s] : s \in Statuses}]

Captured == taken \o requests

Init ==
    /\ owner = "fresh" /\ stopFlag = FALSE /\ listenFd = "none" /\ fdOpen = FALSE
    /\ listener = "none" /\ mu = "free" /\ response = Response(FirstStatus)
    /\ requests = <<>> /\ taken = <<>>
    /\ server = "none" /\ fd = "none" /\ conn = Nobody /\ buf = 0
    /\ answer = Response(FirstStatus)
    /\ phase = [c \in Clients |-> "idle"] /\ link = [c \in Clients |-> "none"]
    /\ arrived = [c \in Clients |-> 0] /\ reply = [c \in Clients |-> NoReply]

-----------------------------------------------------------------------------
(* The test thread *)

Start ==
    /\ owner = "fresh"
    /\ owner' = "running"
    /\ listenFd' = "sock" /\ fdOpen' = TRUE /\ listener' = "listening"
    /\ server' = "check"
    /\ UNCHANGED <<stopFlag, response, taken, fd, conn, buf, answer, network, mu, requests>>

(* A call of start() fails and closes what it opened: the test is skipped.   *)
StartFails ==
    /\ owner = "fresh"
    /\ owner' = "unstarted"
    /\ UNCHANGED <<stopFlag, listenFd, fdOpen, response, taken, thread, network, listener, mu,
                   requests>>

(* set_response() under the lock, member by member.                          *)
SetStatus(s) ==
    /\ owner = "running" /\ mu = "free"
    /\ owner' = "setting" /\ mu' = "owner"
    /\ response' = [response EXCEPT !.status = s]
    /\ UNCHANGED <<stopFlag, listenFd, fdOpen, taken, thread, network, listener, requests>>

SetBody ==
    /\ owner = "setting"
    /\ owner' = "running" /\ mu' = "free"
    /\ response' = Response(response.status)
    /\ UNCHANGED <<stopFlag, listenFd, fdOpen, taken, thread, network, listener, requests>>

TakeRequests ==
    /\ owner = "running" /\ mu = "free" /\ requests # <<>>
    /\ taken' = taken \o requests /\ requests' = <<>>
    /\ UNCHANGED <<owner, stopFlag, listenFd, fdOpen, response, thread, network, listener, mu>>

(* Connections that wait to be accepted are reset with their socket.         *)
Dropped == [c \in Clients |-> IF link[c] = "queued" THEN "over" ELSE link[c]]

(* stop(), statement by statement.                                           *)
StopFlag ==
    /\ owner = "running"
    /\ stopFlag' = TRUE
    /\ owner' = IF listenFd # "none" THEN "shutdown" ELSE "join"
    /\ UNCHANGED <<listenFd, fdOpen, response, taken, thread, network, listener, mu, requests>>

(* A stop() that only closes the descriptor.                                 *)
MShutDown ==
    /\ owner = "shutdown"
    /\ owner' = "close"
    /\ UNCHANGED <<stopFlag, listenFd, fdOpen, response, taken, thread, network, listener, mu,
                   requests>>

ShutDown ==
    /\ owner = "shutdown"
    /\ owner' = "close"
    /\ listener' = "shut" /\ link' = Dropped
    /\ UNCHANGED <<stopFlag, listenFd, fdOpen, response, taken, thread, phase, arrived, reply,
                   mu, requests>>

CloseFd ==
    /\ owner = "close"
    /\ owner' = "clear" /\ fdOpen' = FALSE
    /\ IF server = "accepting" THEN UNCHANGED <<listener, link>>
       ELSE listener' = "shut" /\ link' = Dropped
    /\ UNCHANGED <<stopFlag, listenFd, response, taken, thread, phase, arrived, reply, mu,
                   requests>>

ClearFd ==
    /\ owner = "clear"
    /\ owner' = "join" /\ listenFd' = "none"
    /\ UNCHANGED <<stopFlag, fdOpen, response, taken, thread, network, listener, mu, requests>>

(* A stop() that lets the thread go instead of joining it.                   *)
MJoin ==
    /\ owner = "join"
    /\ owner' = "stopped"
    /\ UNCHANGED <<stopFlag, listenFd, fdOpen, response, taken, thread, network, listener, mu,
                   requests>>

Join ==
    /\ owner = "join" /\ server = "done"
    /\ owner' = "stopped"
    /\ UNCHANGED <<stopFlag, listenFd, fdOpen, response, taken, thread, network, listener, mu,
                   requests>>

-----------------------------------------------------------------------------
(* run(), the accept thread *)

CheckStop ==
    /\ server = "check"
    /\ server' = IF stopFlag THEN "done" ELSE "read"
    /\ UNCHANGED <<test, fd, conn, buf, answer, network, listener, mu, requests>>

(* An unsynchronised read: it may return what stop() has overwritten.        *)
ReadFd ==
    /\ server = "read"
    /\ fd' \in {listenFd, "sock"}
    /\ server' = "call"
    /\ UNCHANGED <<test, conn, buf, answer, network, listener, mu, requests>>

(* accept() on -1 or on a closed descriptor is EBADF, and ends run().        *)
CallAccept ==
    /\ server = "call"
    /\ server' = IF fd = "sock" /\ fdOpen THEN "accepting" ELSE "done"
    /\ UNCHANGED <<test, fd, conn, buf, answer, network, listener, mu, requests>>

(* A handle() that appends to the buffer of the last request.                *)
MAccept(c) ==
    /\ server = "accepting" /\ listener = "listening" /\ link[c] = "queued"
    /\ conn' = c /\ link' = [link EXCEPT ![c] = "accepted"]
    /\ server' = "head"
    /\ UNCHANGED <<test, fd, buf, answer, phase, arrived, reply, listener, mu, requests>>

Accept(c) ==
    /\ server = "accepting" /\ listener = "listening" /\ link[c] = "queued"
    /\ conn' = c /\ link' = [link EXCEPT ![c] = "accepted"]
    /\ buf' = 0
    /\ server' = "head"
    /\ UNCHANGED <<test, fd, answer, phase, arrived, reply, listener, mu, requests>>

(* shutdown() makes a blocked accept() return EINVAL.                        *)
AcceptWoken ==
    /\ server = "accepting" /\ listener = "shut"
    /\ server' = "done"
    /\ UNCHANGED <<test, fd, conn, buf, answer, network, listener, mu, requests>>

(* Any other error of accept(), an interrupted call or a connection that was *)
(* aborted, ends run() as well, and nobody is served any more.               *)
AcceptError ==
    /\ server = "accepting"
    /\ server' = "done"
    /\ UNCHANGED <<test, fd, conn, buf, answer, network, listener, mu, requests>>

(* handle(): recv() until the headers are there, then until the body is.     *)

(* Where a handle() goes on that takes the headers for the request.          *)
MAfterRecv(n) == IF n < HeadSize THEN "head" ELSE "push"

AfterRecv(n) == IF n < HeadSize THEN "head" ELSE IF n < Size[conn] THEN "body" ELSE "push"

Recv ==
    /\ server \in {"head", "body"}
    /\ \E n \in (buf + 1)..arrived[conn] :
          /\ buf' = n
          /\ server' = AfterRecv(n)
    /\ UNCHANGED <<test, fd, conn, answer, network, listener, mu, requests>>

(* recv() returns 0 or an error when the client is gone, and what there is   *)
(* of the request is captured.                                               *)
RecvEnd ==
    /\ server \in {"head", "body"}
    /\ phase[conn] = "gaveUp"
    /\ server' = "push"
    /\ UNCHANGED <<test, fd, conn, buf, answer, network, listener, mu, requests>>

Push ==
    /\ server = "push" /\ mu = "free"
    /\ requests' = Append(requests, [client |-> conn, pieces |-> buf])
    /\ server' = "build"
    /\ UNCHANGED <<test, fd, conn, buf, answer, network, listener, mu>>

(* A response built without the lock.                                        *)
MBuild ==
    /\ server = "build"
    /\ answer' = response
    /\ server' = "send"
    /\ UNCHANGED <<test, fd, conn, buf, network, listener, mu, requests>>

Build ==
    /\ server = "build" /\ mu = "free"
    /\ answer' = response
    /\ server' = "send"
    /\ UNCHANGED <<test, fd, conn, buf, network, listener, mu, requests>>

Send ==
    /\ server = "send"
    /\ reply' = [reply EXCEPT ![conn] = answer]
    /\ server' = "close"
    /\ UNCHANGED <<test, fd, conn, buf, answer, phase, link, arrived, listener, mu, requests>>

CloseConn ==
    /\ server = "close"
    /\ link' = [link EXCEPT ![conn] = "over"] /\ conn' = Nobody
    /\ server' = "check"
    /\ UNCHANGED <<test, fd, buf, answer, phase, arrived, reply, listener, mu, requests>>

-----------------------------------------------------------------------------
(* The clients *)

(* The client learns the port from the test, after start().                  *)
Connect(c) ==
    /\ phase[c] = "idle" /\ owner \notin {"fresh", "unstarted"}
    /\ IF listener = "listening"
       THEN /\ phase' = [phase EXCEPT ![c] = "waiting"]
            /\ link' = [link EXCEPT ![c] = "queued"]
       ELSE phase' = [phase EXCEPT ![c] = "gaveUp"] /\ UNCHANGED link
    /\ UNCHANGED <<test, thread, arrived, reply, listener, mu, requests>>

SendMore(c) ==
    /\ phase[c] = "waiting" /\ link[c] \in {"queued", "accepted"}
    /\ \E n \in (arrived[c] + 1)..Size[c] : arrived' = [arrived EXCEPT ![c] = n]
    /\ UNCHANGED <<test, thread, phase, link, reply, listener, mu, requests>>

Receive(c) ==
    /\ phase[c] = "waiting" /\ reply[c] # NoReply
    /\ phase' = [phase EXCEPT ![c] = "answered"]
    /\ UNCHANGED <<test, thread, link, arrived, reply, listener, mu, requests>>

(* The timeout, or a connection that was reset.                              *)
GiveUp(c) ==
    /\ phase[c] = "waiting"
    /\ phase' = [phase EXCEPT ![c] = "gaveUp"]
    /\ UNCHANGED <<test, thread, link, arrived, reply, listener, mu, requests>>

-----------------------------------------------------------------------------
StopStep == ShutDown \/ CloseFd \/ ClearFd \/ Join

TestStep ==
    \/ Start \/ StartFails \/ (\E s \in Statuses : SetStatus(s)) \/ SetBody
    \/ TakeRequests \/ StopFlag \/ StopStep

ServerStep ==
    \/ CheckStop \/ ReadFd \/ CallAccept \/ (\E c \in Clients : Accept(c)) \/ AcceptWoken
    \/ Recv \/ RecvEnd \/ Push \/ Build \/ Send \/ CloseConn

ClientStep(c) == Connect(c) \/ SendMore(c) \/ Receive(c) \/ GiveUp(c)

Next == TestStep \/ ServerStep \/ AcceptError \/ \E c \in Clients : ClientStep(c)

Spec == Init /\ [][Next]_vars

(* Both threads run, and a client's timeout ends its call.                   *)
FairSpec ==
    /\ Spec
    /\ WF_vars(StopStep) /\ WF_vars(SetBody) /\ WF_vars(ServerStep)
    /\ \A c \in Clients : WF_vars(GiveUp(c))

-----------------------------------------------------------------------------
(* Properties *)

(* Types, and handle()'s buffer holds nothing that the client of this        *)
(* connection has not sent.                                                  *)
TypeOK ==
    /\ owner \in {"fresh", "unstarted", "running", "setting", "shutdown", "close", "clear",
                  "join", "stopped"}
    /\ stopFlag \in BOOLEAN /\ fdOpen \in BOOLEAN
    /\ listenFd \in {"none", "sock"} /\ fd \in {"none", "sock"}
    /\ listener \in {"none", "listening", "shut"}
    /\ mu \in {"free", "owner"}
    /\ response \in AnyResponse /\ answer \in AnyResponse
    /\ requests \in Seq([client : Clients, pieces : Nat])
    /\ taken \in Seq([client : Clients, pieces : Nat])
    /\ server \in {"none", "check", "read", "call", "accepting", "head", "body", "push",
                   "build", "send", "close", "done"}
    /\ conn \in Clients \cup {Nobody}
    /\ buf \in Nat
    /\ phase \in [Clients -> {"idle", "waiting", "answered", "gaveUp"}]
    /\ link \in [Clients -> {"none", "queued", "accepted", "over"}]
    /\ arrived \in [Clients -> Nat]
    /\ reply \in [Clients -> AnyResponse \cup {NoReply}]
    /\ conn # Nobody => buf <= arrived[conn]

(* Every request is captured at most once, and that of a client with an      *)
(* answer is there and whole: a test that takes the requests after its call  *)
(* finds exactly that call (handle(), and the tests' reqs.size() checks).    *)
AnswerMeansCaptured ==
    /\ \A i, j \in 1..Len(Captured) : Captured[i].client = Captured[j].client => i = j
    /\ \A c \in Clients : phase[c] = "answered" =>
          \E i \in 1..Len(Captured) : Captured[i] = [client |-> c, pieces |-> Size[c]]

(* A response is one that a test set as a whole: the status of one and the   *)
(* body of another are never sent together (set_response() and handle()).    *)
NoTornAnswer == \A c \in Clients : reply[c] # NoReply => reply[c] \in Responses

(* When stop() has returned the thread has ended, no descriptor and no       *)
(* connection is left open, and nobody waits to be accepted.                 *)
StopIsQuiet ==
    owner = "stopped" =>
        /\ server = "done" /\ conn = Nobody
        /\ ~fdOpen /\ listenFd = "none" /\ listener = "shut"
        /\ \A c \in Clients : link[c] \in {"none", "over"}

(* stop() returns: whatever statement the accept thread is at, blocked in    *)
(* accept() or waiting for a client that sends nothing, it comes to an end.  *)
StopReturns == owner = "shutdown" ~> owner = "stopped"
=============================================================================
