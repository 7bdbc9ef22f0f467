------------------------ MODULE MiniHttpServer_proofs ------------------------
(* Proofs about MiniHttpServer, for any number of clients, sizes of requests *)
(* and responses: its types, that answers mean captures, that no response is *)
(* torn and that nothing is left when stop() returns.                        *)
EXTENDS MiniHttpServer, SequenceTheorems, TLAPS

-----------------------------------------------------------------------------
(* The inductive invariant *)

SentInPart == \A c \in Clients : arrived[c] <= Size[c]

(* The lock is held between the two halves of set_response(), and the        *)
(* response is whole at any other time.                                      *)
Locked ==
    /\ mu = "owner" <=> owner = "setting"
    /\ mu = "free" => response \in Responses
    /\ answer \in Responses
    /\ \A c \in Clients : reply[c] # NoReply => reply[c] \in Responses

(* The socket at each statement of the test thread.                          *)
Socket ==
    /\ owner \in {"fresh", "unstarted"} => server = "none" /\ listener = "none"
    /\ owner \in {"running", "setting", "shutdown"} => listener = "listening"
    /\ owner \in {"close", "clear", "join", "stopped"} => listener = "shut"
    /\ owner \in {"running", "setting", "shutdown", "close"} => listenFd = "sock"
    /\ owner \in {"clear", "join", "stopped"} => ~fdOpen
    /\ owner \in {"join", "stopped"} => listenFd = "none"
    /\ owner = "stopped" => server = "done"
    /\ \A c \in Clients : link[c] = "queued" => listener = "listening"

(* The accept thread holds the one connection that is accepted.              *)
Serving == {"head", "body", "push", "build", "send", "close"}

Served ==
    /\ conn # Nobody <=> server \in Serving
    /\ \A c \in Clients : link[c] = "accepted" <=> conn = c
    /\ \A c \in Clients : phase[c] = "idle" => link[c] = "none"

(* What was captured, of whom, and how much of it.                           *)
Logged ==
    /\ \A i, j \in 1..Len(Captured) : Captured[i].client = Captured[j].client => i = j
    /\ \A i \in 1..Len(Captured) :
          LET c == Captured[i].client IN
          /\ link[c] = "over" \/ (conn = c /\ server \in {"build", "send", "close"})
          /\ Captured[i].pieces = Size[c] \/ phase[c] = "gaveUp"
    /\ server = "push" => buf = Size[conn] \/ phase[conn] = "gaveUp"
    /\ server \in {"build", "send", "close"} =>
          \E i \in 1..Len(Captured) : Captured[i].client = conn
    /\ \A c \in Clients : reply[c] # NoReply =>
          \E i \in 1..Len(Captured) : Captured[i].client = c
    /\ \A c \in Clients : phase[c] = "answered" => reply[c] # NoReply

IInv == TypeOK /\ SentInPart /\ Locked /\ Socket /\ Served /\ Logged

-----------------------------------------------------------------------------
LEMMA ResponsesAreResponses == Responses \subseteq AnyResponse /\ NoReply \notin Responses
  BY ResponseAssumption DEF Responses, Response, AnyResponse

LEMMA InitInv == Init => IInv
  <1> SUFFICES ASSUME Init PROVE IInv  OBVIOUS
  <1> USE ClientAssumption, SizeAssumption, ResponseAssumption DEF Init
  <1>1. Response(FirstStatus) \in Responses /\ Response(FirstStatus) \in AnyResponse
    BY DEF Responses, Response, AnyResponse
  <1>2. TypeOK /\ SentInPart
    <2>1. <<>> \in Seq([client : Clients, pieces : Nat])  BY EmptySeq
    <2>2. stopFlag \in BOOLEAN /\ fdOpen \in BOOLEAN  BY Zenon
    <2> QED  BY <1>1, <2>1, <2>2 DEF TypeOK, SentInPart
  <1>3. Locked /\ Socket /\ Served  BY <1>1 DEF Locked, Socket, Served, Serving
  <1>4. Captured = <<>> /\ Len(Captured) = 0  BY DEF Captured
  <1>5. Logged  BY <1>4 DEF Logged
  <1> QED  BY <1>2, <1>3, <1>5 DEF IInv

(* What is captured grows by Push alone.                                     *)
LEMMA CapturedGrows ==
    ASSUME IInv, [Next]_vars
    PROVE  /\ Captured \in Seq([client : Clients, pieces : Nat])
           /\ \/ ~Push /\ Captured' = Captured
              \/ Push /\ Captured' = Append(Captured, [client |-> conn, pieces |-> buf])
  <1> DEFINE R == [client : Clients, pieces : Nat]
  <1>1. requests \in Seq(R) /\ taken \in Seq(R)  BY DEF IInv, TypeOK
  <1>2. Captured \in Seq(R)  BY <1>1, ConcatProperties DEF Captured
  <1>3. CASE TakeRequests
    <2>1. taken' = Captured /\ requests' = <<>> /\ server' = server
      BY <1>3 DEF TakeRequests, Captured, thread
    <2>2. Captured' = Captured  BY <2>1, <1>2, ConcatEmptySeq DEF Captured
    <2>3. ~Push  BY <2>1 DEF Push
    <2> QED  BY <1>2, <2>2, <2>3
  <1>4. CASE Push
    <2> DEFINE r == [client |-> conn, pieces |-> buf]
    <2>1. r \in R  BY <1>4, ClientAssumption DEF Push, IInv, TypeOK, Served, Serving
    <2>2. taken' = taken /\ requests' = Append(requests, r)  BY <1>4 DEF Push, test
    <2>3. taken \o Append(requests, r) = Append(taken \o requests, r)
      BY <1>1, <2>1, ConcatProperties, AppendProperties, SeqEqual
    <2> QED  BY <1>2, <1>4, <2>2, <2>3 DEF Captured
  <1>5. CASE ~TakeRequests /\ ~Push
    <2>1. UNCHANGED <<taken, requests>>
      BY <1>5 DEF Next, TestStep, StopStep, ServerStep, ClientStep, vars, test, thread, network,
         Start, StartFails, SetStatus, SetBody, StopFlag, ShutDown, CloseFd, ClearFd, Join,
         CheckStop, ReadFd, CallAccept, Accept, AcceptWoken, AcceptError, Recv, RecvEnd, Build,
         Send, CloseConn, Connect, SendMore, Receive, GiveUp
    <2> QED  BY <1>2, <1>5, <2>1 DEF Captured
  <1> QED  BY <1>3, <1>4, <1>5

-----------------------------------------------------------------------------
(* Every step preserves every part of the invariant *)

LEMMA TypesStep == ASSUME IInv, [Next]_vars PROVE (TypeOK /\ SentInPart)'
  <1> USE DEF IInv, TypeOK, SentInPart, Served, Serving, AnyResponse
  <1>1. CASE Start
    BY <1>1 DEF Start, test, thread, network
  <1>2. CASE StartFails
    BY <1>2 DEF StartFails, test, thread, network
  <1>3. ASSUME NEW s \in Statuses, SetStatus(s) PROVE (TypeOK /\ SentInPart)'
    BY <1>3 DEF SetStatus, test, thread, network
  <1>4. CASE SetBody
    <2>1. response' \in AnyResponse  BY <1>4 DEF SetBody, Response
    <2> QED  BY <1>4, <2>1 DEF SetBody, thread, network
  <1>5. CASE TakeRequests
    BY <1>5 DEF TakeRequests, test, thread, network
  <1>6. CASE StopFlag
    BY <1>6 DEF StopFlag, test, thread, network
  <1>7. CASE ShutDown
    BY <1>7 DEF ShutDown, Dropped, thread
  <1>8. CASE CloseFd
    <2>1. /\ owner' = "clear" /\ fdOpen' = FALSE /\ listener' \in {listener, "shut"}
          /\ link' \in {link, Dropped}
          /\ UNCHANGED <<stopFlag, listenFd, response, taken, thread, phase, arrived, reply, mu,
                         requests>>
      BY <1>8 DEF CloseFd
    <2>2. link' \in [Clients -> {"none", "queued", "accepted", "over"}]
      BY <2>1 DEF Dropped
    <2> QED  BY <2>1, <2>2, ZenonT(60) DEF thread
  <1>9. CASE ClearFd
    BY <1>9 DEF ClearFd, test, thread, network
  <1>10. CASE Join
    BY <1>10 DEF Join, test, thread, network
  <1>11. CASE CheckStop
    BY <1>11 DEF CheckStop, test, thread, network
  <1>12. CASE ReadFd
    BY <1>12 DEF ReadFd, test, thread, network
  <1>13. CASE CallAccept
    BY <1>13 DEF CallAccept, test, thread, network
  <1>14. ASSUME NEW c \in Clients, Accept(c) PROVE (TypeOK /\ SentInPart)'
    BY <1>14 DEF Accept, test, thread, network
  <1>15. CASE AcceptWoken
    BY <1>15 DEF AcceptWoken, test, thread, network
  <1>16. CASE AcceptError
    BY <1>16 DEF AcceptError, test, thread, network
  <1>17. CASE Recv
    <2>1. conn \in Clients /\ arrived[conn] \in Nat  BY <1>17 DEF Recv
    <2>2. PICK n \in (buf + 1)..arrived[conn] : buf' = n /\ server' = AfterRecv(n)  BY <1>17 DEF Recv
    <2>3. buf' \in Nat /\ buf' <= arrived[conn]  BY <2>1, <2>2
    <2>4. server' \in {"head", "body", "push"}  BY <2>2 DEF AfterRecv
    <2> QED  BY <1>17, <2>3, <2>4 DEF Recv, test, network
  <1>18. CASE RecvEnd
    BY <1>18 DEF RecvEnd, test, thread, network
  <1>19. CASE Push
    <2>1. [client |-> conn, pieces |-> buf] \in [client : Clients, pieces : Nat]  BY <1>19 DEF Push
    <2>2. requests' \in Seq([client : Clients, pieces : Nat])
      BY <1>19, <2>1, AppendProperties DEF Push
    <2> QED  BY <1>19, <2>2 DEF Push, test, network
  <1>20. CASE Build
    BY <1>20 DEF Build, test, thread, network
  <1>21. CASE Send
    BY <1>21 DEF Send, test, thread, network
  <1>22. CASE CloseConn
    BY <1>22 DEF CloseConn, test, thread, network
  <1>23. ASSUME NEW c \in Clients, Connect(c) PROVE (TypeOK /\ SentInPart)'
    <2>1. /\ phase' \in [Clients -> {"idle", "waiting", "answered", "gaveUp"}]
          /\ link' \in [Clients -> {"none", "queued", "accepted", "over"}]
      BY <1>23 DEF Connect
    <2> QED  BY <1>23, <2>1 DEF Connect, test, thread
  <1>24. ASSUME NEW c \in Clients, SendMore(c) PROVE (TypeOK /\ SentInPart)'
    BY <1>24 DEF SendMore, test, thread, network
  <1>25. ASSUME NEW c \in Clients, Receive(c) PROVE (TypeOK /\ SentInPart)'
    BY <1>25 DEF Receive, test, thread, network
  <1>26. ASSUME NEW c \in Clients, GiveUp(c) PROVE (TypeOK /\ SentInPart)'
    BY <1>26 DEF GiveUp, test, thread, network
  <1>u. CASE UNCHANGED vars  BY <1>u DEF vars, test, thread, network
  <1> QED
    BY <1>1, <1>2, <1>3, <1>4, <1>5, <1>6, <1>7, <1>8, <1>9, <1>10, <1>11, <1>12, <1>13, <1>14, <1>15, <1>16, <1>17, <1>18, <1>19, <1>20, <1>21, <1>22, <1>23, <1>24, <1>25, <1>26, <1>u
       DEF Next, TestStep, StopStep, ServerStep, ClientStep

LEMMA LockedStep == ASSUME IInv, [Next]_vars PROVE Locked'
  <1> USE DEF IInv, TypeOK, Locked
  <1>1. CASE Start
    BY <1>1 DEF Start, test, thread, network
  <1>2. CASE StartFails
    BY <1>2 DEF StartFails, test, thread, network
  <1>3. ASSUME NEW s \in Statuses, SetStatus(s) PROVE Locked'
    BY <1>3 DEF SetStatus, test, thread, network
  <1>4. CASE SetBody
    <2>1. response' \in Responses  BY <1>4 DEF SetBody, Responses, AnyResponse
    <2> QED  BY <1>4, <2>1 DEF SetBody, thread, network
  <1>5. CASE TakeRequests
    BY <1>5 DEF TakeRequests, test, thread, network
  <1>6. CASE StopFlag
    BY <1>6 DEF StopFlag, test, thread, network
  <1>7. CASE ShutDown
    BY <1>7 DEF ShutDown, test, thread, network
  <1>8. CASE CloseFd
    BY <1>8 DEF CloseFd, test, thread, network
  <1>9. CASE ClearFd
    BY <1>9 DEF ClearFd, test, thread, network
  <1>10. CASE Join
    BY <1>10 DEF Join, test, thread, network
  <1>11. CASE CheckStop
    BY <1>11 DEF CheckStop, test, thread, network
  <1>12. CASE ReadFd
    BY <1>12 DEF ReadFd, test, thread, network
  <1>13. CASE CallAccept
    BY <1>13 DEF CallAccept, test, thread, network
  <1>14. ASSUME NEW c \in Clients, Accept(c) PROVE Locked'
    BY <1>14 DEF Accept, test, thread, network
  <1>15. CASE AcceptWoken
    BY <1>15 DEF AcceptWoken, test, thread, network
  <1>16. CASE AcceptError
    BY <1>16 DEF AcceptError, test, thread, network
  <1>17. CASE Recv
    BY <1>17 DEF Recv, test, thread, network
  <1>18. CASE RecvEnd
    BY <1>18 DEF RecvEnd, test, thread, network
  <1>19. CASE Push
    BY <1>19 DEF Push, test, thread, network
  <1>20. CASE Build
    BY <1>20 DEF Build, test, thread, network
  <1>21. CASE Send
    BY <1>21 DEF Send, test, thread, network
  <1>22. CASE CloseConn
    BY <1>22 DEF CloseConn, test, thread, network
  <1>23. ASSUME NEW c \in Clients, Connect(c) PROVE Locked'
    BY <1>23 DEF Connect, test, thread, network
  <1>24. ASSUME NEW c \in Clients, SendMore(c) PROVE Locked'
    BY <1>24 DEF SendMore, test, thread, network
  <1>25. ASSUME NEW c \in Clients, Receive(c) PROVE Locked'
    BY <1>25 DEF Receive, test, thread, network
  <1>26. ASSUME NEW c \in Clients, GiveUp(c) PROVE Locked'
    BY <1>26 DEF GiveUp, test, thread, network
  <1>u. CASE UNCHANGED vars  BY <1>u DEF vars, test, thread, network
  <1> QED
    BY <1>1, <1>2, <1>3, <1>4, <1>5, <1>6, <1>7, <1>8, <1>9, <1>10, <1>11, <1>12, <1>13, <1>14, <1>15, <1>16, <1>17, <1>18, <1>19, <1>20, <1>21, <1>22, <1>23, <1>24, <1>25, <1>26, <1>u
       DEF Next, TestStep, StopStep, ServerStep, ClientStep

LEMMA SocketStep == ASSUME IInv, [Next]_vars PROVE Socket'
  <1> USE DEF IInv, TypeOK, Socket, Dropped
  <1>1. CASE Start
    BY <1>1 DEF Start, test, thread, network
  <1>2. CASE StartFails
    BY <1>2 DEF StartFails, test, thread, network
  <1>3. ASSUME NEW s \in Statuses, SetStatus(s) PROVE Socket'
    BY <1>3 DEF SetStatus, test, thread, network
  <1>4. CASE SetBody
    BY <1>4 DEF SetBody, test, thread, network
  <1>5. CASE TakeRequests
    BY <1>5 DEF TakeRequests, test, thread, network
  <1>6. CASE StopFlag
    BY <1>6 DEF StopFlag, test, thread, network
  <1>7. CASE ShutDown
    BY <1>7 DEF ShutDown, test, thread, network
  <1>8. CASE CloseFd
    BY <1>8 DEF CloseFd, test, thread, network
  <1>9. CASE ClearFd
    BY <1>9 DEF ClearFd, test, thread, network
  <1>10. CASE Join
    BY <1>10 DEF Join, test, thread, network
  <1>11. CASE CheckStop
    BY <1>11 DEF CheckStop, test, thread, network
  <1>12. CASE ReadFd
    BY <1>12 DEF ReadFd, test, thread, network
  <1>13. CASE CallAccept
    BY <1>13 DEF CallAccept, test, thread, network
  <1>14. ASSUME NEW c \in Clients, Accept(c) PROVE Socket'
    BY <1>14 DEF Accept, test, thread, network
  <1>15. CASE AcceptWoken
    BY <1>15 DEF AcceptWoken, test, thread, network
  <1>16. CASE AcceptError
    BY <1>16 DEF AcceptError, test, thread, network
  <1>17. CASE Recv
    BY <1>17 DEF Recv, test, thread, network
  <1>18. CASE RecvEnd
    BY <1>18 DEF RecvEnd, test, thread, network
  <1>19. CASE Push
    BY <1>19 DEF Push, test, thread, network
  <1>20. CASE Build
    BY <1>20 DEF Build, test, thread, network
  <1>21. CASE Send
    BY <1>21 DEF Send, test, thread, network
  <1>22. CASE CloseConn
    BY <1>22 DEF CloseConn, test, thread, network
  <1>23. ASSUME NEW c \in Clients, Connect(c) PROVE Socket'
    BY <1>23 DEF Connect, test, thread, network
  <1>24. ASSUME NEW c \in Clients, SendMore(c) PROVE Socket'
    BY <1>24 DEF SendMore, test, thread, network
  <1>25. ASSUME NEW c \in Clients, Receive(c) PROVE Socket'
    BY <1>25 DEF Receive, test, thread, network
  <1>26. ASSUME NEW c \in Clients, GiveUp(c) PROVE Socket'
    BY <1>26 DEF GiveUp, test, thread, network
  <1>u. CASE UNCHANGED vars  BY <1>u DEF vars, test, thread, network
  <1> QED
    BY <1>1, <1>2, <1>3, <1>4, <1>5, <1>6, <1>7, <1>8, <1>9, <1>10, <1>11, <1>12, <1>13, <1>14, <1>15, <1>16, <1>17, <1>18, <1>19, <1>20, <1>21, <1>22, <1>23, <1>24, <1>25, <1>26, <1>u
       DEF Next, TestStep, StopStep, ServerStep, ClientStep

LEMMA ServedStep == ASSUME IInv, [Next]_vars PROVE Served'
  <1> USE DEF IInv, TypeOK, Socket, Served, Serving, Dropped
  <1>0. Nobody \notin Clients  BY ClientAssumption
  <1>1. CASE Start
    BY <1>1 DEF Start, test, thread, network
  <1>2. CASE StartFails
    BY <1>2 DEF StartFails, test, thread, network
  <1>3. ASSUME NEW s \in Statuses, SetStatus(s) PROVE Served'
    BY <1>3 DEF SetStatus, test, thread, network
  <1>4. CASE SetBody
    BY <1>4 DEF SetBody, test, thread, network
  <1>5. CASE TakeRequests
    BY <1>5 DEF TakeRequests, test, thread, network
  <1>6. CASE StopFlag
    BY <1>6 DEF StopFlag, test, thread, network
  <1>7. CASE ShutDown
    BY <1>7 DEF ShutDown, test, thread, network
  <1>8. CASE CloseFd
    BY <1>8 DEF CloseFd, test, thread, network
  <1>9. CASE ClearFd
    BY <1>9 DEF ClearFd, test, thread, network
  <1>10. CASE Join
    BY <1>10 DEF Join, test, thread, network
  <1>11. CASE CheckStop
    BY <1>11 DEF CheckStop, test, thread, network
  <1>12. CASE ReadFd
    BY <1>12 DEF ReadFd, test, thread, network
  <1>13. CASE CallAccept
    BY <1>13 DEF CallAccept, test, thread, network
  <1>14. ASSUME NEW c \in Clients, Accept(c) PROVE Served'
    <2>1. conn = Nobody  BY <1>14 DEF Accept
    <2>2. \A d \in Clients : link'[d] = IF d = c THEN "accepted" ELSE link[d]  BY <1>14 DEF Accept
    <2> QED  BY <1>14, <1>0, <2>1, <2>2 DEF Accept
  <1>15. CASE AcceptWoken
    BY <1>15 DEF AcceptWoken, test, thread, network
  <1>16. CASE AcceptError
    BY <1>16 DEF AcceptError, test, thread, network
  <1>17. CASE Recv
    <2>1. server' \in {"head", "body", "push"} /\ server \in {"head", "body"}
      BY <1>17 DEF Recv, AfterRecv
    <2> QED  BY <1>17, <2>1 DEF Recv, network
  <1>18. CASE RecvEnd
    BY <1>18 DEF RecvEnd, test, thread, network
  <1>19. CASE Push
    BY <1>19 DEF Push, test, thread, network
  <1>20. CASE Build
    BY <1>20 DEF Build, test, thread, network
  <1>21. CASE Send
    BY <1>21 DEF Send, test, thread, network
  <1>22. CASE CloseConn
    <2>1. \A d \in Clients : link'[d] = IF d = conn THEN "over" ELSE link[d]
      BY <1>22 DEF CloseConn
    <2> QED  BY <1>22, <1>0, <2>1 DEF CloseConn
  <1>23. ASSUME NEW c \in Clients, Connect(c) PROVE Served'
    <2>1. \A d \in Clients : link'[d] = link[d] \/ (d = c /\ link'[d] = "queued")
      BY <1>23 DEF Connect
    <2>2. link[c] = "none"  BY <1>23 DEF Connect
    <2>3. \A d \in Clients : phase'[d] = "idle" => phase[d] = "idle" /\ link'[d] = link[d]
      BY <1>23 DEF Connect
    <2> QED  BY <1>23, <2>1, <2>2, <2>3 DEF Connect, thread
  <1>24. ASSUME NEW c \in Clients, SendMore(c) PROVE Served'
    BY <1>24 DEF SendMore, test, thread, network
  <1>25. ASSUME NEW c \in Clients, Receive(c) PROVE Served'
    BY <1>25 DEF Receive, test, thread, network
  <1>26. ASSUME NEW c \in Clients, GiveUp(c) PROVE Served'
    BY <1>26 DEF GiveUp, test, thread, network
  <1>u. CASE UNCHANGED vars  BY <1>u DEF vars, test, thread, network
  <1> QED
    BY <1>1, <1>2, <1>3, <1>4, <1>5, <1>6, <1>7, <1>8, <1>9, <1>10, <1>11, <1>12, <1>13, <1>14, <1>15, <1>16, <1>17, <1>18, <1>19, <1>20, <1>21, <1>22, <1>23, <1>24, <1>25, <1>26, <1>u
       DEF Next, TestStep, StopStep, ServerStep, ClientStep

(* A request is captured while its connection is open, and once.             *)
LEMMA PushStep ==
    ASSUME IInv, Push, Captured' = Append(Captured, [client |-> conn, pieces |-> buf]),
           Captured \in Seq([client : Clients, pieces : Nat])
    PROVE  Logged'
  <1> USE DEF IInv, TypeOK, Served, Serving
  <1> DEFINE n == Len(Captured)
             r == [client |-> conn, pieces |-> buf]
  <1>1. /\ conn \in Clients /\ r.client = conn /\ r.pieces = buf
        /\ server = "push" /\ server' = "build" /\ link[conn] = "accepted"
        /\ UNCHANGED <<conn, buf, phase, link, reply>>
    BY DEF Push, network
  <1>2. n \in Nat  BY LenProperties
  <1>3. /\ Len(Captured') = n + 1
        /\ \A i \in 1..n : Captured'[i] = Captured[i]
        /\ Captured'[n + 1] = r
    BY <1>1, AppendProperties
  <1>4. \A i \in 1..n : Captured[i].client # conn  BY <1>1 DEF Logged
  <1>5. \A i \in 1..(n + 1) : i \in 1..n \/ i = n + 1  BY <1>2
  <1>6. n + 1 \in 1..(n + 1)  BY <1>2
  <1>7. \A i, j \in 1..Len(Captured') : Captured'[i].client = Captured'[j].client => i = j
    <2> SUFFICES ASSUME NEW i \in 1..(n + 1), NEW j \in 1..(n + 1),
                        Captured'[i].client = Captured'[j].client
                 PROVE  i = j
      BY <1>3
    <2>1. CASE i \in 1..n /\ j \in 1..n  BY <1>3, <2>1 DEF Logged
    <2>2. CASE i = n + 1 /\ j \in 1..n  BY <1>1, <1>3, <1>4, <2>2
    <2>3. CASE i \in 1..n /\ j = n + 1  BY <1>1, <1>3, <1>4, <2>3
    <2> QED  BY <1>5, <2>1, <2>2, <2>3
  <1>8. \A i \in 1..Len(Captured') :
           LET c == Captured'[i].client IN
           /\ link'[c] = "over" \/ (conn' = c /\ server' \in {"build", "send", "close"})
           /\ Captured'[i].pieces = Size[c] \/ phase'[c] = "gaveUp"
    <2> TAKE i \in 1..Len(Captured')
    <2>1. CASE i = n + 1  BY <1>1, <1>3, <2>1 DEF Logged
    <2>2. CASE i \in 1..n
      <3>1. Captured'[i] = Captured[i]  BY <1>3, <2>2
      <3>2. link[Captured[i].client] = "over"  BY <1>1, <2>2 DEF Logged
      <3>3. Captured[i].pieces = Size[Captured[i].client] \/ phase[Captured[i].client] = "gaveUp"
        BY <2>2 DEF Logged
      <3> QED  BY <1>1, <3>1, <3>2, <3>3
    <2> QED  BY <1>3, <1>5, <2>1, <2>2
  <1>9. \E i \in 1..Len(Captured') : Captured'[i].client = conn'  BY <1>1, <1>3, <1>6
  <1>10. \A c \in Clients : reply'[c] # NoReply =>
            \E i \in 1..Len(Captured') : Captured'[i].client = c
    <2> SUFFICES ASSUME NEW c \in Clients, reply[c] # NoReply
                 PROVE  \E i \in 1..Len(Captured') : Captured'[i].client = c
      BY <1>1
    <2>1. PICK i \in 1..n : Captured[i].client = c  BY DEF Logged
    <2>2. i \in 1..(n + 1)  BY <1>2
    <2> QED  BY <1>3, <2>1, <2>2
  <1> QED  BY <1>1, <1>7, <1>8, <1>9, <1>10 DEF Logged

(* Any other step changes at most where captured requests stand.             *)
LEMMA LoggedStep ==
    ASSUME IInv, [Next]_vars, ~Push, Captured' = Captured
    PROVE  Logged'
  <1> USE DEF IInv, TypeOK, SentInPart, Served, Serving, Logged
  <1>0. ~Push /\ Captured' = Captured  OBVIOUS
  <1>c. \A i \in 1..Len(Captured) : Captured[i].client \in Clients
    <2>1. Captured \in Seq([client : Clients, pieces : Nat])  BY CapturedGrows
    <2> TAKE i \in 1..Len(Captured)
    <2>2. Captured[i] \in [client : Clients, pieces : Nat]  BY <2>1, ElementOfSeq
    <2> QED  BY <2>2
  <1>1. CASE Start
    BY <1>0, <1>1 DEF Start, Socket, test, thread, network
  <1>2. CASE StartFails
    BY <1>0, <1>2 DEF StartFails, test, thread, network
  <1>3. ASSUME NEW s \in Statuses, SetStatus(s) PROVE Logged'
    BY <1>0, <1>3 DEF SetStatus, test, thread, network
  <1>4. CASE SetBody
    BY <1>0, <1>4 DEF SetBody, test, thread, network
  <1>5. CASE TakeRequests
    BY <1>0, <1>5 DEF TakeRequests, test, thread, network
  <1>6. CASE StopFlag
    BY <1>0, <1>6 DEF StopFlag, test, thread, network
  <1>7. CASE ShutDown
    BY <1>7, <1>c DEF ShutDown, Dropped, thread
  <1>8. CASE CloseFd
    BY <1>8, <1>c DEF CloseFd, Dropped, thread
  <1>9. CASE ClearFd
    BY <1>0, <1>9 DEF ClearFd, test, thread, network
  <1>10. CASE Join
    BY <1>0, <1>10 DEF Join, test, thread, network
  <1>11. CASE CheckStop
    BY <1>0, <1>11 DEF CheckStop, test, thread, network
  <1>12. CASE ReadFd
    BY <1>0, <1>12 DEF ReadFd, test, thread, network
  <1>13. CASE CallAccept
    BY <1>0, <1>13 DEF CallAccept, test, thread, network
  <1>14. ASSUME NEW c \in Clients, Accept(c) PROVE Logged'
    BY <1>0, <1>14 DEF Accept, test, thread, network
  <1>15. CASE AcceptWoken
    BY <1>0, <1>15 DEF AcceptWoken, test, thread, network
  <1>16. CASE AcceptError
    BY <1>0, <1>16 DEF AcceptError, test, thread, network
  <1>17. CASE Recv
    <2>1. PICK n \in (buf + 1)..arrived[conn] : buf' = n /\ server' = AfterRecv(n)  BY <1>0, <1>17 DEF Recv
    <2>2. conn \in Clients /\ server \in {"head", "body"}  BY <1>0, <1>17 DEF Recv
    <2>3. n \in Nat /\ n <= Size[conn] /\ Size[conn] \in Nat  BY <2>1, <2>2, SizeAssumption
    <2>4. server' \in {"head", "body", "push"}  BY <2>1 DEF AfterRecv
    <2>5. server' = "push" => buf' = Size[conn]  BY <2>1, <2>3 DEF AfterRecv
    <2> QED  BY <1>0, <1>17, <2>2, <2>4, <2>5 DEF Recv, network
  <1>18. CASE RecvEnd
    BY <1>0, <1>18 DEF RecvEnd, test, thread, network
  <1>19. CASE Push
    BY <1>19, <1>0
  <1>20. CASE Build
    BY <1>0, <1>20 DEF Build, test, thread, network
  <1>21. CASE Send
    <2>1. \A d \in Clients : d # conn => reply'[d] = reply[d]  BY <1>0, <1>21 DEF Send
    <2>2. \A d \in Clients : reply[d] # NoReply => reply'[d] # NoReply
      BY <1>21, ResponsesAreResponses DEF Send, Locked
    <2> QED  BY <1>0, <1>21, <2>1, <2>2 DEF Send
  <1>22. CASE CloseConn
    BY <1>0, <1>22 DEF CloseConn, test, thread, network
  <1>23. ASSUME NEW c \in Clients, Connect(c) PROVE Logged'
    <2>1. link[c] = "none" /\ phase[c] = "idle"  BY <1>0, <1>23 DEF Connect
    <2>2. \A d \in Clients : d # c => link'[d] = link[d] /\ phase'[d] = phase[d]
      BY <1>0, <1>23 DEF Connect
    <2>3. phase'[c] \in {"waiting", "gaveUp"}  BY <1>0, <1>23 DEF Connect
    <2>4. \A i \in 1..Len(Captured) : Captured[i].client # c  BY <2>1
    <2>5. conn # c  BY <2>1
    <2> QED  BY <1>0, <1>c, <1>23, <2>1, <2>2, <2>3, <2>4, <2>5 DEF Connect, thread
  <1>24. ASSUME NEW c \in Clients, SendMore(c) PROVE Logged'
    BY <1>0, <1>24 DEF SendMore, test, thread, network
  <1>25. ASSUME NEW c \in Clients, Receive(c) PROVE Logged'
    BY <1>0, <1>25 DEF Receive, test, thread, network
  <1>26. ASSUME NEW c \in Clients, GiveUp(c) PROVE Logged'
    BY <1>0, <1>26 DEF GiveUp, test, thread, network
  <1>u. CASE UNCHANGED vars  BY <1>0, <1>u DEF vars, test, thread, network
  <1> QED
    BY <1>1, <1>2, <1>3, <1>4, <1>5, <1>6, <1>7, <1>8, <1>9, <1>10, <1>11, <1>12, <1>13, <1>14, <1>15, <1>16, <1>17, <1>18, <1>19, <1>20, <1>21, <1>22, <1>23, <1>24, <1>25, <1>26, <1>u
       DEF Next, TestStep, StopStep, ServerStep, ClientStep

LEMMA Inductive == IInv /\ [Next]_vars => IInv'
  <1> SUFFICES ASSUME IInv, [Next]_vars PROVE IInv'  OBVIOUS
  <1>1. (TypeOK /\ SentInPart)'  BY TypesStep
  <1>2. Locked' /\ Socket' /\ Served'  BY LockedStep, SocketStep, ServedStep
  <1>3. Logged'
    <2>1. CASE Push
      <3>1. Captured \in Seq([client : Clients, pieces : Nat])  BY CapturedGrows
      <3>2. Captured' = Append(Captured, [client |-> conn, pieces |-> buf])
        BY <2>1, CapturedGrows
      <3> QED  BY <2>1, <3>1, <3>2, PushStep
    <2>2. CASE ~Push /\ Captured' = Captured  BY <2>2, LoggedStep
    <2> QED  BY <2>1, <2>2, CapturedGrows
  <1> QED  BY <1>1, <1>2, <1>3 DEF IInv

LEMMA Invariance == Spec => []IInv
  BY InitInv, Inductive, PTL DEF Spec

-----------------------------------------------------------------------------
(* The theorems *)

(* Every variable keeps its type, and handle()'s buffer holds nothing that   *)
(* the client of this connection has not sent.                               *)
THEOREM TypeCorrect == Spec => []TypeOK
  <1>1. IInv => TypeOK  BY DEF IInv
  <1> QED  BY <1>1, Invariance, PTL

(* A client that has its answer finds its request captured, once and whole,  *)
(* however many clients there are and however their requests are cut: the    *)
(* thread captures before it answers, and answers no client it did not       *)
(* capture.                                                                  *)
THEOREM AnswersAreCaptured == Spec => []AnswerMeansCaptured
  <1>1. IInv => AnswerMeansCaptured
    <2> SUFFICES ASSUME IInv, NEW c \in Clients, phase[c] = "answered"
                 PROVE  \E i \in 1..Len(Captured) :
                           Captured[i] = [client |-> c, pieces |-> Size[c]]
      BY DEF AnswerMeansCaptured, IInv, Logged
    <2>1. Captured \in Seq([client : Clients, pieces : Nat])
      BY ConcatProperties DEF IInv, TypeOK, Captured
    <2>2. PICK i \in 1..Len(Captured) : Captured[i].client = c  BY DEF IInv, Logged
    <2>3. Captured[i].pieces = Size[c]  BY <2>2 DEF IInv, Logged
    <2>4. Captured[i] \in [client : Clients, pieces : Nat]  BY <2>1, ElementOfSeq
    <2>5. Captured[i] = [client |-> c, pieces |-> Size[c]]  BY <2>2, <2>3, <2>4
    <2> QED  BY <2>5
  <1> QED  BY <1>1, Invariance, PTL

(* A response that is sent is one that a test set as a whole: the lock keeps *)
(* handle() out between the two assignments of set_response().               *)
THEOREM AnswersAreWhole == Spec => []NoTornAnswer
  <1>1. IInv => NoTornAnswer  BY DEF IInv, Locked, NoTornAnswer
  <1> QED  BY <1>1, Invariance, PTL

(* When stop() has returned, the thread has ended and no descriptor and no   *)
(* connection is left.                                                       *)
THEOREM NothingIsLeft == Spec => []StopIsQuiet
  <1>1. IInv => StopIsQuiet
    <2> SUFFICES ASSUME IInv, owner = "stopped" PROVE StopIsQuiet  BY DEF StopIsQuiet
    <2>1. server = "done" /\ ~fdOpen /\ listenFd = "none" /\ listener = "shut"
      BY DEF IInv, Socket
    <2>2. conn = Nobody  BY <2>1 DEF IInv, Served, Serving
    <2>3. \A c \in Clients : link[c] # "accepted" /\ link[c] # "queued"
      BY <2>1, <2>2, ClientAssumption DEF IInv, Served, Socket
    <2> QED  BY <2>1, <2>2, <2>3 DEF StopIsQuiet, IInv, TypeOK
  <1> QED  BY <1>1, Invariance, PTL
=============================================================================
