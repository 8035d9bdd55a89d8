---------------------------- MODULE ProxyProofs ----------------------------
(***************************************************************************)
(* Theorems about Proxy, for every number of clients, connections, calls   *)
(* and devices.                                                            *)
(***************************************************************************)
EXTENDS ProxyInv, TcpProofs

-----------------------------------------------------------------------------
(* Every step keeps the types. *)

LEMMA PacketParts ==
    ASSUME NEW i \in Calls
    PROVE  /\ Packet(i) = <<H(i), T(i)>>
           /\ Tail(Packet(i)) = <<T(i)>>
           /\ H(i) = [call |-> i, part |-> "head"] /\ T(i) = [call |-> i, part |-> "tail"]
           /\ H(i) \in Item /\ T(i) \in Item
BY DEF Packet, H, T, Item

LEMMA PacketType ==
    ASSUME NEW i \in Calls
    PROVE  /\ Packet(i) \in Seq(Item)
           /\ Tail(Packet(i)) \in Seq(Item)
           /\ <<Head(Packet(i))>> \in Seq(Item)
<1>1. <<H(i), T(i)>> \in Seq(Item) /\ <<T(i)>> \in Seq(Item) /\ <<H(i)>> \in Seq(Item)
  BY PacketParts
<1> QED BY <1>1, PacketParts DEF H

LEMMA ReturnType ==
    ASSUME ClientTypeOK, NEW c \in Clients, NEW status \in Status,
           NEW d \in Devices \cup {NoDev}, Return(c, status, d), sock' \in [Clients -> Conns \cup {NoSock}]
    PROVE  ClientTypeOK'
<1>1. pc' \in [Clients -> {"idle", "connect", "send", "more", "len", "body", "bye", "killed"}]
  BY DEF ClientTypeOK, Return
<1>2. cur' \in [Clients -> Calls \cup {NoCall}]
  BY DEF ClientTypeOK, Return
<1>3. outcome' \in [Calls -> Status \cup {"none", "lost"}]
  BY DEF ClientTypeOK, Return
<1>4. held' \in [Clients -> SUBSET Devices]
  BY DEF ClientTypeOK, Return
<1> QED BY <1>1, <1>2, <1>3, <1>4 DEF ClientTypeOK, Return

LEMMA DisconnectServerType ==
    ASSUME TypeOK, NEW c \in Clients, DisconnectServer(c)
    PROVE  TcpTypeOK' /\ sock' \in [Clients -> Conns \cup {NoSock}]
<1>1. sock' \in [Clients -> Conns \cup {NoSock}]
  BY DEF TypeOK, ClientTypeOK, DisconnectServer
<1>2. CASE sock[c] = NoSock
  BY <1>1, <1>2 DEF TypeOK, TcpTypeOK, DisconnectServer, tcpVars
<1>3. CASE sock[c] # NoSock
  BY <1>1, <1>3, CloseType DEF TypeOK, ClientTypeOK, DisconnectServer, Ends
<1> QED BY <1>2, <1>3

LEMMA ExitType ==
    ASSUME TypeOK, NEW c \in Clients, NEW p \in {"idle", "killed"}, Exit(c, p)
    PROVE  TcpTypeOK' /\ ClientTypeOK'
<1>1. TcpTypeOK' /\ sock' \in [Clients -> Conns \cup {NoSock}]
  BY DisconnectServerType DEF Exit
<1>2. pc' \in [Clients -> {"idle", "connect", "send", "more", "len", "body", "bye", "killed"}]
  BY DEF Exit, TypeOK, ClientTypeOK
<1>3. cur' \in [Clients -> Calls \cup {NoCall}]
  BY DEF Exit, TypeOK, ClientTypeOK
<1>4. held' \in [Clients -> SUBSET Devices]
  BY DEF Exit, TypeOK, ClientTypeOK
<1>5. outcome' \in [Calls -> Status \cup {"none", "lost"}]
  BY DEF Exit, TypeOK, ClientTypeOK
<1>6. req' \in [Calls -> Request \cup {NoRequest}]
  BY DEF Exit, TypeOK, ClientTypeOK
<1> QED BY <1>1, <1>2, <1>3, <1>4, <1>5, <1>6 DEF ClientTypeOK

LEMMA MakeCallType ==
    ASSUME TypeOK, NEW c \in Clients, MakeCall(c)
    PROVE  TcpTypeOK' /\ ClientTypeOK'
<1>1. PICK i \in Calls :
        \/ PassThruOpen(c, i)
        \/ PassThruReset(c, i)
        \/ \E d \in Devices : PassThruClose(c, i, d)
        \/ PassThruPlain(c, i)
        \/ PassThruStreamed(c, i)
        \/ AllocFails(c, i)
  BY DEF MakeCall
<1>2. UNCHANGED tcpVars
  BY <1>1 DEF PassThruOpen, PassThruReset, PassThruClose, PassThruPlain, PassThruStreamed, AllocFails
<1>3. TcpTypeOK'
  BY <1>2 DEF TypeOK, TcpTypeOK, tcpVars
<1>4. ASSUME NEW kind \in Kinds, NEW d \in Devices \cup {NoDev}, Issue(c, i, kind, d)
      PROVE  /\ req' \in [Calls -> Request \cup {NoRequest}]
             /\ cur' \in [Clients -> Calls \cup {NoCall}]
  <2>1. [client |-> c, kind |-> kind, dev |-> d] \in Request
    BY <1>4 DEF Request
  <2> QED BY <1>4, <2>1 DEF Issue, TypeOK, ClientTypeOK
<1>5. CASE PassThruOpen(c, i)
  BY <1>3, <1>5, <1>4 DEF PassThruOpen, TypeOK, ClientTypeOK, Kinds
<1>6. CASE PassThruReset(c, i)
  BY <1>3, <1>6, <1>4 DEF PassThruReset, TypeOK, ClientTypeOK, Kinds
<1>7. CASE \E d \in Devices : PassThruClose(c, i, d)
  BY <1>3, <1>7, <1>4 DEF PassThruClose, TypeOK, ClientTypeOK, Kinds
<1>8. CASE PassThruPlain(c, i)
  BY <1>3, <1>8, <1>4 DEF PassThruPlain, TypeOK, ClientTypeOK, Kinds
<1>9. CASE PassThruStreamed(c, i)
  BY <1>3, <1>9, <1>4 DEF PassThruStreamed, TypeOK, ClientTypeOK, Kinds
<1>10. CASE AllocFails(c, i)
  BY <1>3, <1>10 DEF AllocFails, TypeOK, ClientTypeOK, Request, Kinds, Status
<1> QED BY <1>1, <1>3, <1>5, <1>6, <1>7, <1>8, <1>9, <1>10

LEMMA PiecesType ==
    ASSUME TypeOK, CallsInProgress, NEW c \in Clients, pc[c] \in {"send", "more"}
    PROVE  Pieces(c) \in Seq(Item)
<1>1. cur[c] \in Calls
  BY DEF CallsInProgress, Busy
<1> QED BY <1>1, PacketType DEF Pieces

LEMMA AfterSendType ==
    \A c : AfterSend(c) \in {"more", "len"}
BY DEF AfterSend

\* The body of the reply that process c reads is a reply.
LEMMA ArrivingType ==
    ASSUME TypeOK, HandlerCalls, NEW c \in Clients, ReplyArrives(c)
    PROVE  Arriving(c) \subseteq Reply
<1>1. sock[c] \in Conns /\ inq[sock[c]]["client"] \in Seq(Item) /\ inq[sock[c]]["client"] # <<>>
  BY DEF ReplyArrives, TypeOK, TcpTypeOK, ClientTypeOK, Ends
<1>2. Head(inq[sock[c]]["client"]) \in Items(inq[sock[c]]["client"])
  BY <1>1 DEF Items
<1> QED BY <1>1, <1>2 DEF Arriving, HandlerCalls

LEMMA AdvanceCallType ==
    ASSUME TypeOK, CallsInProgress, HandlerCalls, NEW c \in Clients, AdvanceCall(c)
    PROVE  TcpTypeOK' /\ ClientTypeOK'
<1> USE DEF TypeOK
<1>1. CASE ConnectToServer(c)
  <2>1. PICK k \in Conns : Establish(k) /\ sock' = [sock EXCEPT ![c] = k]
    BY <1>1 DEF ConnectToServer
  <2>2. TcpTypeOK'
    BY <2>1, EstablishType
  <2> QED BY <1>1, <2>1, <2>2 DEF ConnectToServer, ClientTypeOK
<1>2. CASE ConnectFails(c)
  <2>1. TcpTypeOK' /\ sock' \in [Clients -> Conns \cup {NoSock}]
    BY <1>2 DEF ConnectFails, TcpTypeOK, ClientTypeOK, tcpVars
  <2> QED BY <1>2, <2>1, ReturnType DEF ConnectFails, Status
<1>3. CASE SendData(c)
  <2>1. sock[c] \in Conns
    BY <1>3 DEF SendData, ClientTypeOK
  <2>2. TcpTypeOK'
    BY <1>3, <2>1, PiecesType, SendType DEF SendData, Ends
  <2> QED BY <1>3, <2>2, AfterSendType DEF SendData, ClientTypeOK
<1>4. CASE SendDataFails(c)
  BY <1>4, DisconnectServerType, AfterSendType DEF SendDataFails, ClientTypeOK
<1>5. CASE SigPipe(c)
  BY <1>5, ExitType DEF SigPipe
<1>6. CASE GetReplyLen(c)
  <2>1. TcpTypeOK'
    BY <1>6, ReceiveType DEF GetReplyLen, ClientTypeOK, Ends
  <2> QED BY <1>6, <2>1 DEF GetReplyLen, ClientTypeOK
<1>7. CASE GetReplyLenFails(c)
  BY <1>7, DisconnectServerType, ReturnType DEF GetReplyLenFails, Status
<1>8. CASE ReplyArrives(c)
  <2>1. PICK r \in Reply : GetReplyBody(c, r)
    BY <1>8, ArrivingType DEF ReplyArrives
  <2>r. r.status \in Status /\ r.dev \in Devices \cup {NoDev}
    BY DEF Reply
  <2>2. TcpTypeOK' /\ sock' \in [Clients -> Conns \cup {NoSock}]
    BY <1>8, ReceiveType DEF ReplyArrives, GetReplyBody, Replied, ClientTypeOK, Ends
  <2>3. CASE Return(c, r.status, r.dev)
    BY <2>r, <2>2, <2>3, ReturnType
  <2>4. CASE pc' = [pc EXCEPT ![c] = "bye"] /\ UNCHANGED <<cur, held, req, outcome>>
    BY <2>2, <2>4 DEF ClientTypeOK
  <2> QED BY <2>1, <2>3, <2>4 DEF GetReplyBody, Replied
<1>9. CASE \E r \in Reply : GetReplyBodyFails(c, r)
  <2>1. PICK r \in Reply : GetReplyBodyFails(c, r)
    BY <1>9
  <2>2. r.status \in Status /\ r.dev \in Devices \cup {NoDev}
    BY DEF Reply
  <2> QED BY <2>1, <2>2, DisconnectServerType, ReturnType DEF GetReplyBodyFails
<1>10. CASE CloseDisconnects(c)
  BY <1>10, DisconnectServerType, ReturnType DEF CloseDisconnects, Status
<1> QED BY <1>1, <1>2, <1>3, <1>4, <1>5, <1>6, <1>7, <1>8, <1>9, <1>10 DEF AdvanceCall

LEMMA ClientStepType ==
    ASSUME TypeOK, CallsInProgress, HandlerCalls, NEW c \in Clients, ClientStep(c)
    PROVE  TypeOK'
<1>1. ServerTypeOK' /\ AstrayTypeOK'
  BY DEF ClientStep, TypeOK, ServerTypeOK, AstrayTypeOK, serverVars
<1>2. CASE MakeCall(c)
  BY <1>1, <1>2, MakeCallType DEF TypeOK
<1>3. CASE AdvanceCall(c)
  BY <1>1, <1>3, AdvanceCallType DEF TypeOK
<1>4. CASE Crash(c)
  BY <1>1, <1>4, ExitType DEF Crash, TypeOK
<1>5. CASE Restart(c)
  BY <1>1, <1>5 DEF Restart, TypeOK, TcpTypeOK, ClientTypeOK, tcpVars
<1> QED BY <1>2, <1>3, <1>4, <1>5 DEF ClientStep

LEMMA DisconnectType ==
    ASSUME TypeOK, NEW k \in Conns, Disconnect(k)
    PROVE  TcpTypeOK' /\ ServerTypeOK'
<1>1. TcpTypeOK'
  BY CloseType DEF Disconnect, TypeOK, Ends
<1>2. /\ hpc' \in [Conns -> {"off", "len", "body", "lib", "noise", "reply", "rest"}]
      /\ hcall' \in [Conns -> Calls \cup {NoCall}]
  BY DEF Disconnect, TypeOK, ServerTypeOK
<1> QED BY <1>1, <1>2 DEF Disconnect, TypeOK, ServerTypeOK, mainVars, libVars

LEMMA MainStepType ==
    ASSUME TypeOK, MainStep
    PROVE  TypeOK'
<1> USE DEF TypeOK
<1>1. ClientTypeOK' /\ AstrayTypeOK'
  BY DEF MainStep, ClientTypeOK, AstrayTypeOK, clientVars
<1>2. CASE Accept
  <2>1. TcpTypeOK'
    BY <1>2, TakeQueuedType DEF Accept
  <2> QED BY <1>1, <1>2, <2>1 DEF Accept, ServerTypeOK, libVars
<1>3. CASE HandlerEnded
  <2>1. stopServer' \in BOOLEAN
    BY <1>3, ServerAssumption DEF HandlerEnded
  <2> QED BY <1>1, <1>3, <2>1 DEF HandlerEnded, ServerTypeOK, libVars, TcpTypeOK, tcpVars
<1>4. CASE StopListening
  <2>1. TcpTypeOK'
    BY <1>4, CloseListenerType DEF StopListening
  <2>2. loaded' \in BOOLEAN
    BY <1>4 DEF StopListening
  <2> QED BY <1>1, <1>4, <2>1, <2>2 DEF StopListening, ServerTypeOK
<1>5. CASE StartServer
  <2>1. TcpTypeOK'
    BY <1>5, ListenType DEF StartServer
  <2>2. loaded' \in BOOLEAN /\ stopServer' \in BOOLEAN
    BY <1>5 DEF StartServer
  <2> QED BY <1>1, <1>5, <2>1, <2>2 DEF StartServer, ServerTypeOK, libVars
<1> QED BY <1>2, <1>3, <1>4, <1>5 DEF MainStep

LEMMA AnswersType ==
    ASSUME TypeOK, NEW r \in Request, NEW a \in Answers(r)
    PROVE  a[1] \in Reply /\ a[2] \subseteq Devices
<1>1. [status |-> "ERR_FAILED", dev |-> NoDev] \in Reply
  BY DEF Reply, Status
<1>2. \A d \in Devices \cup {NoDev} : [status |-> "STATUS_NOERROR", dev |-> d] \in Reply
  BY DEF Reply, Status
<1>3. opened \subseteq Devices
  BY DEF TypeOK, ServerTypeOK
<1>4. r.kind \in Kinds
  BY DEF Request
<1>5. CASE r.kind = "OPEN"
  BY <1>1, <1>2, <1>3, <1>5 DEF Answers
<1>6. CASE r.kind = "CLOSE"
  BY <1>1, <1>2, <1>3, <1>6 DEF Answers
<1>7. CASE r.kind \notin {"OPEN", "CLOSE"}
  BY <1>1, <1>2, <1>3, <1>7 DEF Answers
<1> QED BY <1>5, <1>6, <1>7

LEMMA HandlerStepType ==
    ASSUME TypeOK, HandlerCalls, NEW k \in Conns, HandlerStep(k)
    PROVE  TypeOK'
<1> USE DEF TypeOK
<1>0. ClientTypeOK' /\ AstrayTypeOK'
  BY DEF HandlerStep, ClientTypeOK, AstrayTypeOK, clientVars
<1>c. hpc[k] \in {"body", "lib", "noise", "reply", "rest"} =>
          hcall[k] \in Calls /\ req[hcall[k]] \in Request
  BY DEF HandlerCalls, ClientTypeOK
<1>1. CASE RecvLen(k)
  <2>1. TcpTypeOK'
    BY <1>1, ReceiveType DEF RecvLen, Ends
  <2>2. inq[k]["server"] \in Seq(Item) /\ inq[k]["server"] # <<>>
    BY <1>1 DEF RecvLen, Receive, TcpTypeOK, Ends
  <2>3. Head(inq[k]["server"]).call \in Calls
    <3>1. Head(inq[k]["server"]) \in Item
      BY <2>2
    <3> QED BY <3>1 DEF Item
  <2> QED BY <1>0, <1>1, <2>1, <2>3 DEF RecvLen, ServerTypeOK, mainVars, libVars
<1>2. CASE RecvBody(k)
  <2>1. TcpTypeOK'
    BY <1>2, ReceiveType DEF RecvBody, Ends
  <2> QED BY <1>0, <1>2, <2>1 DEF RecvBody, ServerTypeOK, mainVars, libVars
<1>3. CASE RecvEnds(k) \/ RecvTimesOut(k) \/ SendReplyFails(k)
  BY <1>0, <1>3, DisconnectType DEF RecvEnds, RecvTimesOut, SendReplyFails
<1>4. CASE ProcessCommand(k)
  <2>1. PICK a \in Answers(req[hcall[k]]) :
            /\ answer' = [answer EXCEPT ![hcall[k]] = a[1]]
            /\ opened' = a[2]
    BY <1>4 DEF ProcessCommand
  <2>2. hcall[k] \in Calls /\ req[hcall[k]] \in Request
    BY <1>4, <1>c DEF ProcessCommand
  <2>3. a[1] \in Reply /\ a[2] \subseteq Devices
    BY <2>2, AnswersType
  <2>4. answer' \in [Calls -> Reply \cup {NoReply}] /\ opened' \subseteq Devices
    BY <2>1, <2>3 DEF ServerTypeOK
  <2>5. executed' \in Seq(Calls)
    BY <1>4, <2>2 DEF ProcessCommand, ServerTypeOK
  <2>6. TcpTypeOK'
    BY <1>4 DEF ProcessCommand, TcpTypeOK, tcpVars
  <2> QED BY <1>0, <1>4, <2>4, <2>5, <2>6 DEF ProcessCommand, ServerTypeOK, mainVars
<1>5. CASE ProcessCommandNull(k)
  BY <1>0, <1>5 DEF ProcessCommandNull, ServerTypeOK, TcpTypeOK, mainVars, libVars, tcpVars
<1>6. CASE SendReply(k)
  <2>1. TcpTypeOK'
    BY <1>c, <1>6, PacketType, SendType DEF SendReply, Ends
  <2> QED BY <1>0, <1>6, <2>1 DEF SendReply, ServerTypeOK, mainVars, libVars
<1>7. CASE SendReplyPart(k)
  <2>1. TcpTypeOK'
    BY <1>c, <1>7, PacketType, SendType DEF SendReplyPart, Ends
  <2> QED BY <1>0, <1>7, <2>1 DEF SendReplyPart, ServerTypeOK, mainVars, libVars
<1>8. CASE ServerSigPipe(k)
  <2>1. TcpTypeOK'
    BY <1>8, CloseListenerType DEF ServerSigPipe
  <2>2. /\ hpc' \in [Conns -> {"off", "len", "body", "lib", "noise", "reply", "rest"}]
        /\ hcall' \in [Conns -> Calls \cup {NoCall}]
    BY <1>8 DEF ServerSigPipe
  <2>3. loaded' \in BOOLEAN
    BY <1>8 DEF ServerSigPipe
  <2> QED BY <1>0, <1>8, <2>1, <2>2, <2>3 DEF ServerSigPipe, ServerTypeOK
<1> QED BY <1>1, <1>2, <1>3, <1>4, <1>5, <1>6, <1>7, <1>8 DEF HandlerStep, Receiving, Serving

LEMMA NextType ==
    ASSUME TypeOK, CallsInProgress, HandlerCalls, [OrderlyNext]_vars
    PROVE  TypeOK'
<1>1. ASSUME NEW c \in Clients, ClientStep(c)
      PROVE  TypeOK'
  BY <1>1, ClientStepType
<1>2. CASE MainStep
  BY <1>2, MainStepType
<1>3. ASSUME NEW k \in Conns, HandlerStep(k)
      PROVE  TypeOK'
  BY <1>3, HandlerStepType
<1>4. CASE NetworkStep
  <2>1. PICK k \in Conns : Lose(k)
    BY <1>4 DEF NetworkStep
  <2>2. TcpTypeOK'
    BY <2>1, LoseType DEF TypeOK
  <2> QED BY <1>4, <2>2 DEF NetworkStep, TypeOK, ClientTypeOK, ServerTypeOK, AstrayTypeOK, clientVars, serverVars
<1>5. CASE UNCHANGED vars
  BY <1>5 DEF vars, tcpVars, clientVars, serverVars, TypeOK, TcpTypeOK, ClientTypeOK,
         ServerTypeOK, AstrayTypeOK
<1> QED BY <1>1, <1>2, <1>3, <1>4, <1>5 DEF OrderlyNext

-----------------------------------------------------------------------------
(* Every step keeps the parts of the invariant. *)

\* What a queue may hold after each of the operations.
LEMMA ReceiveItems ==
    ASSUME TcpTypeOK, NEW k \in Conns, NEW e \in Ends, NEW part,
           Receive(k, e, part), NEW j \in Conns, NEW x \in Ends
    PROVE  Items(inq'[j][x]) \subseteq Items(inq[j][x])
<1>1. inq[k][e] \in Seq(Item) /\ inq[k][e] # <<>>
  BY DEF Receive, TcpTypeOK
<1>2. Items(Tail(inq[k][e])) \subseteq Items(inq[k][e])
  <2>1. /\ Len(Tail(inq[k][e])) = Len(inq[k][e]) - 1
        /\ \A n \in 1 .. Len(Tail(inq[k][e])) : Tail(inq[k][e])[n] = inq[k][e][n + 1]
    BY <1>1
  <2>2. Len(inq[k][e]) \in Nat
    BY <1>1
  <2> QED BY <2>1, <2>2 DEF Items
<1>3. inq'[j][x] = IF j = k /\ x = e THEN Tail(inq[k][e]) ELSE inq[j][x]
  BY DEF Receive, TcpTypeOK
<1> QED BY <1>2, <1>3

LEMMA SendItems ==
    ASSUME TcpTypeOK, NEW k \in Conns, NEW e \in Ends, NEW items \in Seq(Item),
           Send(k, e, items), NEW j \in Conns, NEW x \in Ends
    PROVE  IF j = k /\ x = Peer(e)
           THEN Items(inq'[j][x]) \subseteq Items(inq[j][x]) \cup Items(items)
           ELSE inq'[j][x] = inq[j][x]
<1>1. CASE UNCHANGED inq
  BY <1>1
<1>2. CASE inq' = [inq EXCEPT ![k][Peer(e)] = @ \o items]
  <2>1. inq[k][Peer(e)] \in Seq(Item)
    BY PeerEnd DEF TcpTypeOK
  <2>2. Items(inq[k][Peer(e)] \o items) \subseteq Items(inq[k][Peer(e)]) \cup Items(items)
    <3> DEFINE q == inq[k][Peer(e)]
    <3>1. /\ Len(q \o items) = Len(q) + Len(items)
          /\ \A n \in 1 .. Len(q) + Len(items) :
                (q \o items)[n] = IF n <= Len(q) THEN q[n] ELSE items[n - Len(q)]
      BY <2>1
    <3>2. Len(q) \in Nat /\ Len(items) \in Nat
      BY <2>1
    <3>3. ASSUME NEW n \in 1 .. Len(q) + Len(items)
          PROVE  (q \o items)[n] \in Items(q) \cup Items(items)
      <4>1. CASE n <= Len(q)
        BY <3>1, <3>2, <4>1 DEF Items
      <4>2. CASE n > Len(q)
        <5>1. n - Len(q) \in 1 .. Len(items)
          BY <3>2, <4>2
        <5>2. (q \o items)[n] = items[n - Len(q)]
          BY <3>1, <3>2, <4>2
        <5> QED BY <5>1, <5>2 DEF Items
      <4> QED BY <3>2, <4>1, <4>2
    <3> QED BY <3>1, <3>3 DEF Items
  <2>3. inq'[j][x] = IF j = k /\ x = Peer(e) THEN inq[k][Peer(e)] \o items
                                            ELSE inq[j][x]
    BY <1>2, PeerEnd DEF TcpTypeOK
  <2> QED BY <2>2, <2>3
<1> QED BY <1>1, <1>2 DEF Send

LEMMA NoItems == Items(<<>>) = {}
BY DEF Items

LEMMA CloseAllItems ==
    ASSUME TcpTypeOK, NEW K, NEW e \in Ends, NEW R, CloseAll(K, e, R),
           NEW j \in Conns, NEW x \in Ends
    PROVE  /\ inq'[j][x] = IF j \in K /\ x = e THEN <<>> ELSE inq[j][x]
           /\ st'[j][x] = IF j \in K /\ x = e THEN "closed" ELSE st[j][x]
           /\ Items(inq'[j][x]) \subseteq Items(inq[j][x])
BY NoItems DEF CloseAll, TcpTypeOK

LEMMA CloseItems ==
    ASSUME TcpTypeOK, NEW k \in Conns, NEW e \in Ends, Close(k, e),
           NEW j \in Conns, NEW x \in Ends
    PROVE  /\ inq'[j][x] = IF j = k /\ x = e THEN <<>> ELSE inq[j][x]
           /\ st'[j][x] = IF j = k /\ x = e THEN "closed" ELSE st[j][x]
           /\ Items(inq'[j][x]) \subseteq Items(inq[j][x])
<1>1. PICK R : CloseAll({k}, e, R)
  BY DEF Close
<1>2. /\ inq'[j][x] = IF j \in {k} /\ x = e THEN <<>> ELSE inq[j][x]
      /\ st'[j][x] = IF j \in {k} /\ x = e THEN "closed" ELSE st[j][x]
      /\ Items(inq'[j][x]) \subseteq Items(inq[j][x])
  BY <1>1, CloseAllItems
<1> QED BY <1>2

LEMMA PrefixItems ==
    ASSUME NEW q \in Seq(Item), NEW e, NEW p \in Prefixes(q, e)
    PROVE  Items(p) \subseteq Items(q)
<1>1. PICK n \in 0 .. Len(q) : p = SubSeq(q, 1, n)
  BY DEF Prefixes
<1>2. Len(q) \in Nat
  OBVIOUS
<1>3. Len(p) = n /\ \A m \in 1 .. n : p[m] = q[m]
  BY <1>1, <1>2
<1> QED BY <1>2, <1>3 DEF Items

LEMMA LoseItems ==
    ASSUME TcpTypeOK, NEW k \in Conns, Lose(k), NEW j \in Conns, NEW x \in Ends
    PROVE  IF j = k THEN inq'[j][x] \in Prefixes(inq[j][x], x)
                    ELSE inq'[j][x] = inq[j][x]
<1>1. PICK c \in Prefixes(inq[k]["client"], "client"),
           s \in Prefixes(inq[k]["server"], "server") :
        inq' = [inq EXCEPT ![k] = [e \in Ends |-> IF e = "client" THEN c ELSE s]]
  BY DEF Lose
<1> QED BY <1>1 DEF TcpTypeOK, Ends

\* What a new call changes: it is recorded, and the process starts on it,
\* unless it fails on the spot.
LEMMA MakeCallEffect ==
    ASSUME TypeOK, NEW c \in Clients, MakeCall(c)
    PROVE  /\ UNCHANGED <<tcpVars, sock>> /\ pc[c] = "idle"
           /\ \E i \in Calls :
                /\ req[i] = NoRequest /\ req'[i] \in Request /\ req'[i].client = c
                /\ \A j \in Calls : j < i => req[j] # NoRequest
                /\ \A j \in Calls : j # i => req'[j] = req[j]
                /\ \/ /\ \E p \in {"connect", "send"} :
                           /\ pc' = [pc EXCEPT ![c] = p]
                           /\ p = "connect" => sock[c] = NoSock
                      /\ cur' = [cur EXCEPT ![c] = i]
                      /\ UNCHANGED outcome
                   \/ /\ UNCHANGED <<pc, cur, held>>
                      /\ outcome' = [outcome EXCEPT ![i] = "ERR_FAILED"]
<1> USE DEF TypeOK, ClientTypeOK
<1>1. PICK i \in Calls :
        \/ PassThruOpen(c, i)
        \/ PassThruReset(c, i)
        \/ \E d \in Devices : PassThruClose(c, i, d)
        \/ PassThruPlain(c, i)
        \/ PassThruStreamed(c, i)
        \/ AllocFails(c, i)
  BY DEF MakeCall
<1>2. UNCHANGED <<tcpVars, sock>> /\ pc[c] = "idle"
  BY <1>1 DEF PassThruOpen, PassThruReset, PassThruClose, PassThruPlain,
              PassThruStreamed, AllocFails, Issue
<1>i. i \in Nat /\ \A j \in Calls : j < i => j \in 1 .. (i - 1)
  BY TcpAssumption DEF Calls
<1>3. ASSUME NEW kind \in Kinds, NEW d \in Devices \cup {NoDev}, Issue(c, i, kind, d)
      PROVE  /\ req[i] = NoRequest /\ req'[i] \in Request /\ req'[i].client = c
             /\ \A j \in Calls : j < i => req[j] # NoRequest
             /\ \A j \in Calls : j # i => req'[j] = req[j]
             /\ cur' = [cur EXCEPT ![c] = i]
  <2>1. req'[i] = [client |-> c, kind |-> kind, dev |-> d]
    BY <1>3 DEF Issue
  <2>2. req'[i] \in Request /\ req'[i].client = c
    BY <2>1 DEF Request
  <2> QED BY <1>3, <1>i, <2>2 DEF Issue
<1>4. CASE PassThruOpen(c, i)
  BY <1>2, <1>3, <1>4 DEF PassThruOpen, Kinds
<1>5. CASE PassThruReset(c, i)
  BY <1>2, <1>3, <1>5 DEF PassThruReset, Kinds
<1>6. CASE \E d \in Devices : PassThruClose(c, i, d)
  BY <1>2, <1>3, <1>6 DEF PassThruClose, Kinds
<1>7. CASE PassThruPlain(c, i)
  BY <1>2, <1>3, <1>7 DEF PassThruPlain, Kinds
<1>8. CASE PassThruStreamed(c, i)
  BY <1>2, <1>3, <1>8 DEF PassThruStreamed, Kinds
<1>9. CASE AllocFails(c, i)
  <2>1. req'[i] = [client |-> c, kind |-> "PLAIN", dev |-> NoDev]
    BY <1>9 DEF AllocFails
  <2>2. req'[i] \in Request /\ req'[i].client = c
    BY <2>1 DEF Request, Kinds
  <2> QED BY <1>2, <1>i, <1>9, <2>2 DEF AllocFails
<1> QED BY <1>1, <1>4, <1>5, <1>6, <1>7, <1>8, <1>9

\* What the other steps of a process change in its call.
LEMMA CallEffect ==
    ASSUME TypeOK, NEW c \in Clients, AdvanceCall(c) \/ Crash(c) \/ Restart(c)
    PROVE  /\ UNCHANGED req
           /\ \/ /\ pc[c] \in Busy /\ UNCHANGED cur
                 /\ \E p \in Busy \ {"connect"} : pc' = [pc EXCEPT ![c] = p]
              \/ /\ cur' = [cur EXCEPT ![c] = NoCall]
                 /\ \E p \in {"idle", "killed"} : pc' = [pc EXCEPT ![c] = p]
              \/ Restart(c)
<1> USE DEF Busy
<1>1. CASE AdvanceCall(c)
  <2>1. CASE ConnectToServer(c) \/ SendData(c) \/ SendDataFails(c) \/ GetReplyLen(c)
    BY <2>1, AfterSendType DEF ConnectToServer, SendData, SendDataFails, GetReplyLen
  <2>2. CASE ConnectFails(c) \/ GetReplyLenFails(c) \/ CloseDisconnects(c)
    BY <2>2 DEF ConnectFails, GetReplyLenFails, CloseDisconnects, Return
  <2>3. CASE SigPipe(c)
    BY <2>3 DEF SigPipe, Exit
  <2>4. CASE ReplyArrives(c)
    BY <2>4 DEF ReplyArrives, GetReplyBody, Replied, Return
  <2>5. CASE \E r \in Reply : GetReplyBodyFails(c, r)
    BY <2>5 DEF GetReplyBodyFails, Return
  <2> QED BY <1>1, <2>1, <2>2, <2>3, <2>4, <2>5 DEF AdvanceCall
<1>2. CASE Crash(c)
  BY <1>2 DEF Crash, Exit
<1>3. CASE Restart(c)
  BY <1>3 DEF Restart
<1> QED BY <1>1, <1>2, <1>3

\* A process is in a call of its own as long as it is busy, and only then.
LEMMA CallsInProgressStep ==
    ASSUME TypeOK, CallsInProgress, [OrderlyNext]_vars
    PROVE  CallsInProgress'
<1> USE DEF TypeOK, ClientTypeOK
<1>u. ASSUME UNCHANGED clientVars PROVE CallsInProgress'
  BY <1>u DEF clientVars, CallsInProgress
<1>1. ASSUME NEW c \in Clients, ClientStep(c)
      PROVE  CallsInProgress'
  <2>1. CASE MakeCall(c)
    <3>1. PICK i \in Calls :
                /\ req[i] = NoRequest /\ req'[i] \in Request /\ req'[i].client = c
                /\ \A j \in Calls : j # i => req'[j] = req[j]
                /\ \/ /\ \E p \in {"connect", "send"} : pc' = [pc EXCEPT ![c] = p]
                      /\ cur' = [cur EXCEPT ![c] = i]
                   \/ UNCHANGED <<pc, cur, held>>
      BY <2>1, MakeCallEffect
    <3>2. req'[i] # NoRequest
      BY <3>1, RequestAssumption
    <3> QED BY <3>1, <3>2 DEF CallsInProgress, Busy
  <2>2. CASE AdvanceCall(c) \/ Crash(c) \/ Restart(c)
    <3>1. /\ UNCHANGED req
          /\ \/ /\ pc[c] \in Busy /\ UNCHANGED cur
                /\ \E p \in Busy : pc' = [pc EXCEPT ![c] = p]
             \/ /\ cur' = [cur EXCEPT ![c] = NoCall]
                /\ \E p \in {"idle", "killed"} : pc' = [pc EXCEPT ![c] = p]
             \/ Restart(c)
      BY <2>2, CallEffect
    <3>2. CASE Restart(c)
      BY <3>2 DEF Restart, CallsInProgress, Busy
    <3> QED BY <3>1, <3>2 DEF CallsInProgress, Busy
  <2> QED BY <1>1, <2>1, <2>2 DEF ClientStep
<1>2. CASE MainStep \/ NetworkStep \/ UNCHANGED vars
  BY <1>2, <1>u DEF MainStep, NetworkStep, vars
<1>3. ASSUME NEW k \in Conns, HandlerStep(k)
      PROVE  CallsInProgress'
  BY <1>3, <1>u DEF HandlerStep
<1> QED BY <1>1, <1>2, <1>3 DEF OrderlyNext

\* Main waits for the only handler.
LEMMA OneHandlerStep ==
    ASSUME TypeOK, OneHandler, [OrderlyNext]_vars
    PROVE  OneHandler'
<1> USE DEF TypeOK, ServerTypeOK
<1>u. ASSUME UNCHANGED serverVars PROVE OneHandler'
  BY <1>u DEF serverVars, OneHandler
<1>1. ASSUME NEW c \in Clients, ClientStep(c)
      PROVE  OneHandler'
  BY <1>1, <1>u DEF ClientStep
<1>2. CASE MainStep
  <2>1. CASE Accept
    BY <2>1 DEF Accept, OneHandler
  <2>2. CASE HandlerEnded
    BY <2>2 DEF HandlerEnded, OneHandler
  <2>3. CASE StopListening
    BY <2>3 DEF StopListening, OneHandler
  <2>4. CASE StartServer
    BY <2>4 DEF StartServer, OneHandler
  <2> QED BY <1>2, <2>1, <2>2, <2>3, <2>4 DEF MainStep
<1>3. ASSUME NEW k \in Conns, HandlerStep(k)
      PROVE  OneHandler'
  <2>1. CASE ServerSigPipe(k)
    BY <2>1 DEF ServerSigPipe, OneHandler
  <2>2. hpc[k] # "off"
    BY <1>3 DEF HandlerStep, Receiving, Serving, RecvLen, RecvBody, RecvEnds,
                RecvTimesOut, ProcessCommand, ProcessCommandNull, SendReply,
                SendReplyPart, SendReplyFails, ServerSigPipe
  <2>3. mainPc = "join" /\ k = serving
    BY <2>2 DEF OneHandler
  <2>4. CASE ~ServerSigPipe(k)
    <3>1. /\ UNCHANGED mainVars
          /\ \A j \in Conns : j # k => hpc'[j] = hpc[j]
      BY <1>3, <2>4 DEF HandlerStep, Receiving, Serving, RecvLen, RecvBody, RecvEnds,
                RecvTimesOut, ProcessCommand, ProcessCommandNull, SendReply,
                SendReplyPart, SendReplyFails, Disconnect
    <3> QED BY <2>3, <3>1 DEF OneHandler, mainVars
  <2> QED BY <2>1, <2>4
<1>4. CASE NetworkStep \/ UNCHANGED vars
  BY <1>4, <1>u DEF NetworkStep, vars
<1> QED BY <1>1, <1>2, <1>3, <1>4 DEF OrderlyNext

LEMMA DisconnectServerItems ==
    ASSUME TypeOK, NEW c \in Clients, DisconnectServer(c),
           NEW j \in Conns, NEW x \in Ends
    PROVE  /\ Items(inq'[j][x]) \subseteq Items(inq[j][x])
           /\ j # sock[c] \/ x # "client" => inq'[j][x] = inq[j][x] /\ st'[j][x] = st[j][x]
           /\ j = sock[c] => inq'[j]["client"] = <<>> /\ st'[j]["client"] = "closed"
           /\ UNCHANGED <<cut, backlog, listening>>
<1>1. CASE sock[c] = NoSock
  <2>1. UNCHANGED tcpVars
    BY <1>1 DEF DisconnectServer
  <2>2. UNCHANGED st /\ UNCHANGED inq /\ UNCHANGED <<cut, backlog, listening>>
    BY <2>1 DEF tcpVars
  <2>3. j # sock[c]
    BY <1>1, ClientAssumption
  <2>4. inq'[j][x] = inq[j][x] /\ st'[j][x] = st[j][x]
    BY <2>2
  <2>5. Items(inq'[j][x]) \subseteq Items(inq[j][x])
    BY <2>4
  <2> QED BY <2>2, <2>3, <2>4, <2>5
<1>2. CASE sock[c] # NoSock
  <2>1. sock[c] \in Conns /\ Close(sock[c], "client")
    BY <1>2 DEF DisconnectServer, TypeOK, ClientTypeOK
  <2>2. UNCHANGED <<cut, backlog, listening>>
    BY <2>1 DEF Close
  <2>3. TcpTypeOK /\ "client" \in Ends
    BY DEF TypeOK, Ends
  <2>4. \A y \in Ends :
          /\ inq'[j][y] = IF j = sock[c] /\ y = "client" THEN <<>> ELSE inq[j][y]
          /\ st'[j][y] = IF j = sock[c] /\ y = "client" THEN "closed" ELSE st[j][y]
          /\ Items(inq'[j][y]) \subseteq Items(inq[j][y])
    BY <2>1, <2>3, CloseItems
  <2> QED BY <2>2, <2>3, <2>4
<1> QED BY <1>1, <1>2

LEMMA PacketItems ==
    ASSUME NEW i \in Calls
    PROVE  /\ \A m \in Items(Packet(i)) : m.call = i
           /\ \A m \in Items(Tail(Packet(i))) : m.call = i
           /\ \A m \in Items(<<Head(Packet(i))>>) : m.call = i
<1>1. \A a, b : Items(<<a, b>>) = {a, b} /\ Items(<<a>>) = {a}
  BY DEF Items
<1>2. H(i).call = i /\ T(i).call = i
  BY PacketParts
<1>3. Packet(i) = <<H(i), T(i)>> /\ Tail(Packet(i)) = <<T(i)>>
  BY PacketParts
<1>4. Head(Packet(i)) = H(i)
  BY DEF H
<1> QED BY <1>1, <1>2, <1>3, <1>4

LEMMA PiecesItems ==
    ASSUME CallsInProgress, NEW c \in Clients, pc[c] \in {"send", "more"}
    PROVE  \A m \in Items(Pieces(c)) : m.call = cur[c]
<1>1. cur[c] \in Calls
  BY DEF CallsInProgress, Busy
<1> QED BY <1>1, PacketItems DEF Pieces

\* A process takes items off its own queue, and adds to a server's queue only
\* what belongs to the call it is in.
LEMMA CallItems ==
    ASSUME TypeOK, CallsInProgress, NEW c \in Clients,
           AdvanceCall(c) \/ Crash(c) \/ Restart(c), NEW j \in Conns
    PROVE  /\ Items(inq'[j]["client"]) \subseteq Items(inq[j]["client"])
           /\ \A m \in Items(inq'[j]["server"]) :
                  \/ m \in Items(inq[j]["server"])
                  \/ pc[c] \in Busy /\ m.call = cur[c]
<1> USE DEF TypeOK, Ends
<1>1. CASE ConnectToServer(c)
  BY <1>1 DEF ConnectToServer, Establish
<1>2. CASE ConnectFails(c) \/ Restart(c)
  BY <1>2 DEF ConnectFails, Restart, tcpVars
<1>3. CASE SendData(c)
  <2>1. sock[c] \in Conns /\ Pieces(c) \in Seq(Item) /\ Send(sock[c], "client", Pieces(c))
    BY <1>3, PiecesType DEF SendData, ClientTypeOK
  <2>2. /\ inq'[j]["client"] = inq[j]["client"]
        /\ Items(inq'[j]["server"]) \subseteq Items(inq[j]["server"]) \cup Items(Pieces(c))
    BY <2>1, SendItems DEF Peer
  <2> QED BY <1>3, <2>2, PiecesItems DEF SendData, Busy
<1>4. CASE GetReplyLen(c)
  BY <1>4, ReceiveItems DEF GetReplyLen, ClientTypeOK
<1>5. CASE ReplyArrives(c)
  BY <1>5, ReceiveItems DEF ReplyArrives, GetReplyBody, Replied, ClientTypeOK
<1>6. CASE DisconnectServer(c)
  BY <1>6, DisconnectServerItems
<1>7. SendDataFails(c) \/ SigPipe(c) \/ GetReplyLenFails(c) \/ CloseDisconnects(c)
        \/ (\E r \in Reply : GetReplyBodyFails(c, r)) \/ Crash(c)
      => DisconnectServer(c)
  BY DEF SendDataFails, SigPipe, Exit, GetReplyLenFails, CloseDisconnects,
         GetReplyBodyFails, Crash
<1> QED BY <1>1, <1>2, <1>3, <1>4, <1>5, <1>6, <1>7 DEF AdvanceCall

\* A call is what it was when it was made.
LEMMA RequestsStay ==
    ASSUME TypeOK, [OrderlyNext]_vars, NEW i \in Calls, req[i] # NoRequest
    PROVE  req'[i] = req[i]
<1>1. ASSUME NEW c \in Clients, ClientStep(c)
      PROVE  req'[i] = req[i]
  <2>1. CASE MakeCall(c)
    BY <2>1, MakeCallEffect
  <2>2. CASE AdvanceCall(c) \/ Crash(c) \/ Restart(c)
    BY <2>2, CallEffect
  <2> QED BY <1>1, <2>1, <2>2 DEF ClientStep
<1>2. UNCHANGED clientVars => req'[i] = req[i]
  BY DEF clientVars
<1> QED BY <1>1, <1>2 DEF OrderlyNext, MainStep, HandlerStep, NetworkStep, vars

\* What the library answered is an answer.
LEMMA AnswersStay ==
    ASSUME TypeOK, HandlerCalls, [OrderlyNext]_vars
    PROVE  \A i \in Calls : answer[i] \in Reply => answer'[i] \in Reply
<1>1. UNCHANGED libVars \/ UNCHANGED answer => \A i \in Calls : answer'[i] = answer[i]
  BY DEF libVars
<1>2. ASSUME NEW k \in Conns, ProcessCommand(k)
      PROVE  \A i \in Calls : answer[i] \in Reply => answer'[i] \in Reply
  <2>1. PICK a \in Answers(req[hcall[k]]) : answer' = [answer EXCEPT ![hcall[k]] = a[1]]
    BY <1>2 DEF ProcessCommand
  <2>2. hcall[k] \in Calls /\ req[hcall[k]] \in Request
    BY <1>2 DEF ProcessCommand, HandlerCalls, TypeOK, ClientTypeOK
  <2>3. a[1] \in Reply
    BY <2>2, AnswersType
  <2> QED BY <2>1, <2>3 DEF TypeOK, ServerTypeOK
<1>3. ASSUME NEW k \in Conns, HandlerStep(k), ~ProcessCommand(k)
      PROVE  UNCHANGED answer
  BY <1>3 DEF HandlerStep, Receiving, Serving, RecvLen, RecvBody, RecvEnds,
       RecvTimesOut, ProcessCommandNull, SendReply, SendReplyPart,
       SendReplyFails, Disconnect, ServerSigPipe, libVars
<1>4. (\E c \in Clients : ClientStep(c)) \/ MainStep \/ NetworkStep \/ UNCHANGED vars
      => UNCHANGED answer
  BY DEF ClientStep, MainStep, NetworkStep, vars, serverVars, Accept, HandlerEnded,
         StopListening, StartServer, libVars
<1> QED BY <1>1, <1>2, <1>3, <1>4 DEF OrderlyNext

\* What the steps of a handler put into the queues: replies to the call it
\* has executed.
LEMMA HandlerItems ==
    ASSUME TypeOK, HandlerCalls, NEW k \in Conns, HandlerStep(k), NEW j \in Conns
    PROVE  /\ Items(inq'[j]["server"]) \subseteq Items(inq[j]["server"])
           /\ \A m \in Items(inq'[j]["client"]) :
                  \/ m \in Items(inq[j]["client"])
                  \/ j = k /\ hpc[k] \in {"reply", "rest"} /\ m.call = hcall[k]
<1> USE DEF TypeOK, Ends
<1>1. CASE RecvLen(k) \/ RecvBody(k)
  BY <1>1, ReceiveItems DEF RecvLen, RecvBody
<1>2. CASE Disconnect(k)
  BY <1>2, CloseItems DEF Disconnect
<1>3. CASE ProcessCommand(k) \/ ProcessCommandNull(k)
  BY <1>3 DEF ProcessCommand, ProcessCommandNull, tcpVars
<1>4. ASSUME NEW items \in Seq(Item), Send(k, "server", items), hcall[k] \in Calls,
             hpc[k] \in {"reply", "rest"}, \A m \in Items(items) : m.call = hcall[k]
      PROVE  /\ inq'[j]["server"] = inq[j]["server"]
             /\ \A m \in Items(inq'[j]["client"]) :
                  \/ m \in Items(inq[j]["client"])
                  \/ j = k /\ hpc[k] \in {"reply", "rest"} /\ m.call = hcall[k]
  <2>1. /\ inq'[j]["server"] = inq[j]["server"]
        /\ IF j = k
           THEN Items(inq'[j]["client"]) \subseteq Items(inq[j]["client"]) \cup Items(items)
           ELSE inq'[j]["client"] = inq[j]["client"]
    BY <1>4, SendItems DEF Peer
  <2> QED BY <1>4, <2>1
<1>5. CASE SendReply(k) \/ SendReplyPart(k)
  <2>1. hpc[k] \in {"reply", "rest"} /\ hcall[k] \in Calls
    BY <1>5 DEF SendReply, SendReplyPart, HandlerCalls
  <2>2. PICK items \in {Packet(hcall[k]), Tail(Packet(hcall[k])), <<Head(Packet(hcall[k]))>>} :
            Send(k, "server", items)
    BY <1>5 DEF SendReply, SendReplyPart
  <2>3. items \in Seq(Item) /\ \A m \in Items(items) : m.call = hcall[k]
    BY <2>1, PacketType, PacketItems
  <2> QED BY <1>4, <2>1, <2>2, <2>3
<1>6. CASE ServerSigPipe(k)
  BY <1>6, CloseAllItems DEF ServerSigPipe, CloseListener
<1> QED BY <1>1, <1>2, <1>3, <1>5, <1>6
        DEF HandlerStep, Receiving, Serving, RecvEnds, RecvTimesOut, SendReplyFails

\* Handlers work on calls that were made, and send answers that were given.
LEMMA HandlerCallsStep ==
    ASSUME TypeOK, CallsInProgress, HandlerCalls, [OrderlyNext]_vars
    PROVE  HandlerCalls'
<1> USE DEF TypeOK, Ends
<1>s. astray' = astray
  BY DEF OrderlyNext, ClientStep, MainStep, HandlerStep, NetworkStep, vars
<1>r. \A i \in Calls : req[i] # NoRequest => req'[i] # NoRequest
  BY RequestsStay
<1>a. \A i \in Calls : answer[i] \in Reply => answer'[i] \in Reply
  BY AnswersStay
<1>t. \A j \in Conns : \A x \in Ends : \A m \in Items(inq[j][x]) : m.call \in Calls
  <2>1. ASSUME NEW j \in Conns, NEW x \in Ends, NEW m \in Items(inq[j][x])
        PROVE  m.call \in Calls
    <3>1. inq[j][x] \in Seq(Item)
      BY DEF TcpTypeOK
    <3>2. m \in Item
      BY <3>1 DEF Items
    <3> QED BY <3>2 DEF Item
  <2> QED BY <2>1
<1>i. ASSUME \A j \in Conns :
                 /\ \A m \in Items(inq'[j]["client"]) :
                        m \in Items(inq[j]["client"])
                          \/ /\ m.call \in Calls
                             /\ j \in astray["server"] \/ answer[m.call] \in Reply
                 /\ \A m \in Items(inq'[j]["server"]) :
                        m \in Items(inq[j]["server"])
                          \/ (m.call \in Calls /\ req[m.call] # NoRequest)
      PROVE  /\ \A k \in Conns : \A m \in Items(inq'[k]["server"]) : req'[m.call] # NoRequest
             /\ \A k \in Conns : \A m \in Items(inq'[k]["client"]) :
                    k \in astray'["server"] \/ answer'[m.call] \in Reply
  BY <1>i, <1>s, <1>r, <1>a, <1>t DEF HandlerCalls
<1>h. ASSUME UNCHANGED <<hpc, hcall>>
      PROVE  /\ \A k \in Conns : hpc'[k] \in {"body", "lib", "noise", "reply", "rest"} =>
                    hcall'[k] \in Calls /\ req'[hcall'[k]] # NoRequest
             /\ \A k \in Conns : hpc'[k] = "noise" => k \in astray'["server"]
             /\ \A k \in Conns : hpc'[k] \in {"reply", "rest"} =>
                    k \in astray'["server"] \/ answer'[hcall'[k]] \in Reply
  BY <1>h, <1>s, <1>r, <1>a DEF HandlerCalls
<1>1. ASSUME NEW c \in Clients, ClientStep(c)
      PROVE  HandlerCalls'
  <2>1. UNCHANGED <<hpc, hcall>>
    BY <1>1 DEF ClientStep, serverVars
  <2>2. CASE MakeCall(c)
    <3>1. UNCHANGED inq
      BY <2>2, MakeCallEffect DEF tcpVars
    <3> QED BY <2>1, <3>1, <1>h, <1>i DEF HandlerCalls
  <2>3. CASE AdvanceCall(c) \/ Crash(c) \/ Restart(c)
    <3>1. pc[c] \in Busy => cur[c] \in Calls /\ req[cur[c]] # NoRequest
      BY DEF CallsInProgress
    <3> QED BY <2>1, <2>3, <3>1, CallItems, <1>h, <1>i DEF HandlerCalls
  <2> QED BY <1>1, <2>2, <2>3 DEF ClientStep
<1>2. CASE MainStep
  <2>1. ASSUME NEW j \in Conns, NEW x \in Ends
        PROVE  Items(inq'[j][x]) \subseteq Items(inq[j][x])
    BY <1>2, CloseAllItems DEF MainStep, Accept, TakeQueued, HandlerEnded, tcpVars,
       StopListening, CloseListener, StartServer, Listen
  <2>2. CASE Accept
    <3>1. \A k \in Conns : hpc'[k] \in {"body", "lib", "noise", "reply", "rest"} => hpc'[k] = hpc[k]
      BY <2>2 DEF Accept, ServerTypeOK
    <3>2. UNCHANGED hcall
      BY <2>2 DEF Accept
    <3> QED BY <2>1, <3>1, <3>2, <1>i, <1>s, <1>r, <1>a DEF HandlerCalls
  <2>3. CASE UNCHANGED <<hpc, hcall>>
    BY <2>1, <2>3, <1>h, <1>i DEF HandlerCalls
  <2> QED BY <1>2, <2>2, <2>3 DEF MainStep, HandlerEnded, StopListening, StartServer
<1>3. ASSUME NEW k \in Conns, HandlerStep(k)
      PROVE  HandlerCalls'
  <2>1. hpc[k] \in {"reply", "rest"} =>
            hcall[k] \in Calls /\ (k \in astray["server"] \/ answer[hcall[k]] \in Reply)
    BY DEF HandlerCalls
  <2>2. /\ \A j \in Conns : \A m \in Items(inq'[j]["server"]) : req'[m.call] # NoRequest
        /\ \A j \in Conns : \A m \in Items(inq'[j]["client"]) :
               j \in astray'["server"] \/ answer'[m.call] \in Reply
    BY <1>3, <2>1, HandlerItems, <1>i
  <2>3. /\ \A j \in Conns : hpc'[j] \in {"body", "lib", "noise", "reply", "rest"} =>
                    hcall'[j] \in Calls /\ req'[hcall'[j]] # NoRequest
        /\ \A j \in Conns : hpc'[j] = "noise" => j \in astray'["server"]
        /\ \A j \in Conns : hpc'[j] \in {"reply", "rest"} =>
               j \in astray'["server"] \/ answer'[hcall'[j]] \in Reply
    <3>1. CASE RecvLen(k)
      <4>1. Head(inq[k]["server"]) \in Items(inq[k]["server"])
        <5>1. inq[k]["server"] \in Seq(Item) /\ inq[k]["server"] # <<>>
          BY <3>1 DEF RecvLen, Receive, TcpTypeOK
        <5> QED BY <5>1 DEF Items
      <4> DEFINE i == Head(inq[k]["server"]).call
      <4>2. i \in Calls /\ req[i] # NoRequest
        BY <4>1, <1>t DEF HandlerCalls
      <4>3. hcall' = [hcall EXCEPT ![k] = i] /\ hpc' = [hpc EXCEPT ![k] = "body"]
        BY <3>1 DEF RecvLen
      <4> HIDE DEF i
      <4> QED BY <4>2, <4>3, <1>s, <1>r, <1>a DEF HandlerCalls, ServerTypeOK
    <3>2. CASE RecvBody(k)
      BY <3>2, <1>s, <1>r, <1>a DEF RecvBody, HandlerCalls, ServerTypeOK
    <3>3. CASE Disconnect(k)
      BY <3>3, <1>s, <1>r, <1>a DEF Disconnect, HandlerCalls, ServerTypeOK
    <3>4. CASE ProcessCommand(k)
      <4>1. PICK a \in Answers(req[hcall[k]]) : answer' = [answer EXCEPT ![hcall[k]] = a[1]]
        BY <3>4 DEF ProcessCommand
      <4>2. hcall[k] \in Calls /\ req[hcall[k]] \in Request
        BY <3>4 DEF ProcessCommand, HandlerCalls, ClientTypeOK
      <4>3. answer'[hcall[k]] \in Reply
        BY <4>1, <4>2, AnswersType DEF ServerTypeOK
      <4>4. hpc' = [hpc EXCEPT ![k] = "reply"] /\ UNCHANGED hcall
        BY <3>4 DEF ProcessCommand
      <4> QED BY <4>2, <4>3, <4>4, <1>s, <1>r, <1>a, RequestAssumption DEF HandlerCalls, ServerTypeOK
    <3>5. CASE ProcessCommandNull(k)
      BY <3>5, <1>s, <1>r, <1>a DEF ProcessCommandNull, HandlerCalls, ServerTypeOK
    <3>6. CASE SendReply(k)
      BY <3>6, <1>s, <1>r, <1>a DEF SendReply, HandlerCalls, ServerTypeOK
    <3>7. CASE SendReplyPart(k)
      BY <3>7, <1>s, <1>r, <1>a DEF SendReplyPart, HandlerCalls, ServerTypeOK
    <3>8. CASE ServerSigPipe(k)
      BY <3>8 DEF ServerSigPipe
    <3> QED BY <1>3, <3>1, <3>2, <3>3, <3>4, <3>5, <3>6, <3>7, <3>8
            DEF HandlerStep, Receiving, Serving, RecvEnds, RecvTimesOut, SendReplyFails
  <2> QED BY <2>2, <2>3 DEF HandlerCalls
<1>4. CASE NetworkStep
  <2>1. PICK k \in Conns : Lose(k)
    BY <1>4 DEF NetworkStep
  <2>2. ASSUME NEW j \in Conns, NEW x \in Ends
        PROVE  Items(inq'[j][x]) \subseteq Items(inq[j][x])
    BY <2>1, LoseItems, PrefixItems DEF TcpTypeOK
  <2>3. UNCHANGED <<hpc, hcall>>
    BY <1>4 DEF NetworkStep, serverVars
  <2> QED BY <2>2, <2>3, <1>h, <1>i DEF HandlerCalls
<1>5. CASE UNCHANGED vars
  <2>1. UNCHANGED inq /\ UNCHANGED <<hpc, hcall>>
    BY <1>5 DEF vars, tcpVars, serverVars
  <2> QED BY <2>1, <1>h, <1>i DEF HandlerCalls
<1> QED BY <1>1, <1>2, <1>3, <1>4, <1>5 DEF OrderlyNext

-----------------------------------------------------------------------------
(* Connections that are not in use, and whose socket is whose. *)

LEMMA QueueItems ==
    ASSUME TcpTypeOK
    PROVE  /\ backlog # <<>> => /\ Items(Tail(backlog)) \subseteq Items(backlog)
                                /\ Head(backlog) \in Items(backlog)
           /\ \A k \in Conns : Items(Append(backlog, k)) = Items(backlog) \cup {k}
<1>1. backlog \in Seq(Conns) /\ Len(backlog) \in Nat
  BY DEF TcpTypeOK
<1>2. ASSUME backlog # <<>>
      PROVE  /\ Items(Tail(backlog)) \subseteq Items(backlog)
             /\ Head(backlog) \in Items(backlog)
  <2>1. /\ Len(Tail(backlog)) = Len(backlog) - 1
        /\ \A n \in 1 .. Len(Tail(backlog)) : Tail(backlog)[n] = backlog[n + 1]
        /\ Head(backlog) = backlog[1]
        /\ Len(backlog) > 0
    BY <1>1, <1>2
  <2> QED BY <1>1, <2>1 DEF Items
<1>3. ASSUME NEW k \in Conns
      PROVE  Items(Append(backlog, k)) = Items(backlog) \cup {k}
  <2>1. /\ Len(Append(backlog, k)) = Len(backlog) + 1
        /\ \A n \in 1 .. Len(backlog) : Append(backlog, k)[n] = backlog[n]
        /\ Append(backlog, k)[Len(backlog) + 1] = k
    BY <1>1
  <2>2. 1 .. (Len(backlog) + 1) = (1 .. Len(backlog)) \cup {Len(backlog) + 1}
    BY <1>1
  <2> QED BY <2>1, <2>2 DEF Items
<1> QED BY <1>2, <1>3

\* The steps of process b touch no connection but its own.
LEMMA OwnConnectionOnly ==
    ASSUME TypeOK, NEW b \in Clients, AdvanceCall(b) \/ Crash(b) \/ Restart(b),
           NEW k \in Conns, k # sock[b], k # sock'[b]
    PROVE  /\ inq'[k]["client"] = inq[k]["client"] /\ inq'[k]["server"] = inq[k]["server"]
           /\ st'[k]["client"] = st[k]["client"] /\ st'[k]["server"] = st[k]["server"]
           /\ k \in Queued' <=> k \in Queued
           /\ cut' = cut
<1> USE DEF TypeOK, Ends
<1>1. CASE ConnectToServer(b)
  <2>1. PICK j \in Conns : Establish(j) /\ sock' = [sock EXCEPT ![b] = j]
    BY <1>1 DEF ConnectToServer
  <2>2. k # j
    BY <2>1 DEF ClientTypeOK
  <2>3. UNCHANGED <<inq, cut>> /\ backlog' = Append(backlog, j)
        /\ st' = [st EXCEPT ![j] = [e \in Ends |-> "open"]]
    BY <2>1 DEF Establish
  <2>4. k \in Queued' <=> k \in Queued
    BY <2>2, <2>3, QueueItems DEF Queued
  <2> QED BY <2>2, <2>3, <2>4 DEF TcpTypeOK
<1>2. CASE ConnectFails(b) \/ Restart(b)
  BY <1>2 DEF ConnectFails, Restart, tcpVars, Queued
<1>3. CASE SendData(b)
  <2>1. sock[b] \in Conns /\ Send(sock[b], "client", Pieces(b)) /\ Peer("client") = "server"
    BY <1>3 DEF SendData, ClientTypeOK, Peer
  <2>2. UNCHANGED <<st, cut, backlog>>
    BY <2>1 DEF Send
  <2>3. inq' = inq \/ inq' = [inq EXCEPT ![sock[b]]["server"] = @ \o Pieces(b)]
    BY <2>1 DEF Send
  <2> QED BY <2>1, <2>2, <2>3 DEF TcpTypeOK, Queued
<1>4. CASE GetReplyLen(b)
  BY <1>4 DEF GetReplyLen, Receive, TcpTypeOK, Queued
<1>5. CASE ReplyArrives(b)
  BY <1>5 DEF ReplyArrives, GetReplyBody, Replied, Receive, TcpTypeOK, Queued
<1>6. CASE DisconnectServer(b)
  <2>1. \A x \in Ends : inq'[k][x] = inq[k][x] /\ st'[k][x] = st[k][x]
    BY <1>6, DisconnectServerItems
  <2>2. UNCHANGED <<cut, backlog>>
    BY <1>6 DEF DisconnectServer, Close, tcpVars
  <2> QED BY <2>1, <2>2 DEF Queued
<1>7. SendDataFails(b) \/ SigPipe(b) \/ GetReplyLenFails(b) \/ CloseDisconnects(b)
        \/ (\E r \in Reply : GetReplyBodyFails(b, r)) \/ Crash(b)
      => DisconnectServer(b)
  BY DEF SendDataFails, SigPipe, Exit, GetReplyLenFails, CloseDisconnects,
         GetReplyBodyFails, Crash
<1> QED BY <1>1, <1>2, <1>3, <1>4, <1>5, <1>6, <1>7 DEF AdvanceCall

\* What the steps of process c do to its socket.
LEMMA SocketEffect ==
    ASSUME TypeOK, NEW c \in Clients, AdvanceCall(c) \/ Crash(c) \/ Restart(c)
    PROVE  /\ \A b \in Clients : b # c => sock'[b] = sock[b] /\ pc'[b] = pc[b] /\ cur'[b] = cur[b]
           /\ \/ sock'[c] = NoSock
              \/ UNCHANGED <<sock, st, cut, backlog>>
              \/ ConnectToServer(c)
<1> USE DEF TypeOK, ClientTypeOK
<1>0. \A b \in Clients : b # c => pc'[b] = pc[b] /\ cur'[b] = cur[b]
  BY CallEffect DEF Restart
<1>1. CASE ConnectToServer(c)
  BY <1>0, <1>1 DEF ConnectToServer
<1>2. CASE ConnectFails(c) \/ Restart(c)
  BY <1>0, <1>2 DEF ConnectFails, Restart, tcpVars
<1>3. CASE SendData(c) \/ GetReplyLen(c) \/ ReplyArrives(c)
  BY <1>0, <1>3 DEF SendData, Send, GetReplyLen, ReplyArrives, GetReplyBody, Replied, Receive
<1>4. CASE DisconnectServer(c)
  BY <1>0, <1>4 DEF DisconnectServer
<1>5. SendDataFails(c) \/ SigPipe(c) \/ GetReplyLenFails(c) \/ CloseDisconnects(c)
        \/ (\E r \in Reply : GetReplyBodyFails(c, r)) \/ Crash(c)
      => DisconnectServer(c)
  BY DEF SendDataFails, SigPipe, Exit, GetReplyLenFails, CloseDisconnects,
         GetReplyBodyFails, Crash
<1> QED BY <1>1, <1>2, <1>3, <1>4, <1>5 DEF AdvanceCall

LEMMA WhereNext ==
    ASSUME TypeOK, NEW c \in Clients, AdvanceCall(c) \/ Crash(c) \/ Restart(c)
    PROVE  pc'[c] # "connect" /\ (pc'[c] = "killed" => SigPipe(c))
<1> USE DEF TypeOK, ClientTypeOK
<1>1. CASE ConnectToServer(c) \/ GetReplyLen(c)
  BY <1>1 DEF ConnectToServer, GetReplyLen
<1>2. CASE SendData(c) \/ SendDataFails(c)
  BY <1>2, AfterSendType DEF SendData, SendDataFails
<1>3. CASE ConnectFails(c) \/ GetReplyLenFails(c) \/ CloseDisconnects(c)
            \/ (\E r \in Reply : GetReplyBodyFails(c, r))
  BY <1>3 DEF ConnectFails, GetReplyLenFails, CloseDisconnects, GetReplyBodyFails, Return
<1>4. CASE ReplyArrives(c)
  BY <1>4 DEF ReplyArrives, GetReplyBody, Replied, Return
<1>5. CASE SigPipe(c)
  BY <1>5 DEF SigPipe, Exit
<1>6. CASE Crash(c)
  BY <1>6 DEF Crash, Exit
<1>7. CASE Restart(c)
  BY <1>7 DEF Restart
<1> QED BY <1>1, <1>2, <1>3, <1>4, <1>5, <1>6, <1>7 DEF AdvanceCall

\* The steps of the handler of connection k touch no other connection, but
\* that the end of the server ends them all.
LEMMA OwnHandlerOnly ==
    ASSUME TypeOK, NEW k \in Conns, HandlerStep(k), ~ServerSigPipe(k),
           NEW j \in Conns, j # k
    PROVE  /\ inq'[j]["client"] = inq[j]["client"] /\ inq'[j]["server"] = inq[j]["server"]
           /\ st'[j]["client"] = st[j]["client"] /\ st'[j]["server"] = st[j]["server"]
           /\ hpc'[j] = hpc[j] /\ hcall'[j] = hcall[j]
<1> USE DEF TypeOK, Ends
<1>1. CASE RecvLen(k) \/ RecvBody(k)
  BY <1>1 DEF RecvLen, RecvBody, Receive, TcpTypeOK, ServerTypeOK
<1>2. CASE Disconnect(k)
  <2>1. \A x \in Ends : inq'[j][x] = inq[j][x] /\ st'[j][x] = st[j][x]
    BY <1>2, CloseItems DEF Disconnect
  <2> QED BY <1>2, <2>1 DEF Disconnect, ServerTypeOK
<1>3. CASE ProcessCommand(k) \/ ProcessCommandNull(k)
  BY <1>3 DEF ProcessCommand, ProcessCommandNull, tcpVars, ServerTypeOK
<1>4. ASSUME NEW items, Send(k, "server", items)
      PROVE  /\ inq'[j]["client"] = inq[j]["client"] /\ inq'[j]["server"] = inq[j]["server"]
             /\ UNCHANGED st
  BY <1>4, PeerEnd DEF Send, TcpTypeOK
<1>5. CASE SendReply(k)
  BY <1>4, <1>5 DEF SendReply, ServerTypeOK
<1>6. CASE SendReplyPart(k)
  BY <1>4, <1>6 DEF SendReplyPart, ServerTypeOK
<1> QED BY <1>1, <1>2, <1>3, <1>5, <1>6
        DEF HandlerStep, Receiving, Serving, RecvEnds, RecvTimesOut, SendReplyFails

\* Which connections main's steps touch: those it accepts or resets, which
\* are queued.
LEMMA MainEffect ==
    ASSUME TypeOK, MainStep, NEW j \in Conns, j \notin Queued
    PROVE  /\ inq'[j]["client"] = inq[j]["client"] /\ inq'[j]["server"] = inq[j]["server"]
           /\ st'[j]["client"] = st[j]["client"] /\ st'[j]["server"] = st[j]["server"]
           /\ hpc'[j] = hpc[j] /\ hcall'[j] = hcall[j] /\ j \notin Queued'
<1> USE DEF TypeOK, Ends
<1>1. CASE Accept
  <2>1. PICK k \in Conns : TakeQueued(k) /\ hpc' = [hpc EXCEPT ![k] = "len"]
    BY <1>1 DEF Accept
  <2>2. k \in Queued /\ Queued' \subseteq Queued
    BY <2>1, QueueItems DEF TakeQueued, Queued
  <2> QED BY <1>1, <2>1, <2>2 DEF TakeQueued, Accept, ServerTypeOK
<1>2. CASE HandlerEnded
  BY <1>2 DEF HandlerEnded, tcpVars, Queued
<1>3. CASE StopListening
  <2>1. CloseAll(Queued, "server", Queued) /\ backlog' = <<>>
    <3>1. Queued \cup {} = Queued
      OBVIOUS
    <3> QED BY <1>3, <3>1 DEF StopListening, CloseListener
  <2>2. \A x \in Ends : inq'[j][x] = inq[j][x] /\ st'[j][x] = st[j][x]
    BY <2>1, CloseAllItems
  <2>3. j \notin Queued'
    BY <2>1, NoItems DEF Queued
  <2> QED BY <1>3, <2>2, <2>3 DEF StopListening
<1>4. CASE StartServer
  BY <1>4 DEF StartServer, Listen, Queued
<1> QED BY <1>1, <1>2, <1>3, <1>4 DEF MainStep

\* No step of the server or the network changes the client end of a
\* connection.
LEMMA ClientEnds ==
    ASSUME TypeOK, MainStep \/ NetworkStep \/ (\E k \in Conns : HandlerStep(k)),
           NEW j \in Conns
    PROVE  st'[j]["client"] = st[j]["client"]
<1> USE DEF TypeOK, Ends
<1>1. CASE MainStep
  BY <1>1, CloseAllItems DEF MainStep, Accept, TakeQueued, HandlerEnded, tcpVars,
     StopListening, CloseListener, StartServer, Listen
<1>2. CASE NetworkStep
  BY <1>2 DEF NetworkStep, Lose
<1>3. ASSUME NEW k \in Conns, HandlerStep(k)
      PROVE  st'[j]["client"] = st[j]["client"]
  <2>1. CASE Disconnect(k)
    BY <2>1, CloseItems DEF Disconnect
  <2>2. CASE ServerSigPipe(k)
    BY <2>2, CloseAllItems DEF ServerSigPipe, CloseListener
  <2>3. CASE UNCHANGED st
    BY <2>3
  <2> QED BY <1>3, <2>1, <2>2, <2>3
          DEF HandlerStep, Receiving, Serving, RecvEnds, RecvTimesOut, SendReplyFails,
              RecvLen, RecvBody, Receive, ProcessCommand, ProcessCommandNull, tcpVars,
              SendReply, SendReplyPart, Send
<1> QED BY <1>1, <1>2, <1>3

LEMMA HandlerIsOn ==
    ASSUME NEW k \in Conns, HandlerStep(k)
    PROVE  hpc[k] # "off"
BY DEF HandlerStep, Receiving, Serving, RecvLen, RecvBody, RecvEnds,
       RecvTimesOut, ProcessCommand, ProcessCommandNull, SendReply,
       SendReplyPart, SendReplyFails, ServerSigPipe

\* What holds of a connection that is not in use.
Clean(k) ==
    /\ st[k]["server"] = "none" /\ hpc[k] = "off" /\ k \notin Queued
    /\ inq[k]["client"] = <<>> /\ inq[k]["server"] = <<>>

LEMMA CleanStep ==
    ASSUME TypeOK, Sockets, OneHandler, [OrderlyNext]_vars,
           NEW k \in Conns, st'[k]["client"] = "none"
    PROVE  Clean(k)'
<1> USE DEF TypeOK, Ends
<1>1. ASSUME NEW c \in Clients, ClientStep(c)
      PROVE  Clean(k)'
  <2>1. UNCHANGED hpc
    BY <1>1 DEF ClientStep, serverVars
  <2>2. CASE MakeCall(c)
    <3>1. UNCHANGED <<st, inq, backlog>>
      BY <2>2, MakeCallEffect DEF tcpVars
    <3> QED BY <2>1, <3>1 DEF Sockets, Clean, Queued
  <2>3. CASE AdvanceCall(c) \/ Crash(c) \/ Restart(c)
    <3>1. k # sock[c] /\ k # sock'[c]
      <4>1. CASE sock[c] = k
        <5>1. st[k]["client"] = "open"
          BY <4>1, ClientAssumption DEF Sockets
        <5>2. st'[k]["client"] \in {"open", "closed"}
          <6>1. CASE DisconnectServer(c)
            BY <4>1, <6>1, DisconnectServerItems
          <6>2. CASE UNCHANGED st
            BY <5>1, <6>2
          <6>3. CASE ConnectToServer(c)
            BY <4>1, <5>1, <6>3 DEF ConnectToServer, Establish, TcpTypeOK
          <6> QED BY <2>3, <6>1, <6>2, <6>3
              DEF AdvanceCall, ConnectFails, SendData, Send, SendDataFails, SigPipe, Exit,
                  GetReplyLen, Receive, GetReplyLenFails, ReplyArrives, GetReplyBody, Replied,
                  GetReplyBodyFails, CloseDisconnects, Crash, Restart, tcpVars
        <5> QED BY <5>2
      <4>2. CASE sock'[c] = k /\ sock[c] # k
        <5>1. ConnectToServer(c)
          BY <2>3, <4>2, SocketEffect, ClientAssumption
        <5>2. PICK j \in Conns : Establish(j) /\ sock' = [sock EXCEPT ![c] = j]
          BY <5>1 DEF ConnectToServer
        <5>3. j = k
          BY <4>2, <5>2 DEF ClientTypeOK
        <5> QED BY <5>2, <5>3 DEF Establish, TcpTypeOK
      <4> QED BY <4>1, <4>2
    <3> QED BY <2>1, <2>3, <3>1, OwnConnectionOnly DEF Sockets, Clean
  <2> QED BY <1>1, <2>2, <2>3 DEF ClientStep
<1>2. CASE MainStep
  <2>1. st[k]["client"] = "none"
    BY <1>2, ClientEnds
  <2> QED BY <1>2, <2>1, MainEffect DEF Sockets, Clean
<1>3. ASSUME NEW j \in Conns, HandlerStep(j)
      PROVE  Clean(k)'
  <2>1. st[k]["client"] = "none"
    BY <1>3, ClientEnds
  <2>2. k # j
    BY <1>3, <2>1, HandlerIsOn DEF Sockets
  <2>3. CASE ServerSigPipe(j)
    <3> DEFINE K == Queued \cup {j}
    <3>0. CloseAll(K, "server", K) /\ k \notin K
      BY <2>1, <2>2, <2>3 DEF ServerSigPipe, CloseListener, Sockets
    <3> HIDE DEF K
    <3>1. \A x \in Ends : inq'[k][x] = inq[k][x] /\ st'[k][x] = st[k][x]
      BY <3>0, CloseAllItems
    <3>2. k \notin Queued' /\ hpc'[k] = "off"
      BY <2>3, NoItems DEF ServerSigPipe, CloseListener, Queued
    <3> QED BY <2>1, <3>1, <3>2 DEF Sockets, Clean
  <2>4. CASE ~ServerSigPipe(j)
    <3>1. k \notin Queued'
      <4>1. UNCHANGED backlog
        BY <1>3, <2>4 DEF HandlerStep, Receiving, Serving, RecvEnds, RecvTimesOut,
              SendReplyFails, RecvLen, RecvBody, Receive, ProcessCommand,
              ProcessCommandNull, tcpVars, SendReply, SendReplyPart, Send, Disconnect, Close
      <4> QED BY <2>1, <4>1 DEF Sockets, Queued
    <3> QED BY <1>3, <2>1, <2>2, <2>4, <3>1, OwnHandlerOnly DEF Sockets, Clean
  <2> QED BY <2>3, <2>4
<1>4. CASE NetworkStep
  <2>1. st[k]["client"] = "none"
    BY <1>4, ClientEnds
  <2>2. PICK j \in Conns : Lose(j)
    BY <1>4 DEF NetworkStep
  <2>3. k # j
    BY <2>1, <2>2 DEF Lose
  <2>4. \A x \in Ends : inq'[k][x] = inq[k][x]
    BY <2>2, <2>3, LoseItems
  <2> QED BY <1>4, <2>1, <2>2, <2>4 DEF NetworkStep, Lose, serverVars, Sockets, Clean, Queued
<1>5. CASE UNCHANGED vars
  BY <1>5 DEF vars, tcpVars, serverVars, Sockets, Clean, Queued
<1> QED BY <1>1, <1>2, <1>3, <1>4, <1>5 DEF OrderlyNext

LEMMA SocketsStep ==
    ASSUME TypeOK, Sockets, OneHandler, [OrderlyNext]_vars
    PROVE  Sockets'
<1> USE DEF TypeOK, Ends
<1>1. \A k \in Conns : st'[k]["client"] = "none" => Clean(k)'
  BY CleanStep
<1> DEFINE Open(c) == sock[c] # NoSock =>
                         st[sock[c]]["client"] = "open" /\ pc[c] \notin {"connect", "killed"}
           Mine == \A b, c \in Clients : sock[b] = sock[c] /\ sock[b] # NoSock => b = c
<1>2. (\A c \in Clients : Open(c)') /\ Mine'
  <2>1. ASSUME UNCHANGED <<sock, pc>>, \A j \in Conns : st'[j]["client"] = st[j]["client"]
        PROVE  (\A c \in Clients : Open(c)') /\ Mine'
    BY <2>1 DEF Sockets, ClientTypeOK
  <2>2. ASSUME NEW c \in Clients, ClientStep(c)
        PROVE  (\A b \in Clients : Open(b)') /\ Mine'
    <3>1. CASE MakeCall(c)
      <4>1. UNCHANGED sock /\ UNCHANGED st
        BY <3>1, MakeCallEffect DEF tcpVars
      <4>2. \A b \in Clients : pc'[b] = pc[b]
               \/ pc'[b] = "send" \/ (pc'[b] = "connect" /\ sock[b] = NoSock)
        BY <3>1, MakeCallEffect DEF ClientTypeOK
      <4> QED BY <4>1, <4>2 DEF Sockets
    <3>2. CASE AdvanceCall(c) \/ Crash(c) \/ Restart(c)
      <4>1. \A b \in Clients : b # c => sock'[b] = sock[b] /\ pc'[b] = pc[b]
        BY <3>2, SocketEffect
      <4>2. CASE ConnectToServer(c)
        <5>1. PICK k \in Conns : Establish(k) /\ sock' = [sock EXCEPT ![c] = k]
          BY <4>2 DEF ConnectToServer
        <5>2. /\ sock'[c] = k /\ pc'[c] = "send" /\ st[k]["client"] = "none"
              /\ \A j \in Conns : st'[j]["client"] = IF j = k THEN "open" ELSE st[j]["client"]
          BY <4>2, <5>1 DEF ConnectToServer, Establish, TcpTypeOK, ClientTypeOK
        <5>3. \A b \in Clients : b # c => sock[b] # k
          BY <5>2, ClientAssumption DEF Sockets
        <5> QED BY <4>1, <5>2, <5>3 DEF Sockets, ClientTypeOK
      <4>3. CASE sock'[c] = NoSock
        <5>1. ASSUME NEW b \in Clients, b # c, sock[b] # NoSock
              PROVE  st'[sock[b]]["client"] = st[sock[b]]["client"]
          <6>1. sock[b] # sock[c] /\ sock[b] # sock'[c] /\ sock[b] \in Conns
            BY <4>3, <5>1 DEF Sockets, ClientTypeOK
          <6> QED BY <3>2, <6>1, OwnConnectionOnly
        <5> QED BY <4>1, <4>3, <5>1 DEF Sockets
      <4>4. CASE UNCHANGED <<sock, st>> /\ sock[c] # NoSock
        <5>1. pc'[c] \notin {"connect", "killed"}
          <6>1. SigPipe(c) => sock'[c] = NoSock
            BY DEF SigPipe, Exit, DisconnectServer, ClientTypeOK
          <6> QED BY <3>2, <4>4, <6>1, WhereNext
        <5> QED BY <4>1, <4>4, <5>1 DEF Sockets
      <4> QED BY <3>2, <4>2, <4>3, <4>4, SocketEffect
    <3> QED BY <2>2, <3>1, <3>2 DEF ClientStep
  <2>3. CASE MainStep \/ NetworkStep \/ (\E k \in Conns : HandlerStep(k))
    <3>1. UNCHANGED <<sock, pc>>
      BY <2>3 DEF MainStep, NetworkStep, HandlerStep, clientVars
    <3> QED BY <2>1, <2>3, <3>1, ClientEnds
  <2>4. CASE UNCHANGED vars
    BY <2>1, <2>4 DEF vars, tcpVars, clientVars
  <2> QED BY <2>2, <2>3, <2>4 DEF OrderlyNext
<1> QED BY <1>1, <1>2 DEF Sockets, Clean

-----------------------------------------------------------------------------
(* A call stays on its way. *)

LEMMA OneItem ==
    ASSUME NEW S, NEW q \in Seq(S), Len(q) = 1
    PROVE  q = <<q[1]>>
OBVIOUS

LEMMA TwoItems ==
    ASSUME NEW S, NEW q \in Seq(S), Len(q) = 2
    PROVE  q = <<q[1], q[2]>>
OBVIOUS

LEMMA ShortQueues ==
    /\ \A a, b : /\ Head(<<a, b>>) = a /\ Tail(<<a, b>>) = <<b>> /\ <<a, b>> # <<>>
                 /\ Head(<<a>>) = a /\ Tail(<<a>>) = <<>> /\ <<a>> # <<>>
                 /\ <<>> \o <<a>> = <<a>> /\ <<>> \o <<a, b>> = <<a, b>>
                 /\ <<a>> \o <<b>> = <<a, b>>
    /\ \A i : H(i).part = "head" /\ T(i).part = "tail" /\ Packet(i) = <<H(i), T(i)>>
              /\ H(i).call = i /\ T(i).call = i
<1>1. \A a, b : /\ Head(<<a, b>>) = a /\ Tail(<<a, b>>) = <<b>> /\ <<a, b>> # <<>>
                /\ Head(<<a>>) = a /\ Tail(<<a>>) = <<>> /\ <<a>> # <<>>
                /\ <<>> \o <<a>> = <<a>> /\ <<>> \o <<a, b>> = <<a, b>>
  OBVIOUS
<1>2. ASSUME NEW a, NEW b PROVE <<a>> \o <<b>> = <<a, b>>
  <2> DEFINE s == <<a>> \o <<b>>
  <2>1. <<a>> \in Seq({a, b}) /\ <<b>> \in Seq({a, b})
    OBVIOUS
  <2>2. s \in Seq({a, b}) /\ Len(s) = 2 /\ s[1] = a /\ s[2] = b
    BY <2>1
  <2> HIDE DEF s
  <2>3. s = <<a, b>>
    BY <2>2, TwoItems
  <2> QED BY <2>3 DEF s
<1>3. \A i : H(i) = [call |-> i, part |-> "head"] /\ T(i) = [call |-> i, part |-> "tail"]
  BY DEF H, T, Packet
<1>4. \A i : Packet(i) = <<H(i), T(i)>>
  BY <1>3 DEF Packet
<1> QED BY <1>1, <1>2, <1>3, <1>4

LEMMA ShortPrefixes ==
    ASSUME NEW a, NEW b, NEW q, NEW e, NEW p \in Prefixes(q, e)
    PROVE  /\ q = <<>> => p = <<>>
           /\ q = <<a>> => p \in {<<>>, <<a>>}
           /\ q = <<a, b>> => p \in {<<>>, <<a>>, <<a, b>>}
<1>1. PICK n \in 0 .. Len(q) : p = SubSeq(q, 1, n)
  BY DEF Prefixes
<1>2. CASE q = <<>>
  <2>1. n = 0
    BY <1>2
  <2> QED BY <1>1, <1>2, <2>1
<1>3. CASE q = <<a>>
  <2>1. q \in Seq({a, b}) /\ Len(q) = 1 /\ n \in {0, 1}
    BY <1>3
  <2>2. CASE n = 0
    BY <1>1, <1>3, <2>1, <2>2
  <2>3. CASE n = 1
    <3>1. p \in Seq({a, b}) /\ Len(p) = 1 /\ p[1] = a
      BY <1>1, <1>3, <2>1, <2>3
    <3> QED BY <1>3, <3>1, OneItem
  <2> QED BY <2>1, <2>2, <2>3
<1>4. CASE q = <<a, b>>
  <2>1. q \in Seq({a, b}) /\ Len(q) = 2 /\ n \in {0, 1, 2}
    BY <1>4
  <2>2. CASE n = 0
    BY <1>1, <1>4, <2>1, <2>2
  <2>3. CASE n = 1
    <3>1. p \in Seq({a, b}) /\ Len(p) = 1 /\ p[1] = a
      BY <1>1, <1>4, <2>1, <2>3
    <3> QED BY <1>4, <3>1, OneItem
  <2>4. CASE n = 2
    <3>1. p \in Seq({a, b}) /\ Len(p) = 2 /\ p[1] = a /\ p[2] = b
      BY <1>1, <1>4, <2>1, <2>4
    <3> QED BY <1>4, <3>1, TwoItems
  <2> QED BY <2>1, <2>2, <2>3, <2>4
<1> QED BY <1>2, <1>3, <1>4

\* Losing what was on its way, the server's end or both leaves a call where
\* it may be on a connection that is not live.
LEMMA FlowLoses ==
    ASSUME NEW p, NEW i, NEW A, NEW B, NEW h, NEW hc, NEW live,
           OnItsWay(p, i, A, B, h, hc, live),
           NEW e, NEW x, NEW A1 \in Prefixes(A, e), NEW B1 \in Prefixes(B, x)
    PROVE  OnItsWay(p, i, A1, B1, h, hc, FALSE)
<1>1. /\ A = <<>> => A1 = <<>>
      /\ \A a : A = <<a>> => A1 \in {<<>>, <<a>>}
      /\ \A a, b : A = <<a, b>> => A1 \in {<<>>, <<a>>, <<a, b>>}
  BY ShortPrefixes
<1>2. /\ B = <<>> => B1 = <<>>
      /\ \A a : B = <<a>> => B1 \in {<<>>, <<a>>}
      /\ \A a, b : B = <<a, b>> => B1 \in {<<>>, <<a>>, <<a, b>>}
  BY ShortPrefixes
<1> QED BY <1>1, <1>2, ShortQueues DEF OnItsWay

LEMMA FlowServerGone ==
    ASSUME NEW p, NEW i, NEW A, NEW B, NEW h, NEW hc, NEW live, NEW hc1,
           OnItsWay(p, i, A, B, h, hc, live)
    PROVE  OnItsWay(p, i, <<>>, B, "off", hc1, FALSE)
BY ShortQueues DEF OnItsWay

\* A step that changes nothing that Flow(c, k) speaks of.
LEMMA FlowFrame ==
    ASSUME NEW c \in Clients, NEW k \in Conns, Flow(c, k),
           pc'[c] = pc[c], cur'[c] = cur[c], hpc'[k] = hpc[k], hcall'[k] = hcall[k],
           inq'[k]["client"] = inq[k]["client"], inq'[k]["server"] = inq[k]["server"],
           Live(k)' = Live(k)
    PROVE  Flow(c, k)'
BY DEF Flow

\* The steps of a process move its call on, whatever the handler is at.
LEMMA CallBegins ==
    ASSUME NEW i, NEW A, NEW B, NEW h, NEW hc, NEW live, NEW j,
           OnItsWay("idle", i, A, B, h, hc, live)
    PROVE  OnItsWay("idle", j, A, B, h, hc, live) /\ OnItsWay("send", j, A, B, h, hc, live)
BY DEF OnItsWay

LEMMA SendsHead ==
    ASSUME NEW i, NEW A, NEW B, NEW h, NEW hc, NEW live,
           OnItsWay("send", i, A, B, h, hc, live)
    PROVE  /\ A = <<>>
           /\ OnItsWay("more", i, IF live THEN <<H(i)>> ELSE <<>>, B, h, hc, live)
BY DEF OnItsWay

LEMMA SendsAll ==
    ASSUME NEW i, NEW A, NEW B, NEW h, NEW hc, NEW live,
           OnItsWay("send", i, A, B, h, hc, live)
    PROVE  /\ A = <<>>
           /\ OnItsWay("len", i, IF live THEN <<H(i), T(i)>> ELSE <<>>, B, h, hc, live)
BY DEF OnItsWay

LEMMA SendsTail ==
    ASSUME NEW i, NEW A, NEW B, NEW h, NEW hc, NEW live,
           OnItsWay("more", i, A, B, h, hc, live)
    PROVE  OnItsWay("len", i, IF live THEN A \o <<T(i)>> ELSE A, B, h, hc, live)
<1>0. <<>> \o <<T(i)>> = <<T(i)>> /\ <<H(i)>> \o <<T(i)>> = <<H(i), T(i)>>
  BY ShortQueues
<1>1. CASE A = <<>>
  BY <1>0, <1>1 DEF OnItsWay
<1>2. CASE A = <<H(i)>>
  BY <1>0, <1>2 DEF OnItsWay
<1> QED BY <1>1, <1>2 DEF OnItsWay

LEMMA GetsLen ==
    ASSUME NEW i, NEW A, NEW B, NEW h, NEW hc, NEW live,
           OnItsWay("len", i, A, B, h, hc, live), B # <<>>, Head(B).part = "head"
    PROVE  OnItsWay("body", i, A, Tail(B), h, hc, live)
<1>0. /\ Tail(<<H(i), T(i)>>) = <<T(i)>> /\ Tail(<<H(i)>>) = <<>>
  BY ShortQueues
<1>1. CASE B = <<H(i), T(i)>>
  BY <1>0, <1>1 DEF OnItsWay
<1>2. CASE B = <<H(i)>>
  BY <1>0, <1>2 DEF OnItsWay
<1> QED BY <1>1, <1>2 DEF OnItsWay

LEMMA GetsBody ==
    ASSUME NEW i, NEW A, NEW B, NEW h, NEW hc, NEW live, NEW j,
           OnItsWay("body", i, A, B, h, hc, live), B # <<>>
    PROVE  /\ OnItsWay("idle", j, A, Tail(B), h, hc, live)
           /\ OnItsWay("bye", j, A, Tail(B), h, hc, live)
BY ShortQueues DEF OnItsWay

\* So do those of the handler of its connection.
LEMMA HandlerGetsLen ==
    ASSUME NEW p, NEW i, NEW A, NEW B, NEW hc, NEW live,
           OnItsWay(p, i, A, B, "len", hc, live), A # <<>>
    PROVE  OnItsWay(p, i, Tail(A), B, "body", Head(A).call, live)
<1>0. /\ Tail(<<H(i), T(i)>>) = <<T(i)>> /\ Tail(<<H(i)>>) = <<>>
      /\ Head(<<H(i), T(i)>>) = H(i) /\ Head(<<H(i)>>) = H(i) /\ H(i).call = i
  BY ShortQueues
<1>1. CASE A = <<H(i), T(i)>>
  BY <1>0, <1>1 DEF OnItsWay
<1>2. CASE A = <<H(i)>>
  BY <1>0, <1>2 DEF OnItsWay
<1> QED BY <1>1, <1>2 DEF OnItsWay

LEMMA HandlerGetsBody ==
    ASSUME NEW p, NEW i, NEW A, NEW B, NEW hc, NEW live,
           OnItsWay(p, i, A, B, "body", hc, live), A # <<>>
    PROVE  OnItsWay(p, i, Tail(A), B, "lib", hc, live)
BY ShortQueues DEF OnItsWay

LEMMA HandlerAnswers ==
    ASSUME NEW p, NEW i, NEW A, NEW B, NEW hc, NEW live, NEW x,
           OnItsWay(p, i, A, B, "lib", hc, live)
    PROVE  OnItsWay(p, i, A, B, "reply", hc, live) /\ OnItsWay(p, i, A, B, "len", x, live)
BY DEF OnItsWay

LEMMA HandlerReplies ==
    ASSUME NEW p, NEW i, NEW A, NEW B, NEW hc, NEW live, NEW x,
           OnItsWay(p, i, A, B, "reply", hc, live)
    PROVE  OnItsWay(p, i, A, IF live THEN <<H(i), T(i)>> ELSE <<>>, "len", x, live)
BY DEF OnItsWay

LEMMA HandlerRepliesPart ==
    ASSUME NEW p, NEW i, NEW A, NEW B, NEW hc, NEW live,
           OnItsWay(p, i, A, B, "reply", hc, live)
    PROVE  OnItsWay(p, i, A, IF live THEN <<H(i)>> ELSE <<>>, "rest", hc, live)
BY DEF OnItsWay

LEMMA HandlerSendsRest ==
    ASSUME NEW p, NEW i, NEW A, NEW B, NEW hc, NEW live, NEW x,
           OnItsWay(p, i, A, B, "rest", hc, live)
    PROVE  OnItsWay(p, i, A, IF live THEN B \o <<T(i)>> ELSE B, "len", x, live)
<1>0. <<>> \o <<T(i)>> = <<T(i)>> /\ <<H(i)>> \o <<T(i)>> = <<H(i), T(i)>>
  BY ShortQueues
<1>1. CASE B = <<H(i)>>
  BY <1>0, <1>1 DEF OnItsWay
<1>2. CASE B = <<>>
  BY <1>0, <1>2 DEF OnItsWay
<1> QED BY <1>1, <1>2 DEF OnItsWay

\* What an end that sends or receives does to the two queues.
LEMMA ClientSends ==
    ASSUME TcpTypeOK, NEW k \in Conns, NEW items, Send(k, "client", items)
    PROVE  /\ inq'[k]["client"] = inq[k]["client"]
           /\ inq'[k]["server"] = IF Live(k) THEN inq[k]["server"] \o items
                                             ELSE inq[k]["server"]
           /\ Live(k)' = Live(k)
<1>1. "client" \in Ends /\ "server" \in Ends /\ Peer("client") = "server"
  BY DEF Ends, Peer
<1>2. Live(k)' = Live(k)
  BY DEF Send, Live
<1>3. CASE Live(k)
  <2>1. inq' = [inq EXCEPT ![k]["server"] = @ \o items]
    BY <1>1, <1>3 DEF Send, Live
  <2> QED BY <1>1, <1>2, <1>3, <2>1 DEF TcpTypeOK
<1>4. CASE ~Live(k)
  <2>1. inq' = inq
    BY <1>1, <1>4 DEF Send, Live
  <2> QED BY <1>2, <1>4, <2>1
<1> QED BY <1>3, <1>4

LEMMA ServerSends ==
    ASSUME TcpTypeOK, NEW k \in Conns, NEW items, Send(k, "server", items),
           st[k]["client"] = "open"
    PROVE  /\ inq'[k]["server"] = inq[k]["server"]
           /\ inq'[k]["client"] = IF Live(k) THEN inq[k]["client"] \o items
                                             ELSE inq[k]["client"]
           /\ Live(k)' = Live(k)
<1>1. "client" \in Ends /\ "server" \in Ends /\ Peer("server") = "client"
  BY DEF Ends, Peer
<1>2. Live(k)' = Live(k)
  BY DEF Send, Live
<1>3. CASE Live(k)
  <2>1. inq' = [inq EXCEPT ![k]["client"] = @ \o items]
    BY <1>1, <1>3 DEF Send, Live
  <2> QED BY <1>1, <1>2, <1>3, <2>1 DEF TcpTypeOK
<1>4. CASE ~Live(k)
  <2>1. inq' = inq
    BY <1>1, <1>4 DEF Send, Live
  <2> QED BY <1>2, <1>4, <2>1
<1> QED BY <1>3, <1>4

LEMMA ReceiveEffect ==
    ASSUME TcpTypeOK, NEW k \in Conns, NEW e \in Ends, NEW part, Receive(k, e, part)
    PROVE  /\ inq[k][e] # <<>> /\ Head(inq[k][e]).part = part
           /\ inq'[k][e] = Tail(inq[k][e])
           /\ inq'[k][Peer(e)] = inq[k][Peer(e)]
           /\ Live(k)' = Live(k)
<1>1. Live(k)' = Live(k)
  BY DEF Receive, Live
<1> QED BY <1>1, PeerEnd DEF Receive, TcpTypeOK

\* The steps of a process in its own call.
LEMMA FlowOwnStep ==
    ASSUME TypeOK, CallsInProgress, Sockets, Flows, NEW c \in Clients, ClientStep(c),
           NEW k \in Conns \ Astray, sock'[c] = k
    PROVE  Flow(c, k)'
<1> USE DEF TypeOK, ClientTypeOK
<1>0. UNCHANGED <<hpc, hcall>> /\ k # NoSock
  BY ClientAssumption DEF ClientStep, serverVars
<1>q. sock[c] = k => OnItsWay(pc[c], cur[c], inq[k]["server"], inq[k]["client"],
                              hpc[k], hcall[k], Live(k))
  BY <1>0 DEF Flows, Flow
<1>1. CASE MakeCall(c)
  <2>1. UNCHANGED <<st, inq, cut, sock>> /\ pc[c] = "idle"
    BY <1>1, MakeCallEffect DEF tcpVars
  <2>2. Live(k)' = Live(k)
    BY <2>1 DEF Live
  <2>3. pc'[c] \in {"idle", "send"}
    BY <1>0, <1>1, <2>1, MakeCallEffect
  <2>4. \A j : /\ OnItsWay("idle", j, inq[k]["server"], inq[k]["client"],
                           hpc[k], hcall[k], Live(k))
               /\ OnItsWay("send", j, inq[k]["server"], inq[k]["client"],
                           hpc[k], hcall[k], Live(k))
    BY <1>q, <2>1, CallBegins
  <2> QED BY <1>0, <2>1, <2>2, <2>3, <2>4 DEF Flow
<1>2. CASE ConnectToServer(c)
  <2>1. Establish(k) /\ pc'[c] = "send" /\ UNCHANGED inq
    BY <1>2 DEF ConnectToServer, Establish
  <2>2. inq[k]["client"] = <<>> /\ inq[k]["server"] = <<>> /\ hpc[k] = "off"
    BY <2>1 DEF Establish, Sockets
  <2> QED BY <1>0, <2>1, <2>2 DEF Flow, OnItsWay
<1>3. CASE SendData(c)
  <2>1. sock[c] = k /\ Send(k, "client", Pieces(c)) /\ UNCHANGED cur
        /\ pc[c] \in {"send", "more"} /\ pc'[c] = AfterSend(c)
    BY <1>3 DEF SendData
  <2>2. /\ inq'[k]["client"] = inq[k]["client"]
        /\ inq'[k]["server"] = IF Live(k) THEN inq[k]["server"] \o Pieces(c)
                                          ELSE inq[k]["server"]
        /\ Live(k)' = Live(k)
    BY <2>1, ClientSends
  <2>3. CASE pc[c] = "send" /\ AfterSend(c) = "more"
    <3>1. Pieces(c) = <<H(cur[c])>>
      BY <2>3 DEF Pieces, AfterSend, H
    <3>2. /\ inq[k]["server"] = <<>>
          /\ OnItsWay("more", cur[c], IF Live(k) THEN <<H(cur[c])>> ELSE <<>>,
                      inq[k]["client"], hpc[k], hcall[k], Live(k))
      BY <1>q, <2>1, <2>3, SendsHead
    <3>3. inq'[k]["server"] = IF Live(k) THEN <<H(cur[c])>> ELSE <<>>
      BY <2>2, <3>1, <3>2, ShortQueues
    <3> QED BY <1>0, <2>1, <2>2, <2>3, <3>2, <3>3 DEF Flow
  <2>4. CASE pc[c] = "send" /\ AfterSend(c) = "len"
    <3>1. Pieces(c) = <<H(cur[c]), T(cur[c])>>
      BY <2>4, ShortQueues DEF Pieces, AfterSend
    <3>2. /\ inq[k]["server"] = <<>>
          /\ OnItsWay("len", cur[c], IF Live(k) THEN <<H(cur[c]), T(cur[c])>> ELSE <<>>,
                      inq[k]["client"], hpc[k], hcall[k], Live(k))
      BY <1>q, <2>1, <2>4, SendsAll
    <3>3. inq'[k]["server"] = IF Live(k) THEN <<H(cur[c]), T(cur[c])>> ELSE <<>>
      BY <2>2, <3>1, <3>2, ShortQueues
    <3> QED BY <1>0, <2>1, <2>2, <2>4, <3>2, <3>3 DEF Flow
  <2>5. CASE pc[c] = "more"
    <3>1. Pieces(c) = <<T(cur[c])>> /\ pc'[c] = "len"
      BY <2>1, <2>5, ShortQueues DEF Pieces, AfterSend
    <3>2. OnItsWay("len", cur[c], IF Live(k) THEN inq[k]["server"] \o <<T(cur[c])>>
                                             ELSE inq[k]["server"],
                   inq[k]["client"], hpc[k], hcall[k], Live(k))
      BY <1>q, <2>1, <2>5, SendsTail
    <3> QED BY <1>0, <2>1, <2>2, <3>1, <3>2 DEF Flow
  <2> QED BY <2>1, <2>3, <2>4, <2>5, AfterSendType
<1>4. CASE GetReplyLen(c)
  <2>1. sock[c] = k /\ Receive(k, "client", "head") /\ UNCHANGED cur
        /\ pc[c] = "len" /\ pc'[c] = "body"
    BY <1>4 DEF GetReplyLen
  <2>2. /\ inq[k]["client"] # <<>> /\ Head(inq[k]["client"]).part = "head"
        /\ inq'[k]["client"] = Tail(inq[k]["client"])
        /\ inq'[k]["server"] = inq[k]["server"]
        /\ Live(k)' = Live(k)
    BY <2>1, ReceiveEffect DEF Ends, Peer
  <2>3. OnItsWay("body", cur[c], inq[k]["server"], Tail(inq[k]["client"]),
                 hpc[k], hcall[k], Live(k))
    BY <1>q, <2>1, <2>2, GetsLen
  <2> QED BY <1>0, <2>1, <2>2, <2>3 DEF Flow
<1>5. CASE ReplyArrives(c)
  <2>1. sock[c] = k /\ Receive(k, "client", "tail")
        /\ pc[c] = "body" /\ pc'[c] \in {"bye", "idle"}
    BY <1>5 DEF ReplyArrives, GetReplyBody, Replied, Return
  <2>2. /\ inq[k]["client"] # <<>>
        /\ inq'[k]["client"] = Tail(inq[k]["client"])
        /\ inq'[k]["server"] = inq[k]["server"]
        /\ Live(k)' = Live(k)
    BY <2>1, ReceiveEffect DEF Ends, Peer
  <2>3. \A j : /\ OnItsWay("idle", j, inq[k]["server"], Tail(inq[k]["client"]),
                           hpc[k], hcall[k], Live(k))
               /\ OnItsWay("bye", j, inq[k]["server"], Tail(inq[k]["client"]),
                           hpc[k], hcall[k], Live(k))
    BY <1>q, <2>1, <2>2, GetsBody
  <2> QED BY <1>0, <2>1, <2>2, <2>3 DEF Flow
<1>6. CASE DisconnectServer(c)
  BY <1>0, <1>6 DEF DisconnectServer
<1>7. SendDataFails(c) \/ SigPipe(c) \/ GetReplyLenFails(c) \/ CloseDisconnects(c)
        \/ (\E r \in Reply : GetReplyBodyFails(c, r)) \/ Crash(c)
      => DisconnectServer(c)
  BY DEF SendDataFails, SigPipe, Exit, GetReplyLenFails, CloseDisconnects,
         GetReplyBodyFails, Crash
<1>8. CASE ConnectFails(c) \/ Restart(c)
  BY <1>0, <1>8 DEF ConnectFails, Restart, Sockets
<1> QED BY <1>1, <1>2, <1>3, <1>4, <1>5, <1>6, <1>7, <1>8 DEF ClientStep, AdvanceCall

\* A step that ends the server resets the connections that are queued or
\* served, and touches no other.
LEMMA FlowServerEnds ==
    ASSUME TypeOK, NEW c \in Clients, NEW k \in Conns, Flow(c, k),
           NEW K, CloseListener(K), k \in K \/ hpc[k] = "off",
           UNCHANGED clientVars, hpc'[k] = "off"
    PROVE  Flow(c, k)'
<1>1. CloseAll(Queued \cup K, "server", Queued \cup K) /\ cut' = cut
  BY DEF CloseListener
<1>2. inq'[k]["client"] = inq[k]["client"]
  BY <1>1, CloseAllItems DEF TypeOK, Ends
<1>3. pc'[c] = pc[c] /\ cur'[c] = cur[c]
  BY DEF clientVars
<1>4. CASE k \in Queued \cup K
  <2>1. inq'[k]["server"] = <<>> /\ st'[k]["server"] = "closed"
    BY <1>1, <1>4, CloseAllItems DEF TypeOK, Ends
  <2>2. Live(k)' = FALSE
    BY <2>1 DEF Live
  <2>3. OnItsWay(pc[c], cur[c], <<>>, inq[k]["client"], "off", hcall'[k], FALSE)
    BY FlowServerGone DEF Flow
  <2> QED BY <1>2, <1>3, <2>1, <2>2, <2>3 DEF Flow
<1>5. CASE k \notin Queued \cup K
  <2>1. inq'[k]["server"] = inq[k]["server"] /\ st'[k]["server"] = st[k]["server"]
    BY <1>1, <1>5, CloseAllItems DEF TypeOK, Ends
  <2>2. Live(k)' = Live(k)
    BY <1>1, <2>1 DEF Live
  <2>3. OnItsWay(pc[c], cur[c], inq[k]["server"], inq[k]["client"], "off", hcall'[k], Live(k))
    BY <1>5 DEF Flow, OnItsWay
  <2> QED BY <1>2, <1>3, <2>1, <2>2, <2>3 DEF Flow
<1> QED BY <1>4, <1>5

\* The steps of the handler of the connection of a call.
LEMMA FlowHandlerStep ==
    ASSUME TypeOK, Sockets, NEW c \in Clients, NEW k \in Conns,
           sock[c] = k, Flow(c, k), HandlerStep(k)
    PROVE  Flow(c, k)'
<1> USE DEF TypeOK, ServerTypeOK
<1>0. pc'[c] = pc[c] /\ cur'[c] = cur[c]
  BY DEF HandlerStep, clientVars
<1>o. st[k]["client"] = "open"
  BY ClientAssumption DEF Sockets
<1>q. OnItsWay(pc[c], cur[c], inq[k]["server"], inq[k]["client"],
               hpc[k], hcall[k], Live(k))
  BY DEF Flow
<1>1. CASE RecvLen(k) \/ RecvBody(k)
  <2>1. PICK part : Receive(k, "server", part)
    BY <1>1 DEF RecvLen, RecvBody
  <2>2. /\ inq[k]["server"] # <<>>
        /\ inq'[k]["server"] = Tail(inq[k]["server"])
        /\ inq'[k]["client"] = inq[k]["client"]
        /\ Live(k)' = Live(k)
    BY <2>1, ReceiveEffect DEF Ends, Peer
  <2>3. CASE RecvLen(k)
    <3>1. hpc[k] = "len" /\ hpc'[k] = "body" /\ hcall'[k] = Head(inq[k]["server"]).call
      BY <2>3 DEF RecvLen
    <3>2. OnItsWay(pc[c], cur[c], Tail(inq[k]["server"]), inq[k]["client"],
                   "body", Head(inq[k]["server"]).call, Live(k))
      BY <1>q, <2>2, <3>1, HandlerGetsLen
    <3> QED BY <1>0, <2>2, <3>1, <3>2 DEF Flow
  <2>4. CASE RecvBody(k)
    <3>1. hpc[k] = "body" /\ hpc'[k] = "lib" /\ hcall'[k] = hcall[k]
      BY <2>4 DEF RecvBody
    <3>2. OnItsWay(pc[c], cur[c], Tail(inq[k]["server"]), inq[k]["client"],
                   "lib", hcall[k], Live(k))
      BY <1>q, <2>2, <3>1, HandlerGetsBody
    <3> QED BY <1>0, <2>2, <3>1, <3>2 DEF Flow
  <2> QED BY <1>1, <2>3, <2>4
<1>2. CASE Disconnect(k)
  <2>1. /\ inq'[k]["client"] = inq[k]["client"] /\ inq'[k]["server"] = <<>>
        /\ st'[k]["server"] = "closed"
    BY <1>2, CloseItems DEF Disconnect, Ends
  <2>2. hpc'[k] = "off" /\ Live(k)' = FALSE
    BY <1>2, <2>1 DEF Disconnect, Live
  <2>3. OnItsWay(pc[c], cur[c], <<>>, inq[k]["client"], "off", hcall'[k], FALSE)
    BY <1>q, FlowServerGone
  <2> QED BY <1>0, <2>1, <2>2, <2>3 DEF Flow
<1>3. CASE ProcessCommand(k) \/ ProcessCommandNull(k)
  <2>1. UNCHANGED <<st, inq, cut>> /\ hpc[k] = "lib"
    BY <1>3 DEF ProcessCommand, ProcessCommandNull, tcpVars
  <2>2. Live(k)' = Live(k)
    BY <2>1 DEF Live
  <2>3. (hpc'[k] = "reply" /\ hcall'[k] = hcall[k]) \/ hpc'[k] = "len"
    BY <1>3 DEF ProcessCommand, ProcessCommandNull
  <2>4. \A x : /\ OnItsWay(pc[c], cur[c], inq[k]["server"], inq[k]["client"],
                           "reply", hcall[k], Live(k))
               /\ OnItsWay(pc[c], cur[c], inq[k]["server"], inq[k]["client"],
                           "len", x, Live(k))
    BY <1>q, <2>1, HandlerAnswers
  <2> QED BY <1>0, <2>1, <2>2, <2>3, <2>4 DEF Flow
<1>4. CASE SendReply(k) /\ hpc[k] = "reply"
  <2>1. Send(k, "server", Packet(hcall[k])) /\ hpc'[k] = "len"
    BY <1>4 DEF SendReply
  <2>2. OnItsWay(pc[c], cur[c], inq[k]["server"], inq[k]["client"],
                 "reply", hcall[k], Live(k))
    BY <1>q, <1>4
  <2>3. hcall[k] = cur[c] /\ inq[k]["client"] = <<>>
    BY <2>2 DEF OnItsWay
  <2>4. OnItsWay(pc[c], cur[c], inq[k]["server"],
                 IF Live(k) THEN <<H(cur[c]), T(cur[c])>> ELSE <<>>,
                 "len", hcall'[k], Live(k))
    BY <2>2, HandlerReplies
  <2>5. /\ inq'[k]["server"] = inq[k]["server"]
        /\ inq'[k]["client"] = IF Live(k) THEN inq[k]["client"] \o Packet(hcall[k])
                                          ELSE inq[k]["client"]
        /\ Live(k)' = Live(k)
    BY <1>o, <2>1, ServerSends
  <2>6. inq'[k]["client"] = IF Live(k) THEN <<H(cur[c]), T(cur[c])>> ELSE <<>>
    <3>1. Packet(hcall[k]) = <<H(cur[c]), T(cur[c])>>
      BY <2>3, ShortQueues
    <3>2. <<>> \o <<H(cur[c]), T(cur[c])>> = <<H(cur[c]), T(cur[c])>>
      OBVIOUS
    <3> QED BY <2>3, <2>5, <3>1, <3>2
  <2> QED BY <1>0, <2>1, <2>4, <2>5, <2>6 DEF Flow
<1>5. CASE SendReplyPart(k)
  <2>1. Send(k, "server", <<Head(Packet(hcall[k]))>>) /\ hpc'[k] = "rest"
        /\ hcall'[k] = hcall[k] /\ hpc[k] = "reply"
    BY <1>5 DEF SendReplyPart
  <2>2. OnItsWay(pc[c], cur[c], inq[k]["server"], inq[k]["client"],
                 "reply", hcall[k], Live(k))
    BY <1>q, <2>1
  <2>3. hcall[k] = cur[c] /\ inq[k]["client"] = <<>>
    BY <2>2 DEF OnItsWay
  <2>4. OnItsWay(pc[c], cur[c], inq[k]["server"],
                 IF Live(k) THEN <<H(cur[c])>> ELSE <<>>,
                 "rest", hcall[k], Live(k))
    BY <2>2, HandlerRepliesPart
  <2>5. /\ inq'[k]["server"] = inq[k]["server"]
        /\ inq'[k]["client"] = IF Live(k)
                               THEN inq[k]["client"] \o <<Head(Packet(hcall[k]))>>
                               ELSE inq[k]["client"]
        /\ Live(k)' = Live(k)
    BY <1>o, <2>1, ServerSends
  <2>6. inq'[k]["client"] = IF Live(k) THEN <<H(cur[c])>> ELSE <<>>
    BY <2>3, <2>5, ShortQueues DEF H
  <2> QED BY <1>0, <2>1, <2>4, <2>5, <2>6 DEF Flow
<1>6. CASE SendReply(k) /\ hpc[k] = "rest"
  <2>1. Send(k, "server", Tail(Packet(hcall[k]))) /\ hpc'[k] = "len"
    BY <1>6 DEF SendReply
  <2>2. OnItsWay(pc[c], cur[c], inq[k]["server"], inq[k]["client"],
                 "rest", hcall[k], Live(k))
    BY <1>q, <1>6
  <2>3. hcall[k] = cur[c]
    BY <2>2 DEF OnItsWay
  <2>4. OnItsWay(pc[c], cur[c], inq[k]["server"],
                 IF Live(k) THEN inq[k]["client"] \o <<T(cur[c])>>
                            ELSE inq[k]["client"],
                 "len", hcall'[k], Live(k))
    BY <2>2, HandlerSendsRest
  <2>5. /\ inq'[k]["server"] = inq[k]["server"]
        /\ inq'[k]["client"] = IF Live(k)
                               THEN inq[k]["client"] \o Tail(Packet(hcall[k]))
                               ELSE inq[k]["client"]
        /\ Live(k)' = Live(k)
    BY <1>o, <2>1, ServerSends
  <2>6. Tail(Packet(hcall[k])) = <<T(cur[c])>>
    BY <2>3, ShortQueues
  <2> QED BY <1>0, <2>1, <2>4, <2>5, <2>6 DEF Flow
<1>7. CASE ServerSigPipe(k)
  <2>1. CloseListener({k}) /\ hpc'[k] = "off"
    BY <1>7 DEF ServerSigPipe
  <2> QED BY <2>1, FlowServerEnds DEF HandlerStep
<1>8. CASE SendReply(k)
  BY <1>4, <1>6, <1>8 DEF SendReply
<1> QED BY <1>1, <1>2, <1>3, <1>5, <1>7, <1>8
        DEF HandlerStep, Receiving, Serving, RecvEnds, RecvTimesOut, SendReplyFails

\* Every call stays where its process expects it.
LEMMA FlowsStep ==
    ASSUME TypeOK, TypeOK', CallsInProgress, OneHandler, Sockets, Sockets', Flows,
           [OrderlyNext]_vars
    PROVE  Flows'
<1> USE DEF TypeOK
<1>s. astray' = astray
  BY DEF OrderlyNext, ClientStep, MainStep, HandlerStep, NetworkStep, vars
<1> SUFFICES ASSUME NEW c \in Clients, NEW k \in Conns \ Astray, sock'[c] = k
             PROVE  Flow(c, k)'
  BY <1>s DEF ClientTypeOK, Flows, Flow, Live, Astray
<1>k. k \in Conns /\ k # NoSock
  BY ClientAssumption
<1>0. ASSUME sock'[c] = sock[c] PROVE Flow(c, k)
  BY <1>0, <1>k DEF Flows
<1>1. ASSUME NEW b \in Clients, ClientStep(b) PROVE Flow(c, k)'
  <2>1. CASE b = c
    BY <1>1, <1>k, <2>1, FlowOwnStep
  <2>2. CASE b # c
    <3>1. UNCHANGED <<hpc, hcall>>
      BY <1>1 DEF ClientStep, serverVars
    <3>2. CASE MakeCall(b)
      <4>1. UNCHANGED <<st, inq, cut, sock>> /\ pc'[c] = pc[c] /\ cur'[c] = cur[c]
        BY <2>2, <3>2, MakeCallEffect DEF tcpVars, ClientTypeOK
      <4>2. Live(k)' = Live(k)
        BY <4>1 DEF Live
      <4> QED BY <1>0, <1>k, <3>1, <4>1, <4>2, FlowFrame
    <3>3. CASE AdvanceCall(b) \/ Crash(b) \/ Restart(b)
      <4>1. sock'[c] = sock[c] /\ pc'[c] = pc[c] /\ cur'[c] = cur[c]
        BY <2>2, <3>3, SocketEffect
      <4>2. k # sock[b] /\ k # sock'[b]
        BY <1>k, <2>2, <4>1 DEF Sockets
      <4>3. /\ inq'[k]["client"] = inq[k]["client"] /\ inq'[k]["server"] = inq[k]["server"]
            /\ st'[k]["server"] = st[k]["server"] /\ cut' = cut
        BY <1>k, <3>3, <4>2, OwnConnectionOnly
      <4>4. Live(k)' = Live(k)
        BY <4>3 DEF Live
      <4> QED BY <1>0, <1>k, <3>1, <4>1, <4>3, <4>4, FlowFrame
    <3> QED BY <1>1, <3>2, <3>3 DEF ClientStep
  <2> QED BY <2>1, <2>2
<1>2. ASSUME UNCHANGED clientVars
      PROVE  Flow(c, k) /\ sock[c] = k /\ pc'[c] = pc[c] /\ cur'[c] = cur[c]
  BY <1>0, <1>2 DEF clientVars
<1>3. CASE MainStep
  <2>0. UNCHANGED clientVars
    BY <1>3 DEF MainStep
  <2>1. CASE Accept
    <3>1. PICK j \in Conns : TakeQueued(j) /\ hpc' = [hpc EXCEPT ![j] = "len"]
      BY <2>1 DEF Accept
    <3>2. UNCHANGED <<st, inq, cut, hcall>> /\ hpc[k] = "off"
      BY <1>k, <2>1, <3>1 DEF Accept, TakeQueued, OneHandler
    <3>3. Live(k)' = Live(k)
      BY <3>2 DEF Live
    <3>4. CASE j = k
      <4>1. hpc'[k] = "len"
        BY <1>k, <3>1, <3>4 DEF ServerTypeOK
      <4>2. OnItsWay(pc[c], cur[c], inq[k]["server"], inq[k]["client"],
                     "len", hcall[k], Live(k))
        BY <1>2, <2>0, <3>2 DEF Flow, OnItsWay
      <4> QED BY <1>2, <2>0, <3>2, <3>3, <4>1, <4>2 DEF Flow
    <3>5. CASE j # k
      <4>1. hpc'[k] = hpc[k]
        BY <1>k, <3>1, <3>5 DEF ServerTypeOK
      <4> QED BY <1>2, <1>k, <2>0, <3>2, <3>3, <4>1, FlowFrame
    <3> QED BY <3>4, <3>5
  <2>2. CASE HandlerEnded \/ StartServer
    <3>1. UNCHANGED <<st, inq, cut, hpc, hcall>>
      BY <2>2 DEF HandlerEnded, StartServer, Listen, tcpVars
    <3>2. Live(k)' = Live(k)
      BY <3>1 DEF Live
    <3> QED BY <1>2, <1>k, <2>0, <3>1, <3>2, FlowFrame
  <2>3. CASE StopListening
    <3>1. CloseListener({}) /\ hpc' = hpc /\ hpc[k] = "off"
      BY <1>k, <2>3 DEF StopListening, OneHandler
    <3> QED BY <1>2, <1>k, <2>0, <3>1, FlowServerEnds
  <2> QED BY <1>3, <2>1, <2>2, <2>3 DEF MainStep
<1>4. ASSUME NEW j \in Conns, HandlerStep(j) PROVE Flow(c, k)'
  <2>0. UNCHANGED clientVars
    BY <1>4 DEF HandlerStep
  <2>1. CASE j = k
    BY <1>2, <1>4, <1>k, <2>0, <2>1, FlowHandlerStep
  <2>2. CASE j # k /\ ServerSigPipe(j)
    <3>1. hpc[k] = "off"
      BY <1>4, <1>k, <2>2, HandlerIsOn DEF OneHandler
    <3>2. CloseListener({j}) /\ hpc'[k] = "off"
      BY <1>k, <2>2 DEF ServerSigPipe
    <3> QED BY <1>2, <1>k, <2>0, <3>1, <3>2, FlowServerEnds
  <2>3. CASE j # k /\ ~ServerSigPipe(j)
    <3>1. cut' = cut
      BY <1>4, <2>3 DEF HandlerStep, Receiving, Serving, RecvEnds, RecvTimesOut,
         SendReplyFails, RecvLen, RecvBody, Receive, ProcessCommand,
         ProcessCommandNull, tcpVars, SendReply, SendReplyPart, Send, Disconnect, Close
    <3>2. /\ inq'[k]["client"] = inq[k]["client"] /\ inq'[k]["server"] = inq[k]["server"]
          /\ st'[k]["server"] = st[k]["server"]
          /\ hpc'[k] = hpc[k] /\ hcall'[k] = hcall[k]
      BY <1>4, <1>k, <2>3, OwnHandlerOnly
    <3>3. Live(k)' = Live(k)
      BY <3>1, <3>2 DEF Live
    <3> QED BY <1>2, <1>k, <2>0, <3>2, <3>3, FlowFrame
  <2> QED BY <2>1, <2>2, <2>3
<1>5. CASE NetworkStep
  <2>0. UNCHANGED clientVars /\ UNCHANGED <<hpc, hcall>>
    BY <1>5 DEF NetworkStep, serverVars
  <2>1. PICK j \in Conns : Lose(j)
    BY <1>5 DEF NetworkStep
  <2>2. st' = st /\ cut' = cut \cup {j}
    BY <2>1 DEF Lose
  <2>3. CASE j = k
    <3>1. /\ inq'[k]["server"] \in Prefixes(inq[k]["server"], "server")
          /\ inq'[k]["client"] \in Prefixes(inq[k]["client"], "client")
      BY <1>k, <2>1, <2>3, LoseItems DEF Ends
    <3>2. Live(k)' = FALSE
      BY <2>2, <2>3 DEF Live
    <3>3. OnItsWay(pc[c], cur[c], inq'[k]["server"], inq'[k]["client"],
                   hpc[k], hcall[k], FALSE)
      BY <1>2, <2>0, <3>1, FlowLoses DEF Flow
    <3> QED BY <1>2, <2>0, <3>2, <3>3 DEF Flow
  <2>4. CASE j # k
    <3>1. inq'[k]["server"] = inq[k]["server"] /\ inq'[k]["client"] = inq[k]["client"]
      BY <1>k, <2>1, <2>4, LoseItems DEF Ends
    <3>2. Live(k)' = Live(k)
      BY <2>2, <2>4 DEF Live
    <3> QED BY <1>2, <1>k, <2>0, <3>1, <3>2, FlowFrame
  <2> QED BY <2>3, <2>4
<1>6. CASE UNCHANGED vars
  <2>1. UNCHANGED clientVars /\ UNCHANGED <<st, inq, cut, hpc, hcall>>
    BY <1>6 DEF vars, tcpVars, serverVars
  <2>2. Live(k)' = Live(k)
    BY <2>1 DEF Live
  <2> QED BY <1>2, <1>k, <2>1, <2>2, FlowFrame
<1> QED BY <1>1, <1>3, <1>4, <1>5, <1>6 DEF OrderlyNext

-----------------------------------------------------------------------------
(* The steps of ends that have lost their place. *)

\* They lose or keep their own connection, and leave the others alone.
LEMMA ClientAstrayEffect ==
    ASSUME TypeOK, NEW c \in Clients, ClientAstray(c)
    PROVE  /\ UNCHANGED <<serverVars, req, cut, backlog, listening>>
           /\ RecvAllocMayFail \/ Astray # {}
           /\ pc[c] \in {"len", "body"} /\ sock[c] \in Conns
           /\ sock[c] \in astray'["client"] /\ AstrayTypeOK'
           /\ astray'["server"] = astray["server"]
           /\ astray["client"] \subseteq astray'["client"]
           /\ TcpTypeOK' /\ ClientTypeOK'
           /\ \/ UNCHANGED <<sock, st>>
              \/ sock' = [sock EXCEPT ![c] = NoSock]
           /\ \/ /\ pc' = [pc EXCEPT ![c] = "idle"]
                 /\ cur' = [cur EXCEPT ![c] = NoCall]
              \/ pc' = [pc EXCEPT ![c] = "bye"] /\ UNCHANGED <<cur, held, outcome>>
           /\ \A j \in Conns : \A x \in Ends :
                /\ Items(inq'[j][x]) \subseteq Items(inq[j][x])
                /\ inq[j][x] = <<>> => inq'[j][x] = <<>>
                /\ st'[j][x] = "none" => st[j][x] = "none"
                /\ j # sock[c] \/ x # "client" =>
                     inq'[j][x] = inq[j][x] /\ st'[j][x] = st[j][x]
<1> USE DEF TypeOK, ClientTypeOK
<1>0. UNCHANGED <<serverVars, req>> /\ sock[c] \in Conns
  <2>1. sock[c] # NoSock
    BY ClientAssumption DEF ClientAstray, GetReplyAllocFails, GetReplyAstray, AstrayTypeOK, Ends
  <2>2. UNCHANGED req
    BY DEF ClientAstray, GetReplyAllocFails, GetReplyAstray, Return, Replied
  <2> QED BY <2>1, <2>2 DEF ClientAstray
<1>1. CASE GetReplyAllocFails(c)
  <2>1. /\ RecvAllocMayFail /\ pc[c] = "body" /\ UNCHANGED <<sock, tcpVars>>
        /\ Return(c, "ERR_FAILED", NoDev)
        /\ astray' = [astray EXCEPT !["client"] = @ \cup {sock[c]}]
    BY <1>1 DEF GetReplyAllocFails
  <2>2. /\ sock[c] \in astray'["client"] /\ astray["client"] \subseteq astray'["client"]
        /\ astray'["server"] = astray["server"] /\ AstrayTypeOK'
    BY <1>0, <2>1 DEF AstrayTypeOK, Ends
  <2>3. UNCHANGED <<st, inq, cut, backlog, listening>>
    BY <2>1 DEF tcpVars
  <2>4. TcpTypeOK'
    BY <2>1 DEF TcpTypeOK, tcpVars
  <2>5. ClientTypeOK'
    BY <2>1, ReturnType DEF Status
  <2>6. pc' = [pc EXCEPT ![c] = "idle"] /\ cur' = [cur EXCEPT ![c] = NoCall]
    BY <2>1 DEF Return
  <2> QED BY <1>0, <2>1, <2>2, <2>3, <2>4, <2>5, <2>6
<1>2. CASE GetReplyAstray(c)
  <2>1. PICK r \in Reply :
         \/ /\ \E n \in 0 .. Len(inq[sock[c]]["client"]) :
                   ReceiveSome(sock[c], "client", n)
            /\ Replied(c, r)
         \/ DisconnectServer(c) /\ Return(c, r.status, r.dev)
    BY <1>2 DEF GetReplyAstray
  <2>2. /\ pc[c] = "len" /\ sock[c] \in astray["client"] /\ astray' = astray
        /\ AstrayTypeOK' /\ Astray # {}
    BY <1>2 DEF GetReplyAstray, AstrayTypeOK, Astray
  <2>r. r.status \in Status /\ r.dev \in Devices \cup {NoDev}
    BY DEF Reply
  <2>3. CASE DisconnectServer(c) /\ Return(c, r.status, r.dev)
    <3>1. TcpTypeOK' /\ ClientTypeOK'
      BY <2>r, <2>3, DisconnectServerType, ReturnType
    <3>2. pc' = [pc EXCEPT ![c] = "idle"] /\ cur' = [cur EXCEPT ![c] = NoCall]
          /\ sock' = [sock EXCEPT ![c] = NoSock]
      BY <2>3 DEF Return, DisconnectServer
    <3>3. ASSUME NEW j \in Conns, NEW x \in Ends
          PROVE  /\ Items(inq'[j][x]) \subseteq Items(inq[j][x])
                 /\ inq[j][x] = <<>> => inq'[j][x] = <<>>
                 /\ st'[j][x] = "none" => st[j][x] = "none"
                 /\ j # sock[c] \/ x # "client" =>
                      inq'[j][x] = inq[j][x] /\ st'[j][x] = st[j][x]
                 /\ UNCHANGED <<cut, backlog, listening>>
      BY <2>3, DisconnectServerItems
    <3>4. UNCHANGED <<cut, backlog, listening>>
      BY <1>0, <3>3 DEF Ends
    <3> QED BY <1>0, <2>2, <3>1, <3>2, <3>3, <3>4
  <2>4. CASE /\ \E n \in 0 .. Len(inq[sock[c]]["client"]) :
                   ReceiveSome(sock[c], "client", n)
             /\ Replied(c, r)
    <3>1. PICK n \in Nat : ReceiveSome(sock[c], "client", n)
      BY <2>4
    <3>2. /\ UNCHANGED <<st, err, cut, backlog, listening>> /\ TcpTypeOK'
          /\ \A j \in Conns : j # sock[c] => inq'[j] = inq[j]
          /\ inq[sock[c]]["client"] = <<>> => inq'[sock[c]]["client"] = <<>>
          /\ Items(inq'[sock[c]]["client"]) \subseteq Items(inq[sock[c]]["client"])
          /\ inq'[sock[c]]["server"] = inq[sock[c]]["server"]
      BY <1>0, <3>1, ReceiveSomeDoes, ReceiveSomeType DEF Ends, Peer
    <3>3. ASSUME NEW j \in Conns, NEW x \in Ends
          PROVE  /\ Items(inq'[j][x]) \subseteq Items(inq[j][x])
                 /\ inq[j][x] = <<>> => inq'[j][x] = <<>>
                 /\ st'[j][x] = "none" => st[j][x] = "none"
                 /\ j # sock[c] \/ x # "client" =>
                      inq'[j][x] = inq[j][x] /\ st'[j][x] = st[j][x]
      BY <3>2 DEF Ends
    <3>4. UNCHANGED sock
      BY <2>4 DEF Replied
    <3>5. CASE Return(c, r.status, r.dev)
      <4>1. ClientTypeOK'
        BY <2>r, <3>4, <3>5, ReturnType
      <4>2. pc' = [pc EXCEPT ![c] = "idle"] /\ cur' = [cur EXCEPT ![c] = NoCall]
        BY <3>5 DEF Return
      <4> QED BY <1>0, <2>2, <3>2, <3>3, <3>4, <4>1, <4>2
    <3>6. CASE pc' = [pc EXCEPT ![c] = "bye"] /\ UNCHANGED <<cur, held, req, outcome>>
      <4>1. ClientTypeOK'
        BY <3>4, <3>6
      <4> QED BY <1>0, <2>2, <3>2, <3>3, <3>4, <3>6, <4>1
    <3> QED BY <2>4, <3>5, <3>6 DEF Replied
  <2> QED BY <2>1, <2>3, <2>4
<1> QED BY <1>1, <1>2 DEF ClientAstray

LEMMA HandlerAstrayEffect ==
    ASSUME TypeOK, HandlerCalls, NEW k \in Conns, HandlerAstray(k)
    PROVE  /\ UNCHANGED <<clientVars, mainVars, executed, answer, st, err, cut,
                          backlog, listening>>
           /\ RecvAllocMayFail \/ Astray # {}
           /\ k \in astray'["server"] /\ AstrayTypeOK' /\ TcpTypeOK' /\ ServerTypeOK'
           /\ astray'["client"] = astray["client"]
           /\ astray["server"] \subseteq astray'["server"]
           /\ hpc[k] # "off" /\ hpc'[k] \in {"len", "noise", "reply"}
           /\ hpc'[k] # "len" => hcall'[k] \in Calls /\ req[hcall'[k]] # NoRequest
           /\ \A j \in Conns : j # k =>
                inq'[j] = inq[j] /\ hpc'[j] = hpc[j] /\ hcall'[j] = hcall[j]
           /\ inq'[k]["client"] = inq[k]["client"]
           /\ Items(inq'[k]["server"]) \subseteq Items(inq[k]["server"])
           /\ inq[k]["server"] = <<>> => inq'[k]["server"] = <<>>
<1> USE DEF TypeOK
<1>0. UNCHANGED clientVars
  BY DEF HandlerAstray
<1>1. CASE RecvBodyAllocFails(k)
  <2>1. /\ RecvAllocMayFail /\ hpc[k] = "body"
        /\ hpc' = [hpc EXCEPT ![k] = "len"] /\ hcall' = [hcall EXCEPT ![k] = NoCall]
        /\ astray' = [astray EXCEPT !["server"] = @ \cup {k}]
        /\ UNCHANGED <<mainVars, libVars, tcpVars>>
    BY <1>1 DEF RecvBodyAllocFails
  <2>2. /\ k \in astray'["server"] /\ astray["server"] \subseteq astray'["server"]
        /\ astray'["client"] = astray["client"] /\ AstrayTypeOK'
    BY <2>1 DEF AstrayTypeOK, Ends
  <2>3. TcpTypeOK' /\ UNCHANGED <<st, inq, err, cut, backlog, listening>>
    BY <2>1 DEF TcpTypeOK, tcpVars
  <2>4. ServerTypeOK' /\ UNCHANGED <<executed, answer>>
    BY <2>1 DEF ServerTypeOK, mainVars, libVars
  <2>5. /\ hpc'[k] = "len"
        /\ \A j \in Conns : j # k => hpc'[j] = hpc[j] /\ hcall'[j] = hcall[j]
    BY <2>1 DEF ServerTypeOK
  <2> QED BY <1>0, <2>1, <2>2, <2>3, <2>4, <2>5
<1>2. CASE RecvAstray(k)
  <2>1. PICK n \in Nat : n >= 1 /\ ReceiveSome(k, "server", n)
    BY <1>2 DEF RecvAstray
  <2>2. /\ hpc[k] = "len" /\ k \in astray["server"] /\ astray' = astray
        /\ hpc' = [hpc EXCEPT ![k] = "noise"]
        /\ hcall' = [hcall EXCEPT ![k] = Head(inq[k]["server"]).call]
        /\ UNCHANGED <<mainVars, libVars>>
    BY <1>2 DEF RecvAstray
  <2>3. /\ UNCHANGED <<st, err, cut, backlog, listening>> /\ TcpTypeOK'
        /\ \A j \in Conns : j # k => inq'[j] = inq[j]
        /\ inq[k]["server"] = <<>> => inq'[k]["server"] = <<>>
        /\ Items(inq'[k]["server"]) \subseteq Items(inq[k]["server"])
        /\ inq'[k]["client"] = inq[k]["client"]
    BY <2>1, ReceiveSomeDoes, ReceiveSomeType DEF Ends, Peer
  <2>4. Head(inq[k]["server"]) \in Items(inq[k]["server"]) /\ Head(inq[k]["server"]) \in Item
    <3>1. inq[k]["server"] \in Seq(Item) /\ Len(inq[k]["server"]) >= 1
      BY <2>1 DEF ReceiveSome, TcpTypeOK, Ends
    <3> QED BY <3>1 DEF Items
  <2>5. hcall'[k] \in Calls /\ req[hcall'[k]] # NoRequest
    BY <2>2, <2>4 DEF HandlerCalls, ServerTypeOK, Item
  <2>6. ServerTypeOK' /\ UNCHANGED <<executed, answer>>
    <3>1. Head(inq[k]["server"]).call \in Calls
      BY <2>4 DEF Item
    <3> QED BY <2>2, <3>1 DEF ServerTypeOK, mainVars, libVars
  <2>7. /\ hpc'[k] = "noise"
        /\ \A j \in Conns : j # k => hpc'[j] = hpc[j] /\ hcall'[j] = hcall[j]
    BY <2>2 DEF ServerTypeOK
  <2> QED BY <1>0, <2>2, <2>3, <2>5, <2>6, <2>7 DEF Astray, AstrayTypeOK
<1>3. CASE ProcessNoise(k)
  <2>1. /\ hpc[k] = "noise" /\ UNCHANGED <<mainVars, executed, answer, astray, tcpVars>>
        /\ \/ hpc' = [hpc EXCEPT ![k] = "reply"] /\ UNCHANGED hcall
           \/ hpc' = [hpc EXCEPT ![k] = "len"] /\ hcall' = [hcall EXCEPT ![k] = NoCall]
    BY <1>3 DEF ProcessNoise
  <2>2. opened' \subseteq Devices
    <3>1. opened' = opened \/ \E r \in Request : \E a \in Answers(r) : opened' = a[2]
      BY <1>3 DEF ProcessNoise
    <3> QED BY <3>1, AnswersType DEF ServerTypeOK
  <2>3. k \in astray["server"] /\ hcall[k] \in Calls /\ req[hcall[k]] # NoRequest
    BY <2>1 DEF HandlerCalls
  <2>4. TcpTypeOK' /\ UNCHANGED <<st, inq, err, cut, backlog, listening>>
    BY <2>1 DEF TcpTypeOK, tcpVars
  <2>5. ServerTypeOK'
    BY <2>1, <2>2 DEF ServerTypeOK, mainVars
  <2>6. /\ hpc'[k] \in {"len", "reply"}
        /\ hpc'[k] # "len" => hcall'[k] = hcall[k]
        /\ \A j \in Conns : j # k => hpc'[j] = hpc[j] /\ hcall'[j] = hcall[j]
    BY <2>1 DEF ServerTypeOK
  <2>7. astray' = astray /\ AstrayTypeOK' /\ Astray # {}
    BY <2>1, <2>3 DEF Astray, AstrayTypeOK
  <2>8. hpc[k] # "off" /\ hpc'[k] \in {"len", "noise", "reply"}
    BY <2>1, <2>6
  <2>9. hpc'[k] # "len" => hcall'[k] \in Calls /\ req[hcall'[k]] # NoRequest
    BY <2>3, <2>6
  <2>10. UNCHANGED mainVars /\ UNCHANGED <<executed, answer>>
    BY <2>1
  <2> QED BY <1>0, <2>3, <2>4, <2>5, <2>6, <2>7, <2>8, <2>9, <2>10
<1> QED BY <1>1, <1>2, <1>3 DEF HandlerAstray

LEMMA ClientAstrayStep ==
    ASSUME IInv, NEW c \in Clients, ClientAstray(c)
    PROVE  IInv'
<1> USE DEF IInv
<1>0. /\ UNCHANGED <<mainPc, serving, hpc, hcall, answer>> /\ UNCHANGED req
      /\ UNCHANGED cut /\ UNCHANGED backlog
  BY ClientAstrayEffect DEF serverVars
<1>1. TypeOK'
  <2>1. TcpTypeOK' /\ ClientTypeOK' /\ AstrayTypeOK' /\ UNCHANGED serverVars
    BY ClientAstrayEffect
  <2> QED BY <2>1 DEF TypeOK, ServerTypeOK, serverVars
<1>2. CallsInProgress'
  <2>1. /\ pc[c] \in Busy
        /\ \/ pc' = [pc EXCEPT ![c] = "idle"] /\ cur' = [cur EXCEPT ![c] = NoCall]
           \/ pc' = [pc EXCEPT ![c] = "bye"] /\ UNCHANGED cur
    BY ClientAstrayEffect DEF Busy
  <2> QED BY <1>0, <2>1 DEF TypeOK, ClientTypeOK, CallsInProgress, Busy
<1>3. OneHandler'
  BY <1>0 DEF OneHandler
<1>q. \A j \in Conns : \A x \in Ends :
        /\ Items(inq'[j][x]) \subseteq Items(inq[j][x])
        /\ inq[j][x] = <<>> => inq'[j][x] = <<>>
        /\ st'[j][x] = "none" => st[j][x] = "none"
        /\ j # sock[c] \/ x # "client" =>
             inq'[j][x] = inq[j][x] /\ st'[j][x] = st[j][x]
  BY ClientAstrayEffect
<1>a. /\ sock[c] \in Conns /\ sock[c] \in astray'["client"]
      /\ astray'["server"] = astray["server"]
      /\ astray["client"] \subseteq astray'["client"]
      /\ pc[c] \in {"len", "body"}
      /\ RecvAllocMayFail \/ Astray # {}
  BY ClientAstrayEffect
<1>4. HandlerCalls'
  BY <1>0, <1>q, <1>a DEF HandlerCalls, Ends
<1>5. Remembers'
  BY <1>a DEF Remembers
<1>s. /\ \A b \in Clients : b # c => sock'[b] = sock[b] /\ pc'[b] = pc[b] /\ cur'[b] = cur[b]
      /\ (sock' = sock /\ st' = st) \/ sock'[c] = NoSock
      /\ pc'[c] \in {"idle", "bye"}
  BY ClientAstrayEffect DEF TypeOK, ClientTypeOK
<1>6. Sockets'
  <2>1. ASSUME NEW k \in Conns, st'[k]["client"] = "none"
        PROVE  /\ st'[k]["server"] = "none" /\ hpc'[k] = "off" /\ k \notin Queued'
               /\ inq'[k]["client"] = <<>> /\ inq'[k]["server"] = <<>>
    <3>1. st[k]["client"] = "none"
      BY <1>q, <2>1 DEF Ends
    <3> QED BY <1>0, <1>q, <3>1 DEF Sockets, Queued, Ends
  <2>2. ASSUME NEW b \in Clients, sock'[b] # NoSock
        PROVE  /\ sock'[b] = sock[b] /\ st'[sock'[b]]["client"] = "open"
               /\ pc'[b] \notin {"connect", "killed"}
    <3>1. CASE b = c
      BY <1>s, <2>2, <3>1 DEF Sockets
    <3>2. CASE b # c
      <4>1. sock'[b] = sock[b] /\ pc'[b] = pc[b]
        BY <1>s, <3>2
      <4>2. sock[b] \in Conns /\ sock[b] # sock[c]
        BY <1>a, <2>2, <3>2, <4>1, ClientAssumption DEF Sockets, TypeOK, ClientTypeOK
      <4>3. st'[sock[b]]["client"] = st[sock[b]]["client"]
        BY <1>q, <4>2 DEF Ends
      <4> QED BY <2>2, <4>1, <4>3 DEF Sockets
    <3> QED BY <3>1, <3>2
  <2>3. ASSUME NEW a \in Clients, NEW b \in Clients, sock'[a] = sock'[b], sock'[a] # NoSock
        PROVE  a = b
    BY <2>2, <2>3 DEF Sockets
  <2> QED BY <2>1, <2>2, <2>3 DEF Sockets
<1>7. Flows'
  <2> SUFFICES ASSUME NEW b \in Clients, NEW k \in Conns, sock'[b] = k, k \notin Astray'
               PROVE  Flow(b, k)'
    BY <1>1 DEF Flows, Flow, Live, Astray, TypeOK, ClientTypeOK
  <2>1. k # sock[c] /\ k \notin Astray /\ k # NoSock
    BY <1>a, ClientAssumption DEF Astray
  <2>2. b # c
    BY <1>s, <2>1
  <2>3. sock[b] = k /\ pc'[b] = pc[b] /\ cur'[b] = cur[b]
    BY <1>s, <2>2
  <2>4. Flow(b, k)
    BY <2>1, <2>3 DEF Flows
  <2>5. /\ inq'[k]["client"] = inq[k]["client"] /\ inq'[k]["server"] = inq[k]["server"]
        /\ st'[k]["server"] = st[k]["server"]
    BY <1>q, <2>1 DEF Ends
  <2>6. Live(k)' = Live(k)
    BY <1>0, <2>5 DEF Live
  <2> QED BY <1>0, <2>3, <2>4, <2>5, <2>6, FlowFrame
<1> QED BY <1>1, <1>2, <1>3, <1>4, <1>5, <1>6, <1>7

LEMMA HandlerAstrayStep ==
    ASSUME IInv, NEW k \in Conns, HandlerAstray(k)
    PROVE  IInv'
<1> USE DEF IInv
<1>0. UNCHANGED clientVars /\ UNCHANGED mainVars /\ UNCHANGED <<answer, st, cut, backlog>>
  BY HandlerAstrayEffect
<1>c. UNCHANGED <<sock, pc, cur, req>>
  BY <1>0 DEF clientVars
<1>1. TypeOK'
  <2>1. TcpTypeOK' /\ ServerTypeOK' /\ AstrayTypeOK'
    BY HandlerAstrayEffect
  <2> QED BY <1>0, <2>1 DEF TypeOK, ClientTypeOK, clientVars
<1>2. CallsInProgress'
  BY <1>c DEF CallsInProgress
<1>h. /\ hpc[k] # "off" /\ hpc'[k] \in {"len", "noise", "reply"}
      /\ hpc'[k] # "len" => hcall'[k] \in Calls /\ req[hcall'[k]] # NoRequest
      /\ \A j \in Conns : j # k =>
           inq'[j] = inq[j] /\ hpc'[j] = hpc[j] /\ hcall'[j] = hcall[j]
      /\ inq'[k]["client"] = inq[k]["client"]
      /\ Items(inq'[k]["server"]) \subseteq Items(inq[k]["server"])
      /\ inq[k]["server"] = <<>> => inq'[k]["server"] = <<>>
  BY HandlerAstrayEffect
<1>a. /\ k \in astray'["server"]
      /\ astray'["client"] = astray["client"]
      /\ astray["server"] \subseteq astray'["server"]
      /\ RecvAllocMayFail \/ Astray # {}
  BY HandlerAstrayEffect
<1>3. OneHandler'
  <2>1. mainPc = "join" /\ k = serving
    BY <1>h DEF OneHandler
  <2> QED BY <1>0, <1>h, <2>1 DEF OneHandler, mainVars
<1>4. HandlerCalls'
  <2>1. ASSUME NEW j \in Conns, hpc'[j] \in {"body", "lib", "noise", "reply", "rest"}
        PROVE  hcall'[j] \in Calls /\ req'[hcall'[j]] # NoRequest
    <3>1. CASE j = k
      BY <1>c, <1>h, <2>1, <3>1
    <3>2. CASE j # k
      BY <1>c, <1>h, <2>1, <3>2 DEF HandlerCalls
    <3> QED BY <3>1, <3>2
  <2>2. ASSUME NEW j \in Conns PROVE hpc'[j] = "noise" => j \in astray'["server"]
    BY <1>a, <1>h DEF HandlerCalls
  <2>3. ASSUME NEW j \in Conns, hpc'[j] \in {"reply", "rest"}
        PROVE  j \in astray'["server"] \/ answer'[hcall'[j]] \in Reply
    <3>1. CASE j = k
      BY <1>a, <3>1
    <3>2. CASE j # k
      BY <1>0, <1>a, <1>h, <2>3, <3>2 DEF HandlerCalls
    <3> QED BY <3>1, <3>2
  <2>4. ASSUME NEW j \in Conns, NEW m \in Items(inq'[j]["server"])
        PROVE  req'[m.call] # NoRequest
    <3>1. m \in Items(inq[j]["server"])
      BY <1>h, <2>4
    <3> QED BY <1>c, <3>1 DEF HandlerCalls
  <2>5. ASSUME NEW j \in Conns, NEW m \in Items(inq'[j]["client"])
        PROVE  j \in astray'["server"] \/ answer'[m.call] \in Reply
    <3>1. m \in Items(inq[j]["client"])
      BY <1>h, <2>5
    <3> QED BY <1>0, <1>a, <3>1 DEF HandlerCalls
  <2> QED BY <2>1, <2>2, <2>3, <2>4, <2>5 DEF HandlerCalls
<1>5. Remembers'
  BY <1>a DEF Remembers
<1>6. Sockets'
  <2>1. ASSUME NEW j \in Conns, st'[j]["client"] = "none"
        PROVE  /\ st'[j]["server"] = "none" /\ hpc'[j] = "off" /\ j \notin Queued'
               /\ inq'[j]["client"] = <<>> /\ inq'[j]["server"] = <<>>
    BY <1>0, <1>h, <2>1 DEF Sockets, Queued
  <2> QED BY <1>0, <1>c, <2>1 DEF Sockets
<1>7. Flows'
  <2> SUFFICES ASSUME NEW b \in Clients, NEW j \in Conns, sock'[b] = j, j \notin Astray'
               PROVE  Flow(b, j)'
    BY <1>1 DEF Flows, Flow, Live, Astray, TypeOK, ClientTypeOK
  <2>1. j # k /\ j \notin Astray /\ j # NoSock
    BY <1>a, ClientAssumption DEF Astray
  <2>2. Flow(b, j)
    BY <1>c, <2>1 DEF Flows
  <2>3. Live(j)' = Live(j)
    BY <1>0 DEF Live
  <2> QED BY <1>c, <1>h, <2>1, <2>2, <2>3, FlowFrame
<1> QED BY <1>1, <1>2, <1>3, <1>4, <1>5, <1>6, <1>7

-----------------------------------------------------------------------------
(* The invariant, and what follows from it. *)

LEMMA InitIInv ==
    ASSUME Init
    PROVE  IInv
<1> USE DEF Init, TcpInit, ClientInit, ServerInit
<1>1. TypeOK
  <2>1. loaded \in BOOLEAN /\ listening \in BOOLEAN /\ stopServer \in BOOLEAN
    OBVIOUS
  <2>2. TcpTypeOK
    BY <2>1 DEF TcpTypeOK
  <2>3. ClientTypeOK
    BY DEF ClientTypeOK
  <2>4. ServerTypeOK
    BY <2>1 DEF ServerTypeOK
  <2>5. AstrayTypeOK
    BY DEF AstrayTypeOK
  <2> QED BY <2>2, <2>3, <2>4, <2>5 DEF TypeOK
<1>2. CallsInProgress
  BY DEF CallsInProgress, Busy
<1>3. OneHandler
  BY DEF OneHandler
<1>4. HandlerCalls
  BY NoItems DEF HandlerCalls, Ends
<1>5. Sockets
  BY NoItems DEF Sockets, Queued, Ends
<1>6. Flows
  BY DEF Flows
<1>7. Remembers
  BY DEF Remembers, Astray, Ends
<1> QED BY <1>1, <1>2, <1>3, <1>4, <1>5, <1>6, <1>7 DEF IInv

LEMMA OrderlyStep ==
    ASSUME IInv, [OrderlyNext]_vars
    PROVE  IInv' /\ astray' = astray
<1> USE DEF IInv
<1>1. TypeOK'
  BY NextType
<1>2. CallsInProgress'
  BY CallsInProgressStep
<1>3. OneHandler'
  BY OneHandlerStep
<1>4. HandlerCalls'
  BY HandlerCallsStep
<1>5. Sockets'
  BY SocketsStep
<1>6. Flows'
  BY <1>1, <1>5, FlowsStep
<1>7. astray' = astray
  BY DEF OrderlyNext, ClientStep, MainStep, HandlerStep, NetworkStep, vars
<1>8. Remembers'
  BY <1>7 DEF Remembers, Astray
<1> QED BY <1>1, <1>2, <1>3, <1>4, <1>5, <1>6, <1>7, <1>8

LEMMA IInvStep ==
    ASSUME IInv, [Next]_vars
    PROVE  IInv'
BY OrderlyStep, ClientAstrayStep, HandlerAstrayStep DEF Next

\* The inductive invariant holds in every state the system can reach: every
\* call is in one place on its way to the library and back.
THEOREM Invariance == Safety => []IInv
<1>1. Init => IInv
  BY InitIInv
<1>2. IInv /\ [Next]_vars => IInv'
  BY IInvStep
<1> QED BY <1>1, <1>2, PTL DEF Safety

\* Every variable keeps its type, whatever the clients, the server and the
\* network do.
THEOREM TypeCorrect == Safety => []TypeOK
<1>1. IInv => TypeOK
  BY DEF IInv
<1> QED BY <1>1, Invariance, PTL

\* The library is never in two handlers at once.
THEOREM Serial == Safety => []LibrarySerial
<1>1. IInv => LibrarySerial
  BY DEF IInv, OneHandler, LibrarySerial
<1> QED BY <1>1, Invariance, PTL

\* What process c has before it on its connection is the reply to its call.
LEMMA FlowIsOwn ==
    ASSUME NEW p, NEW i, NEW A, NEW B, NEW h, NEW hc, NEW live,
           OnItsWay(p, i, A, B, h, hc, live), NEW n \in 1 .. Len(B)
    PROVE  B[n].call = i
<1>1. H(i).call = i /\ T(i).call = i
  BY ShortQueues
<1>2. B \in {<<>>, <<H(i)>>, <<T(i)>>, <<H(i), T(i)>>}
  BY DEF OnItsWay
<1> QED BY <1>1, <1>2

\* No process ever has before it a reply to another call than the one it is
\* in, however its earlier calls ended, unless an end of its connection had no
\* memory for a packet (the NULL of malloc in getReply and on_client_connect).
THEOREM RepliesAreOwn == Safety => []OwnReply
<1>1. IInv => OwnReply
  <2> SUFFICES ASSUME IInv, NEW c \in Clients, sock[c] # NoSock,
                      sock[c] \notin Astray,
                      NEW n \in 1 .. Len(inq[sock[c]]["client"])
               PROVE  inq[sock[c]]["client"][n].call = cur[c]
    BY DEF OwnReply
  <2> QED BY FlowIsOwn DEF IInv, Flows, Flow
<1> QED BY <1>1, Invariance, PTL

=============================================================================
